------------------------------ MODULE MCConfFile ------------------------------
EXTENDS FakeNode

\* In the order of sort.Strings.
SnapshotNames == <<"after", "before">>
KeyOrder == <<"#note", "balloon", "cores">>
SetTo == {<<>>, <<Comment(NoText), Comment("text")>>}
=============================================================================
