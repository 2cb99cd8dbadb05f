------------------------------- MODULE ConfFile -------------------------------
(***************************************************************************)
(* conf/conf.go: Parse and Format of a guest's config file.                *)
(*                                                                         *)
(* A line is a record.  What tells lines apart is what Parse looks at: a   *)
(* leading '#', a "[name]" header, a ':' and the key before it.  An option *)
(* whose key is one of HashKeys is a line "#...: ..." ; a comment is a     *)
(* line with a leading '#' and no ':'.                                     *)
(***************************************************************************)
EXTENDS Integers, Sequences, SequencesExt

CONSTANTS
    PlainKeys,  \* keys that do not begin with '#'
    HashKeys,   \* keys that do
    Values,
    Texts,      \* what follows the '#' of a comment
    NoText,     \* nothing: the line is "#"
    Snapshots,  \* snapshot names, in sorted order
    MaxLines    \* bound: lines in a file

ASSUME KeysAssumption == PlainKeys \cap HashKeys = {}
ASSUME SnapshotsAssumption ==
    /\ Snapshots \in Seq(ToSet(Snapshots))
    /\ \A i, j \in DOMAIN Snapshots : Snapshots[i] = Snapshots[j] => i = j
    /\ ToSet(Snapshots) \cap {"", "PENDING"} = {}
ASSUME LinesAssumption == MaxLines \in Nat

Keys  == PlainKeys \cup HashKeys
Names == ToSet(Snapshots)

\* Lines: descriptions, headers ("" for a line "[]"), options, lines of none of
\* these (they have no ':'), empty ones, and one too long for Parse's scanner.
Comment(t)   == [kind |-> "comment", text |-> t]
Header(n)    == [kind |-> "header", name |-> n]
Option(k, w) == [kind |-> "option", key |-> k, value |-> w]
Junk  == [kind |-> "junk"]
Blank == [kind |-> "blank"]
Long  == [kind |-> "long"]

Lines ==
    [kind : {"comment"}, text : Texts \cup {NoText}]
    \cup [kind : {"header"}, name : Names \cup {"", "PENDING"}]
    \cup [kind : {"option"}, key : Keys, value : Values]
    \cup {Junk, Blank, Long}

HasHash(l) == l.kind = "comment" \/ (l.kind = "option" /\ l.key \in HashKeys)

-----------------------------------------------------------------------------
(* Section.                                                                *)

EmptySection == [keys |-> <<>>, values |-> <<>>]

Value(sec, k, w) ==
    [j \in DOMAIN sec.values \cup {k} |-> IF j = k THEN w ELSE sec.values[j]]

\* A key that is there already keeps its place and gets the later value.
Set(sec, k, w) ==
    [keys   |-> IF k \in DOMAIN sec.values THEN sec.keys ELSE Append(sec.keys, k),
     values |-> Value(sec, k, w)]

-----------------------------------------------------------------------------
(* Parse.                                                                  *)

(***************************************************************************)
(* The state of the scan: the section being read, cur, belongs to the      *)
(* snapshot `name` unless that is "", else to `target`, and to nothing     *)
(* when that is "none" too (after a "[]").                                 *)
(***************************************************************************)
Start ==
    [description |-> <<>>, inDescription |-> TRUE,
     current |-> EmptySection, pending |-> EmptySection, snapshots |-> <<>>,
     cur |-> EmptySection, target |-> "current", name |-> ""]

Flush(st) ==
    [st EXCEPT
       !.snapshots = IF st.name # "" THEN Value([values |-> @], st.name, st.cur) ELSE @,
       !.current = IF st.name = "" /\ st.target = "current" THEN st.cur ELSE @,
       !.pending = IF st.name = "" /\ st.target = "pending" THEN st.cur ELSE @,
       !.cur = EmptySection]

\* Faulty: the name of the snapshot read before stays.
EnterOver(st, n) ==
    IF n = "PENDING" THEN [Flush(st) EXCEPT !.target = "pending"]
                     ELSE [Flush(st) EXCEPT !.target = "none", !.name = n]

Enter(st, n) ==
    IF n = "PENDING" THEN [Flush(st) EXCEPT !.target = "pending", !.name = ""]
                     ELSE [Flush(st) EXCEPT !.target = "none", !.name = n]

ReadLine(st, l) ==
    IF l = Blank THEN st
    ELSE IF st.inDescription /\ HasHash(l)
         THEN [st EXCEPT !.description = Append(@, l)]
    ELSE LET past == [st EXCEPT !.inDescription = FALSE]
         IN  CASE l.kind = "header" -> Enter(past, l.name)
               [] l.kind = "option" -> [past EXCEPT !.cur = Set(@, l.key, l.value)]
               [] OTHER -> past

\* The File at the end of the text.  Its lines of description are joined: one
\* line with nothing in it makes the same string as no line.
File(st) ==
    LET end == Flush(st)
    IN  [description |-> IF end.description = <<Comment(NoText)>> THEN <<>>
                         ELSE end.description,
         current |-> end.current, pending |-> end.pending, snapshots |-> end.snapshots]

Parse(text) == File(FoldLeft(ReadLine, Start, text))

-----------------------------------------------------------------------------
(* Format.                                                                 *)

WriteSection(sec) == [i \in DOMAIN sec.keys |-> Option(sec.keys[i], sec.values[sec.keys[i]])]

WritePending(f) ==
    IF f.pending.keys # <<>> THEN <<Header("PENDING")>> \o WriteSection(f.pending) ELSE <<>>

\* Faulty: a header for each snapshot with options, as for [PENDING].
WriteSnapshotIfAny(f, n) ==
    IF n \in DOMAIN f.snapshots /\ f.snapshots[n].keys # <<>>
    THEN <<Header(n)>> \o WriteSection(f.snapshots[n]) ELSE <<>>

WriteSnapshot(f, n) ==
    IF n \in DOMAIN f.snapshots THEN <<Header(n)>> \o WriteSection(f.snapshots[n]) ELSE <<>>

\* Faulty: sections in the order [PENDING], options, snapshots.
FormatPendingFirst(f) ==
    LET Add(out, n) == out \o WriteSnapshot(f, n)
    IN  FoldLeft(Add, f.description \o WritePending(f) \o WriteSection(f.current), Snapshots)

Format(f) ==
    LET Add(out, n) == out \o WriteSnapshot(f, n)
    IN  FoldLeft(Add, f.description \o WriteSection(f.current) \o WritePending(f), Snapshots)

-----------------------------------------------------------------------------
(* Every text, a line at a time.                                           *)

VARIABLES text, st, failed

vars == <<text, st, failed>>

Init == text = <<>> /\ st = Start /\ failed = FALSE

Scan(l) ==
    /\ l # Long
    /\ st' = ReadLine(st, l)
    /\ UNCHANGED failed

\* The scanner stops, and Parse returns its error and no File.
ScanError(l) ==
    /\ l = Long
    /\ failed' = TRUE
    /\ UNCHANGED st

Next ==
    /\ ~failed /\ Len(text) < MaxLines
    /\ \E l \in Lines : (Scan(l) \/ ScanError(l)) /\ text' = Append(text, l)

Spec == Init /\ [][Next]_vars

-----------------------------------------------------------------------------
(* What a text says, without a scan.                                       *)

HeadersIn(t)  == {i \in DOMAIN t : t[i].kind = "header"}
\* Where the description ends: the first line that is neither '#' nor empty.
BodyStart(t) ==
    LET body == {i \in DOMAIN t : ~HasHash(t[i]) /\ t[i] # Blank}
    IN  IF body = {} THEN Len(t) + 1 ELSE CHOOSE i \in body : \A j \in body : i <= j

\* The option lines from after line h to the next header.
Body(t, h) ==
    {i \in DOMAIN t :
        /\ i > h /\ i >= BodyStart(t) /\ t[i].kind = "option"
        /\ \A j \in HeadersIn(t) : j > h => i < j}

\* A section holds the options of the lines ls: each key once, where it first
\* was, with the value it had last.
Holds(sec, t, ls) ==
    LET Of(k) == {i \in ls : t[i].key = k}
        FirstOf(k) == CHOOSE i \in Of(k) : \A j \in Of(k) : i <= j
        LastOf(k)  == CHOOSE i \in Of(k) : \A j \in Of(k) : i >= j
    IN  /\ ToSet(sec.keys) = {t[i].key : i \in ls}
        /\ DOMAIN sec.values = ToSet(sec.keys)
        /\ \A i, j \in DOMAIN sec.keys : i < j => FirstOf(sec.keys[i]) < FirstOf(sec.keys[j])
        /\ \A k \in ToSet(sec.keys) : sec.values[k] = t[LastOf(k)].value

\* The last of the headers named n, or 0.
LastHeader(t, n) ==
    LET hs == {i \in HeadersIn(t) : t[i].name = n} \cup {0}
    IN  CHOOSE h \in hs : \A j \in hs : j <= h

(***************************************************************************)
(* Parse reads each section where it is, whatever comes before or between: *)
(* the options above the first header are the current config and no other  *)
(* section's options get into it, [PENDING] and the snapshots have theirs, *)
(* and of two sections of one name the later counts.                       *)
(***************************************************************************)
SectionsRight ==
    LET f == File(st)
    IN  /\ Holds(f.current, text, Body(text, 0))
        /\ Holds(f.pending, text, IF LastHeader(text, "PENDING") = 0 THEN {}
                                  ELSE Body(text, LastHeader(text, "PENDING")))
        /\ DOMAIN f.snapshots = {n \in Names : LastHeader(text, n) # 0}
        /\ \A n \in DOMAIN f.snapshots :
              Holds(f.snapshots[n], text, Body(text, LastHeader(text, n)))

(***************************************************************************)
(* A text that says only what a File can say: no empty or foreign lines,   *)
(* '#' lines at the top only, keys once in a section, [PENDING] with       *)
(* options and before the snapshots, these once each and in sorted order.  *)
(***************************************************************************)
Plain(t) ==
    LET rank(n) == IF n = "PENDING" THEN 0 ELSE CHOOSE i \in DOMAIN Snapshots : Snapshots[i] = n
    IN  /\ \A i \in DOMAIN t :
              /\ t[i].kind \in {"comment", "header", "option"}
              /\ HasHash(t[i]) <=> i < BodyStart(t)
              /\ t[i].kind = "header" => t[i].name # ""
        /\ SubSeq(t, 1, BodyStart(t) - 1) # <<Comment(NoText)>>
        /\ \A h \in HeadersIn(t) \cup {0} : \A i, j \in Body(t, h) :
              t[i].key = t[j].key => i = j
        /\ \A h \in HeadersIn(t) : t[h].name = "PENDING" => Body(t, h) # {}
        /\ \A h, j \in HeadersIn(t) : h < j => rank(t[h].name) < rank(t[j].name)

\* Format(Parse(x)) = x, for every x that is Plain: nothing of such a file is
\* lost or moved, whichever sections it has.
RoundTrip == Plain(text) /\ ~failed => Format(File(st)) = text

(***************************************************************************)
(* What Parse made of any text at all survives being written and read      *)
(* again, unless an option "#...: ..." got into the current config (after  *)
(* a foreign first line): at the top of a file that is a description.      *)
(***************************************************************************)
Reparse ==
    LET f == File(st)
    IN  ToSet(f.current.keys) \cap HashKeys = {} => Parse(Format(f)) = f
=============================================================================
