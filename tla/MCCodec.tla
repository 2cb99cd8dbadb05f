------------------------------- MODULE MCCodec -------------------------------
EXTENDS PropertyString

FieldName == [
    cores |-> <<"cores">>, onboot |-> <<"onboot">>, nodes |-> <<"nodes">>,
    position |-> <<"position">>, virtio |-> <<"virtio">>, virtiofs |-> <<"virtio", "fs">>]

FieldKind == [cores |-> "int", onboot |-> "bool", nodes |-> "list", position |-> "string"]

TextWords ==
    {"cores", "onboot", "nodes", "position", "virtio", "fs", "max", "true", "a", "b", "p",
     "file", "size", "ro", "tags", "-", "other", "T"}

\* Functions from some of the keys to one of their texts.
Partial(texts) ==
    UNION {{o \in [keys -> UNION {texts[k] : k \in keys}] : \A k \in keys : o[k] \in texts[k]}
             : keys \in SUBSET DOMAIN texts}

\* Canonical texts and others, an integer that a float64 rounds, a text that
\* does not decode, an index given twice and one that does not fit.
ConfigFiles ==
    Partial(<<"cores">> :> {<<"2">>, <<"0", "2">>, <<"9">>, <<"max">>}
            @@ <<"onboot">> :> {<<"0">>, <<"1">>, <<"true">>}
            @@ <<"nodes">> :> {<<>>, <<"a", ",", "b">>})
    \cup
    Partial(<<"virtio", "0">> :> {<<"a">>, <<"b">>}
            @@ <<"virtio", "0", "0">> :> {<<"a">>}
            @@ <<"virtio", "1", "0">> :> {<<"b">>}
            @@ <<"virtio", "1", "2">> :> {<<"a">>}
            @@ <<"virtio", "fs", "0">> :> {<<"a">>}
            @@ <<"onboot">> :> {<<"1">>})

Entries == {NoEntries, 0 :> <<"b">>, 0 :> <<"a">> @@ 10 :> <<"a">>}

Configs ==
    [cores : {0, 2, 8, 9}, onboot : {Nil, TRUE, FALSE},
     nodes : {Nil, <<>>, << <<"a">>, <<"b">> >>, << <<>> >>, << <<"a", ",", "b">> >>},
     position : {<<"p">>}, virtio : Entries, virtiofs : {NoEntries, 0 :> <<"b">>}]

\* A default field, fields of all kinds, and one that is never written.
Disk == <<
    [name |-> <<"file">>, kind |-> "string", pointer |-> FALSE, default |-> TRUE],
    [name |-> <<"size">>, kind |-> "int", pointer |-> TRUE, default |-> FALSE],
    [name |-> <<"ro">>, kind |-> "bool", pointer |-> TRUE, default |-> FALSE],
    [name |-> <<"tags">>, kind |-> "list", pointer |-> FALSE, default |-> FALSE],
    [name |-> <<"-">>, kind |-> "string", pointer |-> FALSE, default |-> FALSE]>>

\* "13" is beyond MaxInt, and ParseBool takes "T".
DiskTexts ==
    {<<>>, <<"0">>, <<"1", "2">>, <<"1", "3">>, <<"T">>, <<"a">>, <<"a", ";", "a">>,
     <<"a", "=", "a">>}
DiskItems ==
    DiskTexts \cup {<<k, "=">> \o t : k \in {"file", "size", "ro", "tags"}, t \in DiskTexts}
              \cup {<<"-", "=", "a">>, <<"other", "=", "a">>}
Disks == {ZeroStruct, << <<"a">>, 0, TRUE, << <<>> >>, <<>> >>}
=============================================================================
