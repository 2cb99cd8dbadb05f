-------------------------------- MODULE Codec --------------------------------
(***************************************************************************)
(* internal/params: structs to and from maps of option texts, as Update of *)
(* qemu/qemu.go and lxc/lxc.go uses them when a caller applies the same    *)
(* config again and again: read the options of the file, decode them,      *)
(* encode them, compare with the encoded config of the caller, and have qm *)
(* or pct set what differs.                                                *)
(*                                                                         *)
(* A text is a sequence of symbols: a digit, a comma, or a word that the   *)
(* code never takes apart.                                                 *)
(***************************************************************************)
EXTENDS Integers, SequencesExt

CONSTANTS
    Scalars,    \* fields that travel under one key
    Families,   \* "indexed" fields: maps from an index to a string
    Name,       \* per field: the name in its url tag, a text
    Kind,       \* per scalar: "string", "bool", "int" or "list"
    Pointers,   \* the scalars of a pointer type
    ReadOnly,   \* the fields tagged "readonly"
    MaxIndex,   \* the greatest index that the maps' key type holds
    Mantissa,   \* bits of a float64's mantissa (53)
    Nil,        \* a nil pointer
    Words,      \* the words of texts
    Files,      \* the options a guest's file may hold: functions from keys to texts
    Structs,    \* the configs a caller may apply
    MaxCommands \* bound: commands run in one behaviour

Kinds == {"string", "bool", "int", "list"}

ASSUME FieldsAssumption ==
    /\ Scalars \cap Families = {} /\ Pointers \subseteq Scalars
    /\ ReadOnly \subseteq Scalars \cup Families
    /\ \A f \in Scalars : Kind[f] \in Kinds
    /\ \A f, g \in Scalars \cup Families : Name[f] = Name[g] => f = g
ASSUME CodecBounds ==
    Mantissa \in Nat \ {0} /\ MaxIndex \in Nat /\ MaxCommands \in Nat

Fields == Scalars \cup Families

VARIABLES
    options,    \* what the file holds
    desired,    \* the caller's config
    current,    \* the config that Update decodes the file's options into
    visiting,   \* the keys that decodeIndexed has still to visit, with their field
    changed,    \* the options the command sets
    commands,   \* how many commands the updates have run
    pc

vars == <<options, desired, current, visiting, changed, commands, pc>>

-----------------------------------------------------------------------------
(* Texts.                                                                  *)

Digits == <<"0", "1", "2", "3", "4", "5", "6", "7", "8", "9">>
DigitValue(d) == CHOOSE n \in 0..9 : Digits[n + 1] = d
Symbols == Range(Digits) \cup {",", ";", "="} \cup Words
Texts   == Seq(Symbols)

Values(kind) ==
    CASE kind = "string" -> Texts
      [] kind = "bool"   -> BOOLEAN
      [] kind = "int"    -> Nat
      [] kind = "list"   -> Seq(Texts)

ASSUME TextsAssumption ==
    /\ \A f \in Fields : Name[f] \in Texts
    /\ \A kind \in Kinds : Nil \notin Values(kind)
    /\ \A o \in Files : \A key \in DOMAIN o : key \in Texts /\ o[key] \in Texts
    /\ \A s \in Structs, f \in Families :
          DOMAIN s[f] \subseteq 0..MaxIndex /\ \A i \in DOMAIN s[f] : s[f][i] \in Texts
    /\ \A s \in Structs, f \in Scalars :
          IF s[f] = Nil THEN f \in Pointers ELSE s[f] \in Values(Kind[f])

IsNumber(t) == t # <<>> /\ \A i \in DOMAIN t : t[i] \in Range(Digits)
Number(t) == FoldLeft(LAMBDA n, d : 10 * n + DigitValue(d), 0, t)

Decimal[n \in Nat] ==
    IF n < 10 THEN <<Digits[n + 1]>>
    ELSE Append(Decimal[n \div 10], Digits[(n % 10) + 1])

\* strings.Split(t, sep) and strings.Join(l, sep): n separators, n + 1 parts.
SplitAt(t, sep) ==
    FoldLeft(LAMBDA l, s :
                IF s = sep THEN Append(l, <<>>)
                ELSE [l EXCEPT ![Len(l)] = Append(@, s)],
             << <<>> >>, t)
JoinBy(l, sep) == FoldLeft(LAMBDA t, part : t \o <<sep>> \o part, Head(l), Tail(l))
Split(t) == SplitAt(t, ",")
Join(l)  == JoinBy(l, ",")

TwoTo[k \in Nat] == IF k = 0 THEN 1 ELSE 2 * TwoTo[k - 1]

\* How many of its bits n has too many for a mantissa.
Excess(n) ==
    CHOOSE k \in 0..n : n < TwoTo[Mantissa + k] /\ (k = 0 \/ n >= TwoTo[Mantissa + k - 1])

\* The float64 nearest to n, of two the even one.
Float(n) ==
    LET unit == TwoTo[Excess(n)]
        low == n \div unit
        up  == 2 * (n % unit) > unit \/ (2 * (n % unit) = unit /\ low % 2 = 1)
    IN  unit * (IF up THEN low + 1 ELSE low)

-----------------------------------------------------------------------------
(* Decode.                                                                 *)

Zero == [string |-> <<>>, bool |-> FALSE, int |-> 0, list |-> <<>>]

True  == {<<"1">>, <<"true">>}
False == {<<"0">>, <<"false">>, <<>>}

\* What decodeValue makes of a text, if it does not fail on it.
Readable(kind, t) ==
    /\ kind = "bool" => t \in True \cup False
    /\ kind = "int" => IsNumber(t)

DecodeValue(kind, t) ==
    CASE kind = "string" -> t
      [] kind = "bool"   -> t \in True
      [] kind = "int"    -> Float(Number(t))
      [] kind = "list"   -> IF t = <<>> THEN <<>> ELSE Split(t)

\* A scalar whose key is absent keeps the zero value of its type.
DecodeScalar(opts, f) ==
    IF Name[f] \in DOMAIN opts THEN DecodeValue(Kind[f], opts[Name[f]])
    ELSE IF f \in Pointers THEN Nil ELSE Zero[Kind[f]]

Suffix(f, key) == SubSeq(key, Len(Name[f]) + 1, Len(key))

\* Faulty: whatever starts with the name is an entry of the family.
ClaimsAnySuffix(f, key) == IsPrefix(Name[f], key) /\ key # Name[f]

\* The name and then digits only.
Claims(f, key) == IsPrefix(Name[f], key) /\ IsNumber(Suffix(f, key))

NoEntries == [i \in {} |-> Nil]

\* What a map m holds when the entries of n have been put into it.
With(m, n) ==
    [k \in DOMAIN m \cup DOMAIN n |-> IF k \in DOMAIN n THEN n[k] ELSE m[k]]

Start(opts) == [f \in Fields |-> IF f \in Scalars THEN DecodeScalar(opts, f) ELSE NoEntries]

\* ConfigFile and decodeStruct: the scalars, and what decodeIndexed will visit.
Read ==
    /\ pc = "read"
    /\ \A f \in Scalars : Name[f] \in DOMAIN options => Readable(Kind[f], options[Name[f]])
    /\ current' = Start(options)
    /\ visiting' = {e \in Families \X DOMAIN options : Claims(e[1], e[2])}
    /\ pc' = "visit"
    /\ UNCHANGED <<options, desired, changed, commands>>

Fits(f, key) == IsNumber(Suffix(f, key)) /\ Number(Suffix(f, key)) <= MaxIndex

\* One iteration of decodeIndexed's loop over the keys, in any order.
DecodeIndexed(f, key) ==
    /\ pc = "visit" /\ <<f, key>> \in visiting
    /\ Fits(f, key)
    /\ current' = [current EXCEPT ![f] = With(@, [i \in {Number(Suffix(f, key))} |-> options[key]])]
    /\ visiting' = visiting \ {<<f, key>>}
    /\ UNCHANGED <<options, desired, changed, commands, pc>>

\* A text or an index that cannot be decoded: Update returns the error.
Fail ==
    /\ \/ /\ pc = "read"
          /\ \E f \in Scalars : Name[f] \in DOMAIN options
                                /\ ~Readable(Kind[f], options[Name[f]])
       \/ pc = "visit" /\ \E e \in visiting : ~Fits(e[1], e[2])
    /\ pc' = "failed"
    /\ UNCHANGED <<options, desired, current, visiting, changed, commands>>

-----------------------------------------------------------------------------
(* Encode.                                                                 *)

EncodeValue(kind, v) ==
    CASE kind = "string" -> v
      [] kind = "bool"   -> IF v THEN <<"1">> ELSE <<"0">>
      [] kind = "int"    -> Decimal[v]
      [] kind = "list"   -> Join(v)

\* Faulty: a zero behind a pointer is left out too, or no zero is.
SentUnlessZero(kind, always, v) == v # Zero[kind]
SentAlways(kind, always, v) == kind # "list" \/ v # <<>>

\* encodeField: an empty list is never sent, another zero only from a pointer.
Sent(kind, always, v) == v # Zero[kind] \/ (always /\ kind # "list")

KeyOf(f, i) == Name[f] \o Decimal[i]

\* No two fields share a key.
ASSUME KeysAssumption ==
    \A f \in Families, i \in 0..MaxIndex :
        /\ \A g \in Scalars : Name[g] # KeyOf(f, i)
        /\ \A g \in Families \ {f}, j \in 0..MaxIndex : KeyOf(g, j) # KeyOf(f, i)

\* The parameters of field f, as pairs of key and text.
Parameters(s, f) ==
    IF f \in ReadOnly THEN {}
    ELSE IF f \in Families THEN {<<KeyOf(f, i), s[f][i]>> : i \in DOMAIN s[f]}
    ELSE IF s[f] = Nil \/ ~Sent(Kind[f], f \in Pointers, s[f]) THEN {}
    ELSE {<<Name[f], EncodeValue(Kind[f], s[f])>>}

Encode(s) ==
    LET params == UNION {Parameters(s, f) : f \in Fields}
    IN  [key \in {p[1] : p \in params} |-> (CHOOSE p \in params : p[1] = key)[2]]

\* Faulty: all that is desired is set.
FilterNothing(cur, want) == want

FilterChangedOptions(cur, want) ==
    [key \in {k \in DOMAIN want : k \notin DOMAIN cur \/ cur[k] # want[k]} |-> want[key]]

\* Both sides go through the encoder.  Nothing differs: no command.
Compare ==
    /\ pc = "visit" /\ visiting = {}
    /\ changed' = FilterChangedOptions(Encode(current), Encode(desired))
    /\ pc' = IF DOMAIN changed' = {} THEN "done" ELSE "set"
    /\ UNCHANGED <<options, desired, current, visiting, commands>>

\* qm sets the options, and the caller applies its config once more.
Set ==
    /\ pc = "set" /\ commands < MaxCommands
    /\ options' = With(options, changed)
    /\ commands' = commands + 1
    /\ pc' = "read"
    /\ UNCHANGED <<desired, current, visiting, changed>>

\* The end: nothing left to set, an error, or the bound.
Over ==
    /\ pc \in {"done", "failed"} \/ (pc = "set" /\ commands = MaxCommands)
    /\ UNCHANGED vars

-----------------------------------------------------------------------------

Init ==
    /\ options \in Files
    /\ desired \in Structs
    /\ current = Start(NoEntries)
    /\ visiting = {}
    /\ changed = NoEntries
    /\ commands = 0
    /\ pc = "read"

Next ==
    \/ Read \/ Fail \/ Compare \/ Set \/ Over
    \/ \E f \in Families, key \in DOMAIN options : DecodeIndexed(f, key)

Spec == Init /\ [][Next]_vars

-----------------------------------------------------------------------------

\* What the caller asks for: what is behind a pointer, an entry of a family,
\* and any other value but the zero of its type.
Asked(f) ==
    /\ f \in Scalars \ ReadOnly
    /\ desired[f] # (IF f \in Pointers THEN Nil ELSE Zero[Kind[f]])
AskedKeys ==
    {Name[f] : f \in {g \in Scalars : Asked(g)}}
        \cup UNION {{Name[f] \o Decimal[i] : i \in DOMAIN desired[f]} : f \in Families \ ReadOnly}

\* A value that is sent and that its text gives back: no integer beyond what a
\* float64 counts, no empty list, and no list with commas in its parts.
Faithful(f) ==
    /\ Kind[f] = "int" => desired[f] <= TwoTo[Mantissa]
    /\ Kind[f] = "list" => desired[f] # <<>> /\
          \A i \in DOMAIN desired[f] : desired[f][i] # <<>> /\ "," \notin Range(desired[f][i])
AllFaithful == \A f \in Scalars : Asked(f) => Faithful(f)

\* No entry of a family is there twice, as with net0 and net00.
EntriesOnce ==
    \A f \in Families, key \in DOMAIN options :
        Claims(f, key) => key = KeyOf(f, Number(Suffix(f, key)))

(***************************************************************************)
(* A config that has been applied has nothing more to set (docs/design.md  *)
(* 2.4): whatever form the file's options had, one command is enough.      *)
(***************************************************************************)
Idempotent == AllFaithful /\ EntriesOnce => commands <= 1

(***************************************************************************)
(* When there is nothing to set, the file decodes to what the caller asks  *)
(* for, zeros behind pointers and entries of families included.            *)
(***************************************************************************)
Applied ==
    pc = "done" =>
        /\ \A f \in Scalars : Asked(f) /\ Faithful(f) => current[f] = desired[f]
        /\ \A f \in Families \ ReadOnly, i \in 0..MaxIndex :
              i \in DOMAIN desired[f] =>
                 i \in DOMAIN current[f] /\ current[f][i] = desired[f][i]

(***************************************************************************)
(* What the caller does not ask for stays as it was, in the file's own     *)
(* words: options of no field, zeros, and texts in another form.           *)
(***************************************************************************)
LeftAlone ==
    [][\A key \in DOMAIN options \cup DOMAIN options' :
          key \in AskedKeys \/ (key \in DOMAIN options /\ options'[key] = options[key])]_vars

(***************************************************************************)
(* Each key is decoded by the field it belongs to: an update fails only if *)
(* some field's own text or index is bad, and never since one name begins  *)
(* like another, as virtio and virtiofs do.                                *)
(***************************************************************************)
FailsForCause ==
    pc = "failed" =>
        \/ \E f \in Scalars : Name[f] \in DOMAIN options
                              /\ ~Readable(Kind[f], options[Name[f]])
        \/ \E f \in Families, key \in DOMAIN options :
              /\ IsPrefix(Name[f], key) /\ IsNumber(Suffix(f, key))
              /\ Number(Suffix(f, key)) > MaxIndex
=============================================================================
