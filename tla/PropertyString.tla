---------------------------- MODULE PropertyString ----------------------------
(***************************************************************************)
(* internal/property: a property string, "key=value,..." with one key that *)
(* may be left out, to and from a struct.  Texts and numbers are Codec's;  *)
(* the values that stand for a type are not: here an empty text is no      *)
(* bool, and an integer does not go by way of a float64.                   *)
(*                                                                         *)
(* It goes on beside an Update that had nothing to do.                     *)
(***************************************************************************)
EXTENDS Codec

CONSTANTS
    Properties, \* the struct's fields in order: name, kind, pointer, default
    Items,      \* what may stand between two commas of a string
    Givens,     \* structs that Unmarshal may be given to read into
    MaxInt,     \* the greatest integer that the type of an int field holds
    MaxItems    \* bound: items in a string

PropertyTags ==
    [name : {name \in Texts : Range(name) \cap {",", "="} = {}},
     kind : Kinds, pointer : BOOLEAN, default : BOOLEAN]

\* What an item without a comma can be read as.
PropertyValues(kind) ==
    CASE kind = "string" -> Seq(Symbols \ {","})
      [] kind = "bool"   -> BOOLEAN
      [] kind = "int"    -> 0 .. MaxInt
      [] kind = "list"   -> Seq(Seq(Symbols \ {",", ";"}))

ASSUME PropertiesAssumption ==
    /\ Properties \in Seq(PropertyTags)
    /\ \A i, j \in DOMAIN Properties :
          i # j => /\ Properties[i].name # Properties[j].name
                   /\ ~(Properties[i].default /\ Properties[j].default)
    /\ \A item \in Items : item \in Texts /\ "," \notin Range(item)
    /\ \A s \in Givens :
          /\ s = [i \in DOMAIN Properties |-> s[i]]
          /\ \A i \in DOMAIN s : IF s[i] = Nil THEN Properties[i].pointer
                               ELSE s[i] \in PropertyValues(Properties[i].kind)
    /\ MaxInt \in Nat /\ MaxItems \in Nat

VARIABLES
    string,  \* the items that Unmarshal has read
    given,   \* the struct it was given
    props,   \* what it has made of it
    bad      \* it has returned an error

pVars == <<vars, string, given, props, bad>>

ZeroOf(f) == IF f.pointer THEN Nil ELSE Zero[f.kind]
ZeroStruct == [i \in DOMAIN Properties |-> ZeroOf(Properties[i])]

-----------------------------------------------------------------------------
(* Marshal.                                                                *)

FormatValue(kind, v) ==
    CASE kind = "string" -> v
      [] kind = "bool"   -> IF v THEN <<"1">> ELSE <<"0">>
      [] kind = "int"    -> Decimal[v]
      [] kind = "list"   -> JoinBy(v, ";")

\* Faulty: false and 0 are empty too.
WrittenUnlessZero(f, v) == f.name \notin {<<>>, <<"-">>} /\ v # Nil /\ v # Zero[f.kind]

\* A string or a list with nothing in it is an empty value, also behind a pointer.
Empty(f, v)   == f.kind \in {"string", "list"} /\ v = <<>>
Written(f, v) == f.name \notin {<<>>, <<"-">>} /\ v # Nil /\ ~Empty(f, v)

Item(f, v) == (IF f.default THEN <<>> ELSE f.name \o <<"=">>) \o FormatValue(f.kind, v)

\* The loop over the fields.
WriteField(s, items, i) ==
    IF Written(Properties[i], s[i]) THEN Append(items, Item(Properties[i], s[i])) ELSE items

Marshal(s) ==
    LET Write(items, i) == WriteField(s, items, i)
        items == FoldLeft(Write, <<>>, [i \in DOMAIN Properties |-> i])
    IN  IF items = <<>> THEN <<>> ELSE Join(items)

-----------------------------------------------------------------------------
(* Unmarshal.                                                              *)

HasKey(item) == "=" \in Range(item)
Key(item)    == SubSeq(item, 1, SelectInSeq(item, LAMBDA s : s = "=") - 1)
\* What follows the first "=": it may have others.
ValueOf(item) ==
    IF HasKey(item) THEN SubSeq(item, SelectInSeq(item, LAMBDA s : s = "=") + 1, Len(item))
    ELSE item

\* What strconv.ParseBool takes.
Truths == {<<"1">>, <<"t">>, <<"T">>, <<"true">>, <<"True">>, <<"TRUE">>}
Falses == {<<"0">>, <<"f">>, <<"F">>, <<"false">>, <<"False">>, <<"FALSE">>}

ParsesAs(kind, t) ==
    /\ kind = "bool" => t \in Truths \cup Falses
    /\ kind = "int" => IsNumber(t) /\ Number(t) <= MaxInt

ParseValue(kind, t) ==
    CASE kind = "string" -> t
      [] kind = "bool"   -> t \in Truths
      [] kind = "int"    -> Number(t)
      [] kind = "list"   -> SplitAt(t, ";")

\* Faulty: the default field takes whatever key there is.
TakesAnyKey(f, item) == f.default \/ (HasKey(item) /\ Key(item) = f.name)

\* The default field's key may be left out.
Takes(f, item) == IF HasKey(item) THEN Key(item) = f.name ELSE f.default

(***************************************************************************)
(* One iteration of the loop over the items: the first field that takes    *)
(* the item gets it.  An error ends the loop; the fields read before stay  *)
(* as read, and a nil pointer has been given its zero before the parse.    *)
(***************************************************************************)
ReadItem(r, item) ==
    LET i == SelectInSeq(Properties, LAMBDA f : Takes(f, item))
        kind == Properties[i].kind
    IN  IF r.bad \/ item = <<>> \/ i = 0 THEN r
        ELSE IF ParsesAs(kind, ValueOf(item))
        THEN [r EXCEPT !.props[i] = ParseValue(kind, ValueOf(item))]
        ELSE [props |-> [r.props EXCEPT ![i] = IF @ = Nil THEN Zero[kind] ELSE @],
              bad |-> TRUE]

Unmarshal(t, s) == FoldLeft(ReadItem, [props |-> s, bad |-> FALSE], Split(t))

-----------------------------------------------------------------------------

\* An update of an empty file with an empty config.
NothingToUpdate ==
    /\ pc = "done" /\ commands = 0 /\ DOMAIN options = {}
    /\ \A f \in Pointers : desired[f] = Nil

Unmarshalling ==
    /\ NothingToUpdate /\ ~bad /\ Len(string) < MaxItems
    /\ \E item \in Items :
          LET r == ReadItem([props |-> props, bad |-> bad], item)
          IN  string' = Append(string, item) /\ props' = r.props /\ bad' = r.bad
    /\ UNCHANGED <<vars, given>>

PInit ==
    /\ Init
    /\ given \in IF DOMAIN options = {} THEN Givens ELSE {ZeroStruct}
    /\ string = <<>> /\ props = given /\ bad = FALSE

PNext == Unmarshalling \/ (Next /\ UNCHANGED <<string, given, props, bad>>)

PSpec == PInit /\ [][PNext]_pVars

-----------------------------------------------------------------------------

\* The items that are meant for field f, without a scan.
Meant(f) ==
    {n \in DOMAIN string : string[n] # <<>> /\
        \/ IsPrefix(f.name \o <<"=">>, string[n])
        \/ f.default /\ "=" \notin Range(string[n])}

(***************************************************************************)
(* Each item goes to the field it is meant for and to no other, in any     *)
(* order and with keys unknown or left out; of two the later counts, and a *)
(* field without an item keeps what the struct had.  An item that does not *)
(* parse changes its field only from a nil pointer to one to a zero.       *)
(***************************************************************************)
ItemsInPlace ==
    \A i \in DOMAIN Properties :
        LET f == Properties[i]
            mine == {n \in Meant(f) : n < Len(string) \/ ~bad}
            text(n) == IF "=" \in Range(string[n])
                       THEN SubSeq(string[n], Len(f.name) + 2, Len(string[n])) ELSE string[n]
        IN  IF mine = {}
            THEN props[i] = IF bad /\ Len(string) \in Meant(f) /\ given[i] = Nil
                            THEN Zero[f.kind] ELSE given[i]
            ELSE \E n \in mine : /\ \A m \in mine : m <= n
                                 /\ props[i] = ParseValue(f.kind, text(n))

\* What Marshal leaves out, or what Unmarshal takes for a key: an empty text
\* behind a pointer, and a default field's text that is empty or has a "=".
Unwritable(f, v) ==
    \/ f.name \in {<<>>, <<"-">>}
    \/ f.pointer /\ Empty(f, v)
    \/ f.default /\ v # Nil /\ Written(f, v)
          /\ (FormatValue(f.kind, v) = <<>> \/ "=" \in Range(FormatValue(f.kind, v)))

(***************************************************************************)
(* What Unmarshal has made of any string at all, Marshal writes so that a  *)
(* fresh struct reads the same: false and 0 behind pointers, lists of one  *)
(* empty part, and texts with a "=" of their own included.                 *)
(***************************************************************************)
Reread ==
    ~(\E i \in DOMAIN Properties : Unwritable(Properties[i], props[i]) /\ props[i] # ZeroStruct[i])
        => Unmarshal(Marshal(props), ZeroStruct) = [props |-> props, bad |-> FALSE]
=============================================================================
