------------------------- MODULE PropertyStringProofs -------------------------
(***************************************************************************)
(* Theorems about PropertyString, for structs with any fields and strings  *)
(* with any items.                                                         *)
(***************************************************************************)
EXTENDS CodecProofs

-----------------------------------------------------------------------------
(* Property strings: which field an item goes to.                          *)

LEMMA LeastIsMin ==
    ASSUME NEW S, S \subseteq Nat, S # {}
    PROVE  Min(S) \in S /\ \A m \in S : Min(S) <= m
<1>1. PICK n \in S : \A m \in S : n <= m
  BY LeastNumber
<1> QED
  BY <1>1 DEF Min

(***************************************************************************)
(* The first "=" of an item.                                               *)
(***************************************************************************)
EqualsAt(item) == {q \in 1 .. Len(item) : item[q] = "="}
FirstEquals(item) == Min(EqualsAt(item))

LEMMA EqualsFound ==
    ASSUME NEW item \in Texts, HasKey(item)
    PROVE  LET p == FirstEquals(item)
           IN  /\ p \in 1 .. Len(item) /\ item[p] = "=" /\ \A q \in 1 .. p - 1 : item[q] # "="
               /\ Key(item) = SubSeq(item, 1, p - 1)
               /\ ValueOf(item) = SubSeq(item, p + 1, Len(item))
<1> DEFINE p == FirstEquals(item)
<1>1. item \in Seq(Symbols) /\ Len(item) \in Nat /\ DOMAIN item = 1 .. Len(item)
  BY DEF Texts
<1>2. EqualsAt(item) \subseteq Nat /\ EqualsAt(item) # {}
  BY <1>1 DEF HasKey, Range, EqualsAt
<1>3. p \in EqualsAt(item) /\ \A m \in EqualsAt(item) : p <= m
  BY <1>2, LeastIsMin DEF FirstEquals
<1>4. \A q \in 1 .. p - 1 : item[q] # "="
  BY <1>1, <1>3 DEF EqualsAt
<1>5. SelectInSeq(item, LAMBDA s : s = "=") = p
  BY <1>2 DEF SelectInSeq, FirstEquals, EqualsAt
<1> QED
  BY <1>3, <1>4, <1>5 DEF EqualsAt, Key, ValueOf

(***************************************************************************)
(* An item has the key `name` just if it begins with it and a "=".         *)
(***************************************************************************)
LEMMA KeyMeans ==
    ASSUME NEW item \in Texts, HasKey(item), NEW name \in Texts, "=" \notin Range(name)
    PROVE  /\ Key(item) = name <=> IsPrefix(name \o <<"=">>, item)
           /\ Key(item) = name => ValueOf(item) = SubSeq(item, Len(name) + 2, Len(item))
<1> DEFINE p == FirstEquals(item)
           start == name \o <<"=">>
<1>1. /\ item \in Seq(Symbols) /\ Len(item) \in Nat
      /\ name \in Seq(Symbols) /\ Len(name) \in Nat /\ DOMAIN name = 1 .. Len(name)
  BY DEF Texts
<1>2. /\ p \in 1 .. Len(item) /\ item[p] = "=" /\ \A q \in 1 .. p - 1 : item[q] # "="
      /\ Key(item) = SubSeq(item, 1, p - 1) /\ ValueOf(item) = SubSeq(item, p + 1, Len(item))
  BY EqualsFound
<1> HIDE DEF p
<1>3. /\ Key(item) \in Seq(Symbols) /\ Len(Key(item)) = p - 1
      /\ \A q \in 1 .. p - 1 : Key(item)[q] = item[q]
  <2>1. \A q \in 1 .. p - 1 : item[q] \in Symbols
    BY <1>1, <1>2
  <2> QED
    BY <1>2, <2>1, SubSeqProperties
<1>4. /\ start \in Texts /\ Len(start) = Len(name) + 1 /\ start[Len(name) + 1] = "="
      /\ \A q \in 1 .. Len(name) : start[q] = name[q]
  <2>1. <<"=">> \in Seq(Symbols) /\ Len(<<"=">>) = 1
    BY DEF Symbols
  <2> QED
    BY <1>1, <2>1, ConcatProperties DEF Texts
<1> HIDE DEF start
<1>5. \A q \in 1 .. Len(name) : name[q] # "="
  BY <1>1 DEF Range
<1>6. ASSUME Key(item) = name PROVE IsPrefix(start, item)
  <2>1. Len(name) = p - 1 /\ \A q \in 1 .. p - 1 : name[q] = item[q]
    BY <1>3, <1>6
  <2>2. \A q \in 1 .. Len(start) : start[q] = item[q]
    BY <1>1, <1>2, <1>4, <2>1
  <2>3. Len(start) <= Len(item)
    BY <1>1, <1>2, <1>4, <2>1
  <2> QED
    BY <1>4, <2>2, <2>3, PrefixMeans
<1>7. ASSUME IsPrefix(start, item) PROVE Key(item) = name
  <2>1. Len(start) <= Len(item) /\ \A q \in 1 .. Len(start) : start[q] = item[q]
    BY <1>4, <1>7, PrefixMeans
  <2>2. item[Len(name) + 1] = "=" /\ \A q \in 1 .. Len(name) : item[q] = name[q]
    BY <1>1, <1>4, <2>1
  <2>3. p = Len(name) + 1
    <3>1. ~(p <= Len(name))
      BY <1>1, <1>2, <1>5, <2>2
    <3>2. ~(Len(name) + 1 < p)
      BY <1>1, <1>2, <2>2
    <3> QED
      BY <1>1, <1>2, <3>1, <3>2
  <2>4. Len(Key(item)) = Len(name) /\ \A q \in 1 .. Len(name) : Key(item)[q] = name[q]
    BY <1>1, <1>3, <2>2, <2>3
  <2> QED
    BY <1>1, <1>3, <2>4, SeqEqual
<1>8. ASSUME Key(item) = name PROVE ValueOf(item) = SubSeq(item, Len(name) + 2, Len(item))
  <2>1. p + 1 = Len(name) + 2
    BY <1>1, <1>2, <1>3, <1>8
  <2> QED
    BY <1>2, <2>1
<1> QED
  BY <1>6, <1>7, <1>8 DEF start

\* What Meant says of one item.
MeantFor(f, item) ==
    item # <<>> /\ (\/ IsPrefix(f.name \o <<"=">>, item)
                    \/ f.default /\ "=" \notin Range(item))

(***************************************************************************)
(* An item goes to the one field that it is meant for.                     *)
(***************************************************************************)
LEMMA TakesMeant ==
    ASSUME NEW item \in Texts, NEW f \in PropertyTags
    PROVE  /\ MeantFor(f, item) <=> item # <<>> /\ Takes(f, item)
           /\ MeantFor(f, item) =>
                 ValueOf(item) = IF "=" \in Range(item)
                                 THEN SubSeq(item, Len(f.name) + 2, Len(item)) ELSE item
<1>1. f.name \in Texts /\ "=" \notin Range(f.name) /\ f.default \in BOOLEAN
  BY DEF PropertyTags
<1>2. CASE HasKey(item)
  BY <1>1, <1>2, KeyMeans DEF MeantFor, Takes, HasKey
<1>3. CASE ~HasKey(item)
  <2>1. ~IsPrefix(f.name \o <<"=">>, item)
    <3> DEFINE name == f.name
               start == name \o <<"=">>
    <3> SUFFICES ASSUME IsPrefix(start, item) PROVE FALSE
      OBVIOUS
    <3>1. name \in Seq(Symbols) /\ Len(name) \in Nat /\ item \in Seq(Symbols)
      BY <1>1 DEF Texts
    <3> HIDE DEF name
    <3>2. start \in Texts /\ Len(start) = Len(name) + 1 /\ start[Len(name) + 1] = "="
      <4>1. <<"=">> \in Seq(Symbols) /\ Len(<<"=">>) = 1
        BY DEF Symbols
      <4> QED
        BY <3>1, <4>1, ConcatProperties DEF Texts
    <3> HIDE DEF start
    <3>3. Len(start) <= Len(item) /\ \A q \in 1 .. Len(start) : start[q] = item[q]
      BY <3>2, PrefixMeans
    <3>4. Len(name) + 1 \in DOMAIN item /\ item[Len(name) + 1] = "="
      BY <3>1, <3>2, <3>3
    <3> QED
      BY <3>4, <1>3 DEF HasKey, Range
  <2> QED
    BY <1>1, <1>3, <2>1 DEF MeantFor, Takes, ValueOf, HasKey
<1> QED
  BY <1>2, <1>3

LEMMA OneTakes ==
    ASSUME NEW item, NEW i \in DOMAIN Properties, NEW j \in DOMAIN Properties,
           Takes(Properties[i], item), Takes(Properties[j], item)
    PROVE  i = j
BY PropertiesAssumption DEF Takes

LEMMA FieldTypes ==
    /\ DOMAIN Properties = 1 .. Len(Properties) /\ Len(Properties) \in Nat
    /\ \A i \in DOMAIN Properties : Properties[i] \in PropertyTags
<1>1. Properties \in Seq(PropertyTags)
  BY PropertiesAssumption
<1> QED
  BY <1>1

Taker(item) == SelectInSeq(Properties, LAMBDA f : Takes(f, item))

LEMMA TakerFound ==
    ASSUME NEW item
    PROVE  /\ Taker(item) = 0 => \A i \in DOMAIN Properties : ~Takes(Properties[i], item)
           /\ Taker(item) # 0 => /\ Taker(item) \in DOMAIN Properties
                                 /\ Takes(Properties[Taker(item)], item)
<1> DEFINE I == {i \in 1 .. Len(Properties) : Takes(Properties[i], item)}
<1>1. DOMAIN Properties = 1 .. Len(Properties) /\ Len(Properties) \in Nat
  BY FieldTypes
<1>2. Taker(item) = IF I # {} THEN Min(I) ELSE 0
  BY DEF Taker, SelectInSeq
<1>3. I # {} => Min(I) \in I
  <2>1. I \subseteq Nat
    BY <1>1
  <2> HIDE DEF I
  <2> QED
    BY <2>1, LeastIsMin
<1>4. 0 \notin I
  BY <1>1
<1> QED
  BY <1>1, <1>2, <1>3, <1>4

-----------------------------------------------------------------------------
(* Property strings: what is written is read again.                        *)

ItemTexts == Parts(Symbols, ",")

LEMMA PartOfText ==
    ASSUME NEW E, NEW t \in Seq(E), NEW m \in Nat, m >= 1
    PROVE  SubSeq(t, m, Len(t)) \in Seq(E)
<1>1. Len(t) \in Nat /\ \A i \in m .. Len(t) : t[i] \in E
  OBVIOUS
<1> QED
  BY <1>1, SubSeqProperties

LEMMA AfterStart ==
    ASSUME NEW E, NEW s \in Seq(E), NEW t \in Seq(E)
    PROVE  SubSeq(s \o t, Len(s) + 1, Len(s \o t)) = t
<1>1. Len(s \o t) = Len(s) + Len(t) /\ Len(s) \in Nat /\ Len(t) \in Nat
  BY ConcatProperties
<1>2. CASE t = <<>>
  <2>1. Len(t) = 0
    BY <1>2, EmptySeq
  <2> QED
    BY <1>1, <1>2, <2>1, SubSeqEmpty
<1>3. CASE t # <<>>
  <2>1. Len(t) # 0
    BY <1>3, EmptySeq
  <2> DEFINE m == Len(s) + 1
             n == Len(s) + Len(t)
  <2>2. m \in Len(s) + 1 .. Len(s) + Len(t) /\ n \in Len(s) + 1 .. Len(s) + Len(t)
    BY <1>1, <2>1
  <2>3. m - Len(s) = 1 /\ n - Len(s) = Len(t)
    BY <1>1
  <2> HIDE DEF m, n
  <2>4. SubSeq(s \o t, m, n) = SubSeq(t, m - Len(s), n - Len(s))
    BY <2>2, SubSeqOfConcat2
  <2>5. SubSeq(t, 1, Len(t)) = t
    BY SubSeqFull
  <2> QED
    BY <1>1, <2>3, <2>4, <2>5 DEF m, n
<1> QED
  BY <1>2, <1>3

LEMMA CommaIsNoDigit == "," \in Symbols /\ ";" \in Symbols \ {","} /\ DigitSet \subseteq Symbols \ {","}
<1>1. DOMAIN Digits = 1 .. 10 /\ \A i \in 1 .. 10 : Digits[i] # ","
  BY DEF Digits
<1>2. ";" # ","
  OBVIOUS
<1> QED
  BY <1>1, <1>2, DigitValues DEF Symbols, DigitSet, Range

LEMMA ItemIsText == \A t \in ItemTexts : t \in Texts
BY SeqMonotonic DEF ItemTexts, Parts, Texts

LEMMA MaxIntType == MaxInt \in Nat
BY PropertiesAssumption

LEMMA ValuesDiffer ==
    ASSUME NEW kind \in Kinds, NEW v \in PropertyValues(kind)
    PROVE  v # Nil
<1>1. CASE kind = "string"
  <2>1. v \in Texts
    BY <1>1, ItemIsText DEF PropertyValues, ItemTexts, Parts
  <2>2. v \in Values(kind)
    BY <1>1, <2>1 DEF Values
  <2> QED
    BY <2>2, TextsAssumption
<1>2. CASE kind = "bool"
  <2>1. v \in Values(kind)
    BY <1>2 DEF Values, PropertyValues
  <2> QED
    BY <2>1, TextsAssumption
<1>3. CASE kind = "int"
  <2>1. v \in Values(kind)
    BY <1>3, MaxIntType DEF Values, PropertyValues
  <2> QED
    BY <2>1, TextsAssumption
<1>4. CASE kind = "list"
  <2> DEFINE P == Seq(Symbols \ {",", ";"})
  <2>1. v \in Seq(P)
    BY <1>4 DEF PropertyValues
  <2>2. P \subseteq Texts
    BY SeqMonotonic DEF Texts
  <2> HIDE DEF P
  <2>3. v \in Seq(Texts)
    BY <2>1, <2>2, SeqMonotonic
  <2>4. v \in Values(kind)
    BY <1>4, <2>3 DEF Values
  <2> QED
    BY <2>4, TextsAssumption
<1> QED
  BY <1>1, <1>2, <1>3, <1>4 DEF Kinds

LEMMA ListValues ==
    /\ Lists(Symbols \ {","}, ";") \subseteq PropertyValues("list")
    /\ \A v \in PropertyValues("list") : v = <<>> \/ v \in Lists(Symbols \ {","}, ";")
<1>1. (Symbols \ {","}) \ {";"} = Symbols \ {",", ";"}
  OBVIOUS
<1> QED
  BY <1>1 DEF Lists, Parts, PropertyValues

LEMMA ParsedType ==
    ASSUME NEW kind \in Kinds, NEW t \in ItemTexts, ParsesAs(kind, t)
    PROVE  ParseValue(kind, t) \in PropertyValues(kind)
<1>1. CASE kind = "string"
  BY <1>1 DEF ParseValue, PropertyValues, ItemTexts, Parts
<1>2. CASE kind = "bool"
  <2>1. (t \in Truths) \in BOOLEAN
    OBVIOUS
  <2> QED
    BY <1>2, <2>1 DEF ParseValue, PropertyValues
<1>3. CASE kind = "int"
  <2>1. Number(t) \in Nat /\ Number(t) <= MaxInt
    BY <1>3, NumberType, ItemIsText DEF ParsesAs
  <2>2. Number(t) \in 0 .. MaxInt
    BY <2>1, MaxIntType
  <2> QED
    BY <1>3, <2>2 DEF ParseValue, PropertyValues
<1>4. CASE kind = "list"
  <2> DEFINE E == Symbols \ {","}
  <2>1. t \in Seq(E)
    BY DEF ItemTexts, Parts
  <2> HIDE DEF E
  <2>2. SplitAt(t, ";") \in Lists(E, ";")
    BY <2>1, SplitType
  <2> QED
    BY <1>4, <2>2, ListValues DEF ParseValue, E
<1> QED
  BY <1>1, <1>2, <1>3, <1>4 DEF Kinds

(***************************************************************************)
(* The text of a value that is not empty is parsed as that value.          *)
(***************************************************************************)
LEMMA FormattedParses ==
    ASSUME NEW kind \in Kinds, NEW v \in PropertyValues(kind), kind = "list" => v # <<>>
    PROVE  LET t == FormatValue(kind, v)
           IN  t \in ItemTexts /\ ParsesAs(kind, t) /\ ParseValue(kind, t) = v
<1> DEFINE t == FormatValue(kind, v)
<1>1. CASE kind = "string"
  BY <1>1 DEF FormatValue, ParsesAs, ParseValue, PropertyValues, ItemTexts, Parts
<1>2. CASE kind = "bool"
  <2>1. \A n \in 0 .. 9 : <<Digits[n + 1]>> \in ItemTexts
    <3> DEFINE E == Symbols \ {","}
    <3>1. \A n \in 0 .. 9 : Digits[n + 1] \in E
      BY DigitValues, CommaIsNoDigit
    <3> HIDE DEF E
    <3>2. \A n \in 0 .. 9 : <<Digits[n + 1]>> \in Seq(E)
      BY <3>1
    <3> QED
      BY <3>2 DEF E, ItemTexts, Parts
  <2>2. Digits[0 + 1] = "0" /\ Digits[1 + 1] = "1"
    BY DEF Digits
  <2>3. <<"0">> \in ItemTexts /\ <<"1">> \in ItemTexts
    BY <2>1, <2>2
  <2>4. <<"1">> \in Truths /\ <<"0">> \notin Truths /\ <<"0">> \in Falses
    BY DEF Truths, Falses
  <2>5. CASE v = TRUE
    <3>1. t = <<"1">>
      BY <1>2, <2>5 DEF FormatValue
    <3> HIDE DEF t
    <3>2. ParsesAs(kind, t)
      BY <1>2, <2>4, <3>1 DEF ParsesAs
    <3>3. ParseValue(kind, t) = v
      <4>1. ParseValue(kind, t) = (t \in Truths)
        BY <1>2 DEF ParseValue
      <4>2. (t \in Truths) = TRUE
        BY <2>4, <3>1
      <4> QED
        BY <2>5, <4>1, <4>2
    <3> QED
      BY <2>3, <3>1, <3>2, <3>3 DEF t
  <2>6. CASE v = FALSE
    <3>1. t = <<"0">>
      BY <1>2, <2>6 DEF FormatValue
    <3> HIDE DEF t
    <3>2. ParsesAs(kind, t)
      BY <1>2, <2>4, <3>1 DEF ParsesAs
    <3>3. ParseValue(kind, t) = v
      <4>1. ParseValue(kind, t) = (t \in Truths)
        BY <1>2 DEF ParseValue
      <4>2. (t \in Truths) = FALSE
        BY <2>4, <3>1
      <4> QED
        BY <2>6, <4>1, <4>2
    <3> QED
      BY <2>3, <3>1, <3>2, <3>3 DEF t
  <2>7. v \in BOOLEAN
    BY <1>2 DEF PropertyValues
  <2> QED
    BY <2>5, <2>6, <2>7
<1>3. CASE kind = "int"
  <2>1. v \in Nat /\ v <= MaxInt /\ t = Decimal[v]
    BY <1>3, MaxIntType DEF PropertyValues, FormatValue
  <2>2. IsNumber(t) /\ Number(t) = v
    BY <2>1, NumberOfDecimal
  <2>3. t \in ItemTexts
    <3>1. t \in Seq(DigitSet)
      BY <2>1, DecimalMeans
    <3> HIDE DEF t
    <3> QED
      BY <3>1, CommaIsNoDigit, SeqMonotonic DEF ItemTexts, Parts
  <2> HIDE DEF t
  <2>4. ParsesAs(kind, t)
    BY <1>3, <2>1, <2>2 DEF ParsesAs
  <2>5. ParseValue(kind, t) = v
    BY <1>3, <2>2 DEF ParseValue
  <2> QED
    BY <2>3, <2>4, <2>5 DEF t
<1>4. CASE kind = "list"
  <2> DEFINE E == Symbols \ {","}
  <2>1. ";" \in E /\ t = JoinBy(v, ";") /\ v \in Lists(E, ";")
    BY <1>4, CommaIsNoDigit, ListValues DEF FormatValue
  <2> HIDE DEF t
  <2>2. t \in Seq(E) /\ SplitAt(t, ";") = v
    <3> HIDE DEF E
    <3> QED
      BY <2>1, SplitJoin
  <2>3. ParsesAs(kind, t)
    BY <1>4 DEF ParsesAs
  <2>4. ParseValue(kind, t) = v
    BY <1>4, <2>2 DEF ParseValue
  <2> QED
    BY <2>2, <2>3, <2>4 DEF ItemTexts, Parts, t
<1> QED
  BY <1>1, <1>2, <1>3, <1>4 DEF Kinds

(***************************************************************************)
(* A field that can be written is the one that takes its item, and gets    *)
(* its value back.                                                         *)
(***************************************************************************)
LEMMA ItemType ==
    ASSUME NEW f \in PropertyTags, NEW v \in PropertyValues(f.kind), Written(f, v)
    PROVE  /\ Item(f, v) \in ItemTexts
           /\ FormatValue(f.kind, v) \in ItemTexts /\ ParsesAs(f.kind, FormatValue(f.kind, v))
           /\ ParseValue(f.kind, FormatValue(f.kind, v)) = v
<1> DEFINE E == Symbols \ {","}
           name == f.name
           t == FormatValue(f.kind, v)
<1>1. f.kind \in Kinds /\ name \in Texts /\ "," \notin Range(name) /\ f.default \in BOOLEAN
  BY DEF PropertyTags
<1>2. f.kind = "list" => v # <<>>
  BY DEF Written, Empty
<1>3. t \in ItemTexts /\ ParsesAs(f.kind, t) /\ ParseValue(f.kind, t) = v
  BY <1>1, <1>2, FormattedParses
<1> HIDE DEF t
<1>4. name \in Seq(E)
  <2> HIDE DEF name
  <2> QED
    BY <1>1, PartWithout DEF Texts, Parts
<1> HIDE DEF name
<1>5. <<"=">> \in Seq(E)
  <2>1. "=" \in E
    BY DEF Symbols
  <2> HIDE DEF E
  <2> QED
    BY <2>1
<1>6. t \in Seq(E)
  BY <1>3 DEF ItemTexts, Parts
<1>7. (IF f.default THEN <<>> ELSE name \o <<"=">>) \o t \in Seq(E)
  <2> HIDE DEF E
  <2>1. <<>> \o t \in Seq(E)
    BY <1>6, ConcatEmptySeq
  <2>2. (name \o <<"=">>) \o t \in Seq(E)
    <3>1. name \o <<"=">> \in Seq(E)
      BY <1>4, <1>5, ConcatProperties
    <3> QED
      BY <1>6, <3>1, ConcatProperties
  <2> QED
    BY <2>1, <2>2
<1> QED
  BY <1>3, <1>7 DEF Item, t, name, ItemTexts, Parts

LEMMA JoinedText ==
    ASSUME NEW E, NEW s \in Seq(E), NEW t \in Seq(E)
    PROVE  /\ Len(s \o t) = Len(s) + Len(t) /\ Len(t) \in Nat
           /\ \A q \in 1 .. Len(s) : (s \o t)[q] = s[q]
<1>1. Len(s \o t) = Len(s) + Len(t) /\ Len(s) \in Nat /\ Len(t) \in Nat
  BY ConcatProperties
<1>2. ASSUME NEW q \in 1 .. Len(s) PROVE (s \o t)[q] = s[q]
  <2>1. q \in 1 .. Len(s) + Len(t) /\ q <= Len(s)
    BY <1>1
  <2> QED
    BY <1>1, <2>1, ConcatProperties
<1> QED
  BY <1>1, <1>2

LEMMA ItemTaken ==
    ASSUME NEW f \in PropertyTags, NEW v \in PropertyValues(f.kind), Written(f, v), v # Nil,
           ~Unwritable(f, v)
    PROVE  /\ Item(f, v) # <<>> /\ Takes(f, Item(f, v))
           /\ ValueOf(Item(f, v)) = FormatValue(f.kind, v)
<1> DEFINE name == f.name
           t == FormatValue(f.kind, v)
           item == Item(f, v)
<1>1. /\ name \in Texts /\ name \in Seq(Symbols) /\ "=" \notin Range(name)
      /\ Len(name) \in Nat /\ f.default \in BOOLEAN
  <2>1. name \in Texts /\ "=" \notin Range(name) /\ f.default \in BOOLEAN
    BY DEF PropertyTags
  <2> HIDE DEF name
  <2> QED
    BY <2>1 DEF Texts
<1>2. item \in Texts /\ item \in Seq(Symbols) /\ t \in Seq(Symbols)
  <2>1. item \in Texts /\ t \in Texts
    BY ItemType, ItemIsText
  <2> HIDE DEF item, t
  <2> QED
    BY <2>1 DEF Texts
<1>3. CASE f.default
  <2>1. item = t
    <3>1. item = <<>> \o t
      BY <1>3 DEF Item
    <3> HIDE DEF t, item
    <3> QED
      BY <1>2, <3>1, ConcatEmptySeq
  <2>2. t # <<>> /\ "=" \notin Range(t)
    BY <1>3 DEF Unwritable
  <2> HIDE DEF t, item
  <2>3. ~HasKey(item)
    BY <2>1, <2>2 DEF HasKey
  <2>4. Takes(f, item) /\ ValueOf(item) = item
    BY <1>3, <2>3 DEF Takes, ValueOf
  <2> QED
    BY <2>1, <2>2, <2>4 DEF t, item
<1>4. CASE ~f.default
  <2> DEFINE start == name \o <<"=">>
  <2>1. item = start \o t
    BY <1>4 DEF Item
  <2>2. start \in Seq(Symbols) /\ Len(start) = Len(name) + 1 /\ start[Len(name) + 1] = "="
    <3>1. <<"=">> \in Seq(Symbols) /\ Len(<<"=">>) = 1 /\ <<"=">>[1] = "="
      BY DEF Symbols
    <3> HIDE DEF name
    <3> QED
      BY <1>1, <3>1, ConcatProperties
  <2> HIDE DEF item, t, name, start
  <2>3. /\ Len(item) = Len(start) + Len(t) /\ Len(t) \in Nat
        /\ \A q \in 1 .. Len(start) : item[q] = start[q]
    <3>1. start \in Seq(Symbols) /\ t \in Seq(Symbols)
      BY <1>2, <2>2
    <3> QED
      BY <2>1, <3>1, JoinedText
  <2>4. IsPrefix(start, item)
    BY <1>2, <2>2, <2>3, PrefixMeans DEF Texts
  <2>5. HasKey(item)
    <3>1. Len(name) + 1 \in DOMAIN item /\ item[Len(name) + 1] = "="
      BY <1>1, <1>2, <2>2, <2>3
    <3> QED
      BY <3>1 DEF HasKey, Range
  <2>6. Key(item) = name /\ ValueOf(item) = SubSeq(item, Len(name) + 2, Len(item))
    BY <1>1, <1>2, <2>4, <2>5, KeyMeans DEF start
  <2>7. ValueOf(item) = t
    <3>1. SubSeq(start \o t, Len(start) + 1, Len(start \o t)) = t
      BY <1>2, <2>2, AfterStart
    <3>2. Len(start) + 1 = Len(name) + 2
      BY <1>1, <2>2
    <3> QED
      BY <2>1, <2>6, <3>1, <3>2
  <2>8. item # <<>>
    <3>1. Len(item) # 0
      BY <1>1, <2>2, <2>3
    <3> QED
      BY <3>1, EmptySeq
  <2>9. Takes(f, item)
    BY <2>5, <2>6 DEF Takes, name
  <2> QED
    BY <2>7, <2>8, <2>9 DEF item, t
<1> QED
  BY <1>1, <1>3, <1>4

(***************************************************************************)
(* Types of structs that are read into.                                    *)
(***************************************************************************)
AnyValue == {Nil} \cup UNION {PropertyValues(kind) : kind \in Kinds}
Typed(s) ==
    /\ s \in [DOMAIN Properties -> AnyValue]
    /\ \A i \in DOMAIN Properties :
          IF s[i] = Nil THEN Properties[i].pointer ELSE s[i] \in PropertyValues(Properties[i].kind)

LEMMA TypedFrom ==
    ASSUME NEW s, s = [i \in DOMAIN Properties |-> s[i]],
           \A i \in DOMAIN Properties :
              IF s[i] = Nil THEN Properties[i].pointer ELSE s[i] \in PropertyValues(Properties[i].kind)
    PROVE  Typed(s)
<1>1. ASSUME NEW i \in DOMAIN Properties PROVE s[i] \in AnyValue
  <2>1. Properties[i].kind \in Kinds
    BY FieldTypes DEF PropertyTags
  <2> QED
    BY <2>1 DEF AnyValue
<1> HIDE DEF AnyValue
<1>2. s \in [DOMAIN Properties -> AnyValue]
  BY <1>1
<1> QED
  BY <1>2 DEF Typed

LEMMA ZeroValue == \A kind \in Kinds : Zero[kind] \in PropertyValues(kind) /\ Zero[kind] # Nil
<1>1. \A kind \in Kinds : Zero[kind] \in PropertyValues(kind)
  <2>1. Zero["string"] = <<>> /\ Zero["bool"] = FALSE /\ Zero["int"] = 0 /\ Zero["list"] = <<>>
    BY DEF Zero
  <2>2. <<>> \in PropertyValues("string")
    BY DEF PropertyValues
  <2>3. FALSE \in PropertyValues("bool")
    BY DEF PropertyValues
  <2>4. 0 \in PropertyValues("int")
    BY MaxIntType DEF PropertyValues
  <2>5. <<>> \in PropertyValues("list")
    BY DEF PropertyValues
  <2> QED
    BY <2>1, <2>2, <2>3, <2>4, <2>5 DEF Kinds
<1> QED
  BY <1>1, ValuesDiffer

LEMMA ZeroTyped == Typed(ZeroStruct)
<1>1. ZeroStruct = [i \in DOMAIN Properties |-> ZeroStruct[i]]
  BY DEF ZeroStruct
<1>2. ASSUME NEW i \in DOMAIN Properties
      PROVE  IF ZeroStruct[i] = Nil THEN Properties[i].pointer
             ELSE ZeroStruct[i] \in PropertyValues(Properties[i].kind)
  <2> DEFINE f == Properties[i]
  <2>1. f.kind \in Kinds /\ f.pointer \in BOOLEAN
    BY FieldTypes DEF PropertyTags
  <2>2. ZeroStruct[i] = IF f.pointer THEN Nil ELSE Zero[f.kind]
    BY DEF ZeroStruct, ZeroOf
  <2> HIDE DEF f
  <2>3. Zero[f.kind] \in PropertyValues(f.kind) /\ Zero[f.kind] # Nil
    BY <2>1, ZeroValue
  <2>4. IF ZeroStruct[i] = Nil THEN f.pointer ELSE ZeroStruct[i] \in PropertyValues(f.kind)
    BY <2>1, <2>2, <2>3
  <2> QED
    BY <2>4 DEF f
<1> QED
  BY <1>1, <1>2, TypedFrom

LEMMA TypedWith ==
    ASSUME NEW s, Typed(s), NEW i \in DOMAIN Properties,
           NEW v \in PropertyValues(Properties[i].kind)
    PROVE  Typed([s EXCEPT ![i] = v])
<1> DEFINE u == [s EXCEPT ![i] = v]
<1>1. s \in [DOMAIN Properties -> AnyValue]
  BY DEF Typed
<1>2. u = [j \in DOMAIN Properties |-> u[j]]
  BY <1>1
<1>3. v # Nil
  <2>1. Properties[i].kind \in Kinds
    BY FieldTypes DEF PropertyTags
  <2> QED
    BY <2>1, ValuesDiffer
<1>4. u[i] = v /\ \A j \in DOMAIN Properties : j # i => u[j] = s[j]
  BY <1>1
<1> HIDE DEF u
<1>5. \A j \in DOMAIN Properties :
         IF u[j] = Nil THEN Properties[j].pointer ELSE u[j] \in PropertyValues(Properties[j].kind)
  BY <1>3, <1>4 DEF Typed
<1> QED
  BY <1>2, <1>5, TypedFrom DEF u

LEMMA ValueIsPart ==
    ASSUME NEW item \in ItemTexts
    PROVE  ValueOf(item) \in ItemTexts
<1>1. item \in Texts
  BY ItemIsText
<1>2. CASE HasKey(item)
  <2> DEFINE p == FirstEquals(item)
             P == Symbols \ {","}
  <2>1. p \in 1 .. Len(item) /\ ValueOf(item) = SubSeq(item, p + 1, Len(item))
    BY <1>1, <1>2, EqualsFound
  <2>2. item \in Seq(P)
    BY DEF ItemTexts, Parts
  <2> HIDE DEF p, P
  <2>3. p + 1 \in Nat /\ p + 1 >= 1
    BY <2>1, <2>2
  <2>4. SubSeq(item, p + 1, Len(item)) \in Seq(P)
    BY <2>2, <2>3, PartOfText
  <2> QED
    BY <2>1, <2>4 DEF ItemTexts, Parts, P
<1>3. CASE ~HasKey(item)
  BY <1>3 DEF ValueOf
<1> QED
  BY <1>2, <1>3

Results == [props : {s \in [DOMAIN Properties -> AnyValue] : Typed(s)}, bad : BOOLEAN]

LEMMA ReadItemType ==
    ASSUME NEW r \in Results, NEW item \in ItemTexts
    PROVE  ReadItem(r, item) \in Results
<1> DEFINE i == Taker(item)
           kind == Properties[i].kind
           v == ParseValue(kind, ValueOf(item))
           w == IF r.props[i] = Nil THEN Zero[kind] ELSE r.props[i]
<1>1. CASE r.bad \/ item = <<>> \/ i = 0
  BY <1>1 DEF ReadItem, Taker
<1>2. ASSUME ~(r.bad \/ item = <<>> \/ i = 0)
      PROVE  ReadItem(r, item) \in Results
  <2>1. i \in DOMAIN Properties /\ kind \in Kinds
    BY <1>2, TakerFound, FieldTypes DEF PropertyTags
  <2>2. r.props \in [DOMAIN Properties -> AnyValue] /\ Typed(r.props) /\ r.bad \in BOOLEAN
    BY DEF Results
  <2>3. ASSUME NEW u \in PropertyValues(kind), NEW b \in BOOLEAN
        PROVE  [props |-> [r.props EXCEPT ![i] = u], bad |-> b] \in Results
    <3> HIDE DEF i
    <3> DEFINE s == [r.props EXCEPT ![i] = u]
    <3>1. Typed(s)
      BY <2>1, <2>2, TypedWith
    <3> HIDE DEF s
    <3>2. s \in [DOMAIN Properties -> AnyValue]
      BY <3>1 DEF Typed
    <3> QED
      BY <3>1, <3>2 DEF Results, s
  <2>4. CASE ParsesAs(kind, ValueOf(item))
    <3>1. ReadItem(r, item) = [r EXCEPT !.props[i] = v]
      BY <1>2, <2>4 DEF ReadItem, Taker
    <3>2. v \in PropertyValues(kind)
      BY <2>1, <2>4, ValueIsPart, ParsedType
    <3> HIDE DEF v, kind, i
    <3>3. ReadItem(r, item) = [props |-> [r.props EXCEPT ![i] = v], bad |-> r.bad]
      BY <3>1 DEF Results
    <3> QED
      BY <2>2, <2>3, <3>2, <3>3
  <2>5. CASE ~ParsesAs(kind, ValueOf(item))
    <3>1. ReadItem(r, item) = [props |-> [r.props EXCEPT ![i] = w], bad |-> TRUE]
      BY <1>2, <2>2, <2>5 DEF ReadItem, Taker
    <3>2. w \in PropertyValues(kind)
      BY <2>1, <2>2, ZeroValue DEF Typed
    <3> HIDE DEF w, kind, i
    <3> QED
      BY <2>3, <3>1, <3>2
  <2> QED
    BY <2>4, <2>5
<1> QED
  BY <1>1, <1>2

(***************************************************************************)
(* Unmarshal's loop over items, and Marshal's over the fields.             *)
(***************************************************************************)
NextRead == [p \in Results \X ItemTexts |-> ReadItem(p[1], p[2])]
ReadItems(r, l) == FoldLeft(ReadItem, r, l)

LEMMA ReadSteps ==
    ASSUME NEW b \in Results, NEW t \in Seq(ItemTexts)
    PROVE  \E g : Through(Results, b, NextRead, t, g, ReadItems(b, t))
<1> DEFINE F == NextRead
           Body(iter, s) == ReadItem(iter[s \ {Max(s)}], t[Max(s)])
           Eq(iter) == iter = [s \in SUBSET DOMAIN t |-> IF s = {} THEN b ELSE Body(iter, s)]
           It == CHOOSE iter : Eq(iter)
<1>1. ReadItems(b, t) = It[DOMAIN t]
  BY DEF ReadItems, FoldLeft, MapThenFoldSet
<1>2. Len(t) \in Nat /\ DOMAIN t = 1 .. Len(t) /\ \A i \in 1 .. Len(t) : t[i] \in ItemTexts
  OBVIOUS
<1>3. F \in [Results \X ItemTexts -> Results]
  <2>1. \A p \in Results \X ItemTexts : ReadItem(p[1], p[2]) \in Results
    BY ReadItemType
  <2> QED
    BY <2>1 DEF NextRead
<1>4. \A r \in Results, item \in ItemTexts : F[<<r, item>>] = ReadItem(r, item)
  BY DEF NextRead
<1> HIDE DEF F
<1>5. \E iter : Eq(iter)
  <2>1. PICK iter \in [SUBSET DOMAIN t -> Results] : FoldsOver(b, F, t, Len(t), iter)
    BY <1>3, FoldExists
  <2>2. ASSUME NEW s \in SUBSET DOMAIN t, s # {}
        PROVE  F[<<iter[s \ {Max(s)}], t[Max(s)]>>] = Body(iter, s)
    <3>1. iter[s \ {Max(s)}] \in Results
      OBVIOUS
    <3>2. Max(s) \in DOMAIN t
      BY <1>2, <2>2, MaxOfPart
    <3> QED
      BY <3>1, <3>2, <1>2, <1>4
  <2>3. Eq(iter)
    BY <2>1, <2>2, <1>2 DEF FoldsOver
  <2> QED
    BY <2>3
<1>6. Eq(It)
  BY <1>5
<1> HIDE DEF It
<1>7. It[{}] = b
  BY <1>6
<1>8. ASSUME NEW n \in 1 .. Len(t), It[1 .. n - 1] \in Results
      PROVE  It[1 .. n] = F[<<It[1 .. n - 1], t[n]>>]
  <2> DEFINE s == 1 .. n
  <2>1. s \in SUBSET DOMAIN t /\ s # {} /\ Max(s) = n /\ s \ {n} = 1 .. n - 1
    BY <1>2, LastOfPart
  <2> HIDE DEF s
  <2>2. It[s] = ReadItem(It[s \ {Max(s)}], t[Max(s)])
    BY <1>6, <2>1
  <2>3. It[1 .. n] = ReadItem(It[1 .. n - 1], t[n])
    BY <2>1, <2>2 DEF s
  <2> QED
    BY <2>3, <1>8, <1>2, <1>4
<1>9. PICK g : Through(Results, b, F, t, g, It[DOMAIN t])
  <2>1. Steps(Results, b, F, t, It)
    BY <1>7, <1>8 DEF Steps
  <2> QED
    BY <2>1, <1>3, FoldSteps
<1> QED
  BY <1>1, <1>9 DEF It, F

LEMMA ReadNone ==
    ASSUME NEW r \in Results
    PROVE  ReadItems(r, <<>>) = r
<1>1. <<>> \in Seq(ItemTexts)
  OBVIOUS
<1>2. PICK g : Through(Results, r, NextRead, <<>>, g, ReadItems(r, <<>>))
  BY <1>1, ReadSteps
<1> QED
  BY <1>2, FoldEmpty

LEMMA ReadOneMore ==
    ASSUME NEW r \in Results, NEW l \in Seq(ItemTexts), NEW item \in ItemTexts
    PROVE  ReadItems(r, Append(l, item)) = ReadItem(ReadItems(r, l), item)
<1>1. Append(l, item) \in Seq(ItemTexts)
  BY AppendProperties
<1>2. PICK g : Through(Results, r, NextRead, l, g, ReadItems(r, l))
  BY ReadSteps
<1>3. PICK h : Through(Results, r, NextRead, Append(l, item), h, ReadItems(r, Append(l, item)))
  BY <1>1, ReadSteps
<1>4. /\ ReadItems(r, l) \in Results
      /\ ReadItems(r, Append(l, item)) = NextRead[<<ReadItems(r, l), item>>]
  BY <1>2, <1>3, FoldAppend
<1> QED
  BY <1>4 DEF NextRead

Indexes == [i \in DOMAIN Properties |-> i]
NextWrite(s) == [p \in Seq(ItemTexts) \X DOMAIN Properties |-> WriteField(s, p[1], p[2])]
MarshalItems(s) ==
    LET Write(items, i) == WriteField(s, items, i)
    IN  FoldLeft(Write, <<>>, Indexes)

LEMMA WriteType ==
    ASSUME NEW s, Typed(s), NEW l \in Seq(ItemTexts), NEW i \in DOMAIN Properties
    PROVE  WriteField(s, l, i) \in Seq(ItemTexts)
<1> DEFINE f == Properties[i]
<1>1. f \in PropertyTags
  BY FieldTypes
<1>2. CASE Written(f, s[i])
  <2>1. s[i] # Nil
    BY <1>2 DEF Written
  <2>2. s[i] \in PropertyValues(f.kind)
    BY <2>1 DEF Typed
  <2> HIDE DEF f
  <2>3. Item(f, s[i]) \in ItemTexts
    BY <1>1, <1>2, <2>2, ItemType
  <2> QED
    BY <1>2, <2>3, AppendProperties DEF WriteField, f
<1> QED
  BY <1>2 DEF WriteField

LEMMA WriteSteps ==
    ASSUME NEW s, Typed(s)
    PROVE  \E g : Through(Seq(ItemTexts), <<>>, NextWrite(s), Indexes, g, MarshalItems(s))
<1> DEFINE A == Seq(ItemTexts)
           E == DOMAIN Properties
           b == <<>>
           t == Indexes
           F == NextWrite(s)
           Body(iter, d) == WriteField(s, iter[d \ {Max(d)}], t[Max(d)])
           Eq(iter) == iter = [d \in SUBSET DOMAIN t |-> IF d = {} THEN b ELSE Body(iter, d)]
           It == CHOOSE iter : Eq(iter)
<1>1. MarshalItems(s) = It[DOMAIN t]
  BY DEF MarshalItems, FoldLeft, MapThenFoldSet
<1>2. /\ t \in Seq(E) /\ Len(t) \in Nat /\ DOMAIN t = 1 .. Len(t)
      /\ \A i \in 1 .. Len(t) : t[i] \in E
  <2>1. E = 1 .. Len(Properties) /\ Len(Properties) \in Nat
    BY FieldTypes
  <2>2. t \in [1 .. Len(Properties) -> E]
    BY <2>1 DEF Indexes
  <2> HIDE DEF t, E
  <2>3. t \in Seq(E) /\ Len(t) = Len(Properties)
    BY <2>1, <2>2
  <2> QED
    BY <2>3
<1>3. F \in [A \X E -> A] /\ b \in A
  <2>1. \A p \in A \X E : WriteField(s, p[1], p[2]) \in A
    BY WriteType
  <2> QED
    BY <2>1 DEF NextWrite
<1>4. \A l \in A, i \in E : F[<<l, i>>] = WriteField(s, l, i)
  BY DEF NextWrite
<1> HIDE DEF F, A, E, b, t
<1>5. \E iter : Eq(iter)
  <2>1. PICK iter \in [SUBSET DOMAIN t -> A] : FoldsOver(b, F, t, Len(t), iter)
    BY <1>2, <1>3, FoldExists
  <2>2. ASSUME NEW d \in SUBSET DOMAIN t, d # {}
        PROVE  F[<<iter[d \ {Max(d)}], t[Max(d)]>>] = Body(iter, d)
    <3>1. iter[d \ {Max(d)}] \in A
      OBVIOUS
    <3>2. Max(d) \in DOMAIN t
      BY <1>2, <2>2, MaxOfPart
    <3> QED
      BY <3>1, <3>2, <1>2, <1>4
  <2>3. Eq(iter)
    BY <2>1, <2>2, <1>2 DEF FoldsOver
  <2> QED
    BY <2>3
<1>6. Eq(It)
  BY <1>5
<1> HIDE DEF It
<1>7. It[{}] = b
  BY <1>6
<1>8. ASSUME NEW n \in 1 .. Len(t), It[1 .. n - 1] \in A
      PROVE  It[1 .. n] = F[<<It[1 .. n - 1], t[n]>>]
  <2> DEFINE d == 1 .. n
  <2>1. d \in SUBSET DOMAIN t /\ d # {} /\ Max(d) = n /\ d \ {n} = 1 .. n - 1
    BY <1>2, LastOfPart
  <2> HIDE DEF d
  <2>2. It[d] = WriteField(s, It[d \ {Max(d)}], t[Max(d)])
    BY <1>6, <2>1
  <2>3. It[1 .. n] = WriteField(s, It[1 .. n - 1], t[n])
    BY <2>1, <2>2 DEF d
  <2> QED
    BY <2>3, <1>8, <1>2, <1>4
<1>9. PICK g : Through(A, b, F, t, g, It[DOMAIN t])
  <2>1. Steps(A, b, F, t, It)
    BY <1>7, <1>8 DEF Steps
  <2> QED
    BY <2>1, <1>2, <1>3, FoldSteps
<1> QED
  BY <1>1, <1>9 DEF It, F, A, b, t

(***************************************************************************)
(* A field whose value Marshal leaves out has the zero value; what it      *)
(* writes, the same field takes.                                           *)
(***************************************************************************)
LEMMA EqualsIsNoDigit == "=" \notin DigitSet
<1>1. DOMAIN Digits = 1 .. 10 /\ \A i \in 1 .. 10 : Digits[i] # "="
  BY DEF Digits
<1> QED
  BY <1>1 DEF DigitSet, Range

LEMMA NumberWritable ==
    ASSUME NEW t \in Seq(DigitSet), t # <<>>
    PROVE  ~(t = <<>> \/ "=" \in Range(t))
<1>1. \A i \in DOMAIN t : t[i] \in DigitSet
  OBVIOUS
<1> QED
  BY <1>1, EqualsIsNoDigit DEF Range

LEMMA ZeroWritable ==
    ASSUME NEW f \in PropertyTags, Written(f, ZeroOf(f))
    PROVE  ~Unwritable(f, ZeroOf(f))
<1> DEFINE v == ZeroOf(f)
           t == FormatValue(f.kind, v)
<1>1. f.kind \in Kinds /\ f.pointer \in BOOLEAN
  BY DEF PropertyTags
<1>2. v # Nil /\ ~Empty(f, v) /\ f.name \notin {<<>>, <<"-">>}
  BY DEF Written
<1>3. v = Zero[f.kind]
  BY <1>2 DEF ZeroOf
<1>4. Zero["string"] = <<>> /\ Zero["list"] = <<>> /\ Zero["bool"] = FALSE /\ Zero["int"] = 0
  BY DEF Zero
<1>5. f.kind \in {"bool", "int"}
  BY <1>1, <1>2, <1>3, <1>4 DEF Empty, Kinds
<1>6. t = Decimal[0] \/ t = <<Digits[0 + 1]>>
  <2>1. CASE f.kind = "int"
    BY <1>3, <1>4, <2>1 DEF FormatValue
  <2>2. CASE f.kind = "bool"
    <3>1. v = FALSE
      BY <1>3, <1>4, <2>2
    <3> HIDE DEF v
    <3>2. FormatValue("bool", v) = <<"0">>
      BY <3>1 DEF FormatValue
    <3>3. Digits[0 + 1] = "0"
      BY DEF Digits
    <3> QED
      BY <2>2, <3>2, <3>3
  <2> QED
    BY <1>5, <2>1, <2>2
<1>7. t \in Seq(DigitSet) /\ t # <<>>
  <2>1. Decimal[0] = <<Digits[0 + 1]>>
    BY DecimalMeans DEF Written10
  <2> DEFINE d == Digits[0 + 1]
  <2>2. d \in DigitSet /\ t = <<d>>
    BY <1>6, <2>1, DigitValues
  <2> HIDE DEF d, t
  <2>3. <<d>> \in Seq(DigitSet) /\ <<d>> # <<>>
    BY <2>2
  <2> QED
    BY <2>2, <2>3
<1> HIDE DEF t
<1>8. ~(t = <<>> \/ "=" \in Range(t))
  BY <1>7, NumberWritable
<1> QED
  BY <1>2, <1>8 DEF Unwritable, t

Rereadable(s) ==
    \A i \in DOMAIN Properties : Unwritable(Properties[i], s[i]) => s[i] = ZeroStruct[i]

LEMMA LeftOutIsZero ==
    ASSUME NEW s, Typed(s), Rereadable(s), NEW i \in DOMAIN Properties,
           ~Written(Properties[i], s[i])
    PROVE  s[i] = ZeroStruct[i]
<1> DEFINE f == Properties[i]
           v == s[i]
<1>1. f.kind \in Kinds /\ f.pointer \in BOOLEAN
  BY FieldTypes DEF PropertyTags
<1>2. ZeroStruct[i] = ZeroOf(f)
  BY DEF ZeroStruct
<1>3. CASE Unwritable(f, v)
  BY <1>3 DEF Rereadable
<1>4. CASE ~Unwritable(f, v)
  <2>1. v = Nil \/ Empty(f, v)
    BY <1>4 DEF Written, Unwritable
  <2>2. CASE v = Nil
    <3>1. f.pointer
      BY <2>2 DEF Typed
    <3> QED
      BY <1>2, <2>2, <3>1 DEF ZeroOf
  <2>3. CASE Empty(f, v)
    <3>1. ~f.pointer
      BY <1>4, <2>3 DEF Unwritable
    <3>2. f.kind \in {"string", "list"} /\ v = <<>>
      BY <2>3 DEF Empty
    <3>3. Zero["string"] = <<>> /\ Zero["list"] = <<>>
      BY DEF Zero
    <3> QED
      BY <1>2, <3>1, <3>2, <3>3 DEF ZeroOf
  <2> QED
    BY <2>1, <2>2, <2>3
<1> QED
  BY <1>3, <1>4

Fresh(s) == [props |-> s, bad |-> FALSE]

LEMMA WrittenIsTaken ==
    ASSUME NEW s, Typed(s), Rereadable(s), NEW i \in DOMAIN Properties,
           Written(Properties[i], s[i]), NEW r \in Results, ~r.bad
    PROVE  /\ Item(Properties[i], s[i]) \in ItemTexts
           /\ ReadItem(r, Item(Properties[i], s[i])) = Fresh([r.props EXCEPT ![i] = s[i]])
<1> DEFINE f == Properties[i]
           v == s[i]
           item == Item(f, v)
<1>1. f \in PropertyTags
  BY FieldTypes
<1>2. v # Nil
  BY DEF Written
<1>3. v \in PropertyValues(f.kind)
  BY <1>2 DEF Typed
<1>4. ~Unwritable(f, v)
  <2> SUFFICES ASSUME Unwritable(f, v) PROVE FALSE
    OBVIOUS
  <2>1. v = ZeroOf(f)
    BY DEF Rereadable, ZeroStruct
  <2> QED
    BY <1>1, <2>1, ZeroWritable
<1> HIDE DEF f, v
<1>5. Written(f, v)
  BY DEF f, v
<1>6. /\ item \in ItemTexts /\ ParsesAs(f.kind, FormatValue(f.kind, v))
      /\ ParseValue(f.kind, FormatValue(f.kind, v)) = v
  BY <1>1, <1>3, <1>5, ItemType
<1>7. item # <<>> /\ Takes(f, item) /\ ValueOf(item) = FormatValue(f.kind, v)
  BY <1>1, <1>2, <1>3, <1>4, <1>5, ItemTaken
<1> HIDE DEF item
<1>8. Taker(item) = i
  <2>1. Takes(Properties[i], item)
    BY <1>7 DEF f
  <2>2. Taker(item) \in DOMAIN Properties /\ Takes(Properties[Taker(item)], item)
    BY <2>1, TakerFound
  <2> QED
    BY <2>1, <2>2, OneTakes
<1>9. i # 0
  BY FieldTypes
<1>10. ReadItem(r, item) = [r EXCEPT !.props[i] = v]
  BY <1>6, <1>7, <1>8, <1>9 DEF ReadItem, Taker, f
<1> DEFINE w == [r.props EXCEPT ![i] = v]
<1>11. [r EXCEPT !.props[i] = v] = [props |-> w, bad |-> r.bad]
  BY DEF Results
<1>12. r.bad = FALSE
  BY DEF Results
<1> HIDE DEF w
<1>13. ReadItem(r, item) = Fresh(w)
  BY <1>10, <1>11, <1>12 DEF Fresh
<1> QED
  BY <1>6, <1>13 DEF item, f, v, w

(***************************************************************************)
(* Reading what is written of the first fields fills those fields.         *)
(***************************************************************************)
FirstOf(s, k) == [i \in DOMAIN Properties |-> IF i <= k THEN s[i] ELSE ZeroStruct[i]]

LEMMA FirstTyped ==
    ASSUME NEW s, Typed(s), NEW k \in Nat
    PROVE  Typed(FirstOf(s, k)) /\ Fresh(FirstOf(s, k)) \in Results
<1> DEFINE u == FirstOf(s, k)
<1>1. u = [i \in DOMAIN Properties |-> u[i]]
  BY DEF FirstOf
<1>2. ASSUME NEW i \in DOMAIN Properties PROVE u[i] = s[i] \/ u[i] = ZeroStruct[i]
  BY DEF FirstOf
<1> HIDE DEF u
<1>3. ASSUME NEW i \in DOMAIN Properties
      PROVE  IF u[i] = Nil THEN Properties[i].pointer
             ELSE u[i] \in PropertyValues(Properties[i].kind)
  BY <1>2, ZeroTyped DEF Typed
<1>4. Typed(u)
  BY <1>1, <1>3, TypedFrom
<1>5. u \in [DOMAIN Properties -> AnyValue]
  BY <1>4 DEF Typed
<1> QED
  BY <1>4, <1>5 DEF Results, Fresh, u

LEMMA NextField ==
    ASSUME NEW s, Typed(s), Rereadable(s), NEW k \in Nat, k + 1 \in DOMAIN Properties,
           NEW l \in Seq(ItemTexts),
           ReadItems(Fresh(ZeroStruct), l) = Fresh(FirstOf(s, k))
    PROVE  ReadItems(Fresh(ZeroStruct), WriteField(s, l, k + 1)) = Fresh(FirstOf(s, k + 1))
<1> DEFINE i == k + 1
           u == FirstOf(s, k)
           w == FirstOf(s, k + 1)
           b == Fresh(ZeroStruct)
<1>1. /\ u \in [DOMAIN Properties -> AnyValue] /\ Fresh(u) \in Results
      /\ w = [j \in DOMAIN Properties |-> w[j]]
  BY FirstTyped DEF Typed, FirstOf
<1>2. /\ \A j \in DOMAIN Properties : j # i => w[j] = u[j]
      /\ w[i] = s[i] /\ u[i] = ZeroStruct[i]
  <2>1. \A j \in DOMAIN Properties : j \in Nat
    BY FieldTypes
  <2> QED
    BY <2>1 DEF FirstOf
<1>3. b \in Results
  <2>1. ZeroStruct \in [DOMAIN Properties -> AnyValue]
    BY ZeroTyped DEF Typed
  <2> QED
    BY <2>1, ZeroTyped DEF Results, Fresh
<1> HIDE DEF u, w, b
<1>4. CASE ~Written(Properties[i], s[i])
  <2>1. s[i] = ZeroStruct[i]
    BY <1>4, LeftOutIsZero
  <2>2. w = u
    BY <1>1, <1>2, <2>1
  <2>3. WriteField(s, l, i) = l
    BY <1>4 DEF WriteField
  <2> QED
    BY <2>2, <2>3 DEF u, w, b
<1>5. CASE Written(Properties[i], s[i])
  <2> DEFINE item == Item(Properties[i], s[i])
             r == Fresh(u)
  <2>1. ~r.bad
    BY DEF Fresh
  <2> HIDE DEF r
  <2>2. item \in ItemTexts /\ ReadItem(r, item) = Fresh([r.props EXCEPT ![i] = s[i]])
    <3>1. r \in Results
      BY <1>1 DEF r
    <3> HIDE DEF i
    <3>2. i \in DOMAIN Properties
      BY DEF i
    <3> QED
      BY <1>5, <2>1, <3>1, <3>2, WrittenIsTaken
  <2>3. WriteField(s, l, i) = Append(l, item)
    BY <1>5 DEF WriteField
  <2> HIDE DEF item
  <2>4. ReadItems(b, Append(l, item)) = ReadItem(r, item)
    BY <1>3, <2>2, ReadOneMore DEF r, u, b
  <2>5. [u EXCEPT ![i] = s[i]] = w
    BY <1>1, <1>2
  <2>6. r.props = u
    BY DEF r, Fresh
  <2> QED
    BY <2>2, <2>3, <2>4, <2>5, <2>6 DEF w, b
<1> QED
  BY <1>4, <1>5

LEMMA AllFieldsReread ==
    ASSUME NEW s, Typed(s), Rereadable(s)
    PROVE  /\ MarshalItems(s) \in Seq(ItemTexts)
           /\ ReadItems(Fresh(ZeroStruct), MarshalItems(s)) = Fresh(s)
<1> DEFINE b == Fresh(ZeroStruct)
           N == Len(Properties)
<1>1. /\ N \in Nat /\ DOMAIN Properties = 1 .. N
      /\ Len(Indexes) = N /\ \A k \in 1 .. N : Indexes[k] = k
  <2>1. N \in Nat /\ DOMAIN Properties = 1 .. N
    BY FieldTypes
  <2>2. Indexes \in [1 .. N -> 1 .. N] /\ \A k \in 1 .. N : Indexes[k] = k
    BY <2>1 DEF Indexes
  <2> HIDE DEF N
  <2>3. Len(Indexes) = N
    BY <2>1, <2>2
  <2> QED
    BY <2>1, <2>2, <2>3
<1> HIDE DEF N
<1>2. PICK g : Through(Seq(ItemTexts), <<>>, NextWrite(s), Indexes, g, MarshalItems(s))
  BY WriteSteps
<1>3. /\ g \in [0 .. N -> Seq(ItemTexts)] /\ g[0] = <<>> /\ g[N] = MarshalItems(s)
      /\ \A n \in 1 .. N : g[n] = NextWrite(s)[<<g[n - 1], n>>]
  BY <1>1, <1>2 DEF Through
<1> DEFINE S == {n \in Nat : n <= N => ReadItems(b, g[n]) = Fresh(FirstOf(s, n))}
<1>4. 0 \in S
  <2>1. ReadItems(b, <<>>) = b
    <3>1. ZeroStruct \in [DOMAIN Properties -> AnyValue]
      BY ZeroTyped DEF Typed
    <3>2. b \in Results
      BY <3>1, ZeroTyped DEF Results, Fresh
    <3> HIDE DEF b
    <3> QED
      BY <3>2, ReadNone
  <2>2. FirstOf(s, 0) = ZeroStruct
    <3>1. \A i \in DOMAIN Properties : ~(i <= 0)
      BY <1>1
    <3>2. ZeroStruct = [i \in DOMAIN Properties |-> ZeroStruct[i]]
      BY DEF ZeroStruct
    <3> QED
      BY <3>1, <3>2 DEF FirstOf
  <2> QED
    BY <1>3, <2>1, <2>2
<1>5. ASSUME NEW n \in Nat, n \in S PROVE n + 1 \in S
  <2> SUFFICES ASSUME n + 1 <= N
               PROVE  ReadItems(b, g[n + 1]) = Fresh(FirstOf(s, n + 1))
    OBVIOUS
  <2>1. n + 1 \in 1 .. N /\ n \in 0 .. N /\ (n + 1) - 1 = n /\ n <= N
    BY <1>1
  <2>2. g[n] \in Seq(ItemTexts) /\ ReadItems(b, g[n]) = Fresh(FirstOf(s, n))
    BY <1>3, <1>5, <2>1
  <2>3. g[n + 1] = NextWrite(s)[<<g[n], n + 1>>]
    BY <1>3, <2>1
  <2>4. g[n + 1] = WriteField(s, g[n], n + 1)
    <3>1. n + 1 \in DOMAIN Properties
      BY <1>1, <2>1
    <3> QED
      BY <2>2, <2>3, <3>1 DEF NextWrite
  <2> QED
    BY <1>1, <2>1, <2>2, <2>4, NextField
<1>6. ReadItems(b, g[N]) = Fresh(FirstOf(s, N))
  <2> HIDE DEF S
  <2>1. \A n \in Nat : n \in S
    BY <1>4, <1>5, SetInduction
  <2> QED
    BY <1>1, <2>1 DEF S
<1>7. FirstOf(s, N) = s
  <2>1. \A i \in DOMAIN Properties : i <= N
    BY <1>1
  <2>2. s = [i \in DOMAIN Properties |-> s[i]]
    BY DEF Typed
  <2> QED
    BY <2>1, <2>2 DEF FirstOf
<1> QED
  BY <1>1, <1>3, <1>6, <1>7

LEMMA MarshalIsReread ==
    ASSUME NEW s, Typed(s), Rereadable(s)
    PROVE  Unmarshal(Marshal(s), ZeroStruct) = Fresh(s)
<1> DEFINE l == MarshalItems(s)
           b == Fresh(ZeroStruct)
<1>1. l \in Seq(ItemTexts) /\ ReadItems(b, l) = Fresh(s)
  BY AllFieldsReread
<1>2. Marshal(s) = IF l = <<>> THEN <<>> ELSE Join(l)
  BY DEF Marshal, MarshalItems, Indexes
<1>3. Unmarshal(Marshal(s), ZeroStruct) = ReadItems(b, Split(Marshal(s)))
  BY DEF Unmarshal, ReadItems, Fresh
<1>4. b \in Results
  <2>1. ZeroStruct \in [DOMAIN Properties -> AnyValue]
    BY ZeroTyped DEF Typed
  <2> QED
    BY <2>1, ZeroTyped DEF Results, Fresh
<1> HIDE DEF l, b
<1>5. CASE l = <<>>
  <2>1. Split(Marshal(s)) = << <<>> >>
    BY <1>2, <1>5, SplitEmpty DEF Split
  <2>2. << <<>> >> = Append(<<>>, <<>>) /\ <<>> \in ItemTexts /\ <<>> \in Seq(ItemTexts)
    <3>1. << <<>> >> = Append(<<>>, <<>>)
      OBVIOUS
    <3>2. <<>> \in ItemTexts
      BY EmptyPart DEF ItemTexts
    <3>3. <<>> \in Seq(ItemTexts)
      OBVIOUS
    <3> QED
      BY <3>1, <3>2, <3>3
  <2>3. ReadItems(b, << <<>> >>) = ReadItem(ReadItems(b, <<>>), <<>>)
    BY <1>4, <2>2, ReadOneMore
  <2>4. ReadItem(b, <<>>) = b
    BY DEF ReadItem
  <2> QED
    BY <1>1, <1>3, <1>4, <1>5, <2>1, <2>3, <2>4, ReadNone
<1>6. CASE l # <<>>
  <2>1. l \in Lists(Symbols, ",")
    BY <1>1, <1>6 DEF Lists, ItemTexts
  <2>2. Split(Join(l)) = l
    BY <2>1, CommaIsNoDigit, SplitJoin DEF Split, Join
  <2> QED
    BY <1>1, <1>2, <1>3, <1>6, <2>2
<1> QED
  BY <1>5, <1>6

(***************************************************************************)
(* The struct keeps the types of its fields.                               *)
(***************************************************************************)
PropsInv == bad \in BOOLEAN /\ Typed(props)

LEMMA PropsStart == PInit => PropsInv
<1> SUFFICES ASSUME PInit PROVE PropsInv
  OBVIOUS
<1>1. props \in Givens \cup {ZeroStruct} /\ bad = FALSE
  BY DEF PInit
<1>2. ASSUME NEW s \in Givens PROVE Typed(s)
  <2>1. s = [i \in DOMAIN Properties |-> s[i]]
    BY PropertiesAssumption
  <2>2. DOMAIN s = DOMAIN Properties
    BY <2>1
  <2>3. \A i \in DOMAIN Properties :
           IF s[i] = Nil THEN Properties[i].pointer
           ELSE s[i] \in PropertyValues(Properties[i].kind)
    BY <2>2, PropertiesAssumption
  <2> QED
    BY <2>1, <2>3, TypedFrom
<1> QED
  BY <1>1, <1>2, ZeroTyped DEF PropsInv

LEMMA PropsGoOn == PropsInv /\ [PNext]_pVars => PropsInv'
<1> SUFFICES ASSUME PropsInv, [PNext]_pVars PROVE PropsInv'
  OBVIOUS
<1>1. CASE UNCHANGED <<string, given, props, bad>>
  BY <1>1 DEF PropsInv, Typed
<1>2. CASE Unmarshalling
  <2> DEFINE r0 == [props |-> props, bad |-> bad]
  <2>1. PICK item \in Items :
           props' = ReadItem(r0, item).props /\ bad' = ReadItem(r0, item).bad
    BY <1>2 DEF Unmarshalling
  <2>2. item \in ItemTexts
    <3>1. item \in Texts /\ "," \notin Range(item)
      BY PropertiesAssumption
    <3>2. Texts = Seq(Symbols)
      BY DEF Texts
    <3> QED
      BY <3>1, <3>2, PartWithout DEF ItemTexts
  <2>3. r0 \in Results
    <3>1. props \in [DOMAIN Properties -> AnyValue]
      BY DEF PropsInv, Typed
    <3> QED
      BY <3>1 DEF PropsInv, Results
  <2> HIDE DEF r0
  <2>4. ReadItem(r0, item) \in Results
    BY <2>2, <2>3, ReadItemType
  <2>5. Typed(props') /\ bad' \in BOOLEAN
    BY <2>1, <2>4 DEF Results
  <2> QED
    BY <2>5 DEF PropsInv, Typed
<1> QED
  BY <1>1, <1>2 DEF PNext, pVars

(***************************************************************************)
(* What Unmarshal has made of any string, Marshal writes so that a fresh   *)
(* struct reads the same, for structs with any fields.                     *)
(***************************************************************************)
THEOREM WrittenIsReread == PSpec => []Reread
<1>1. PropsInv => Reread
  <2> SUFFICES ASSUME PropsInv,
                      ~(\E i \in DOMAIN Properties :
                           Unwritable(Properties[i], props[i]) /\ props[i] # ZeroStruct[i])
               PROVE  Unmarshal(Marshal(props), ZeroStruct) = [props |-> props, bad |-> FALSE]
    BY DEF Reread
  <2>1. Typed(props) /\ Rereadable(props)
    BY DEF PropsInv, Rereadable
  <2> QED
    BY <2>1, MarshalIsReread DEF Fresh
<1> QED
  BY <1>1, PropsStart, PropsGoOn, PTL DEF PSpec

-----------------------------------------------------------------------------
(* Property strings: what Unmarshal makes of each field.                   *)

(***************************************************************************)
(* What ItemsInPlace says of one field f, with the value v that it had as  *)
(* g, when the items s have been read.                                     *)
(***************************************************************************)
Mine(f, s, b) == {n \in DOMAIN s : MeantFor(f, s[n]) /\ (n < Len(s) \/ ~b)}
Failed(f, s, b) == b /\ Len(s) \in DOMAIN s /\ MeantFor(f, s[Len(s)])
TextFor(f, item) ==
    IF "=" \in Range(item) THEN SubSeq(item, Len(f.name) + 2, Len(item)) ELSE item
InPlace(f, s, b, g, v) ==
    IF Mine(f, s, b) = {}
    THEN v = IF Failed(f, s, b) /\ g = Nil THEN Zero[f.kind] ELSE g
    ELSE /\ v # Nil
         /\ \E n \in Mine(f, s, b) : /\ \A m \in Mine(f, s, b) : m <= n
                                     /\ v = ParseValue(f.kind, TextFor(f, s[n]))

LEMMA MineAfter ==
    ASSUME NEW f, NEW s \in Seq(Texts), NEW item \in Texts, NEW b \in BOOLEAN,
           b \/ ~MeantFor(f, item)
    PROVE  /\ Mine(f, Append(s, item), b) = Mine(f, s, FALSE)
           /\ \A n \in Mine(f, s, FALSE) : Append(s, item)[n] = s[n]
           /\ Failed(f, Append(s, item), b) <=> MeantFor(f, item)
<1> DEFINE t == Append(s, item)
<1>1. /\ DOMAIN s = 1 .. Len(s) /\ Len(s) \in Nat
      /\ DOMAIN t = 1 .. Len(s) + 1 /\ Len(t) = Len(s) + 1
      /\ t[Len(s) + 1] = item /\ \A n \in DOMAIN s : t[n] = s[n]
  BY AppendProperties
<1> HIDE DEF t
<1>2. ASSUME NEW n PROVE n \in Mine(f, t, b) <=> n \in Mine(f, s, FALSE)
  <2>1. CASE n \in DOMAIN s
    <3>1. n \in DOMAIN t /\ n < Len(t) /\ t[n] = s[n]
      BY <1>1, <2>1
    <3> QED
      BY <2>1, <3>1 DEF Mine
  <2>2. CASE n = Len(s) + 1
    <3>1. n \notin DOMAIN s /\ ~(n < Len(t)) /\ t[n] = item
      BY <1>1, <2>2
    <3>2. n \in Mine(f, t, b) => ~b /\ MeantFor(f, item)
      BY <3>1 DEF Mine
    <3>3. n \notin Mine(f, s, FALSE)
      BY <3>1 DEF Mine
    <3> QED
      BY <3>2, <3>3
  <2>3. CASE n \notin DOMAIN t
    <3>1. n \notin DOMAIN s
      BY <1>1, <2>3
    <3> QED
      BY <2>3, <3>1 DEF Mine
  <2>4. n \in DOMAIN t => n \in DOMAIN s \/ n = Len(s) + 1
    BY <1>1
  <2> QED
    BY <2>1, <2>2, <2>3, <2>4
<1>3. Mine(f, t, b) = Mine(f, s, FALSE)
  BY <1>2
<1>4. \A n \in Mine(f, s, FALSE) : t[n] = s[n]
  BY <1>1 DEF Mine
<1>5. Failed(f, t, b) <=> MeantFor(f, item)
  BY <1>1 DEF Failed
<1> QED
  BY <1>3, <1>4, <1>5 DEF t

LEMMA InPlaceAfter ==
    ASSUME NEW f, NEW s \in Seq(Texts), NEW item \in Texts, NEW b \in BOOLEAN, NEW g, NEW v,
           InPlace(f, s, FALSE, g, v), ~MeantFor(f, item)
    PROVE  InPlace(f, Append(s, item), b, g, v)
<1>1. /\ Mine(f, Append(s, item), b) = Mine(f, s, FALSE)
      /\ \A n \in Mine(f, s, FALSE) : Append(s, item)[n] = s[n]
      /\ ~Failed(f, Append(s, item), b) /\ ~Failed(f, s, FALSE)
  BY MineAfter DEF Failed
<1> QED
  BY <1>1 DEF InPlace

LEMMA InPlaceFailed ==
    ASSUME NEW f, NEW s \in Seq(Texts), NEW item \in Texts, NEW g, NEW v,
           InPlace(f, s, FALSE, g, v), MeantFor(f, item)
    PROVE  InPlace(f, Append(s, item), TRUE, g, IF v = Nil THEN Zero[f.kind] ELSE v)
<1>1. ASSUME NEW b \in BOOLEAN, b
      PROVE  /\ Mine(f, Append(s, item), b) = Mine(f, s, FALSE)
             /\ \A n \in Mine(f, s, FALSE) : Append(s, item)[n] = s[n]
             /\ Failed(f, Append(s, item), b)
  BY <1>1, MineAfter
<1>2. ~Failed(f, s, FALSE)
  BY DEF Failed
<1> QED
  BY <1>1, <1>2 DEF InPlace

LEMMA InPlaceTaken ==
    ASSUME NEW f, NEW s \in Seq(Texts), NEW item \in Texts, NEW g, MeantFor(f, item),
           ParseValue(f.kind, TextFor(f, item)) # Nil
    PROVE  InPlace(f, Append(s, item), FALSE, g, ParseValue(f.kind, TextFor(f, item)))
<1> DEFINE t == Append(s, item)
<1>1. /\ Len(s) \in Nat /\ DOMAIN t = 1 .. Len(s) + 1 /\ t[Len(s) + 1] = item
  BY AppendProperties
<1> HIDE DEF t
<1>2. Len(s) + 1 \in Mine(f, t, FALSE)
  BY <1>1 DEF Mine
<1>3. \A m \in Mine(f, t, FALSE) : m <= Len(s) + 1
  BY <1>1 DEF Mine
<1> QED
  BY <1>1, <1>2, <1>3 DEF InPlace, t

StringInv ==
    /\ string \in Seq(Texts) /\ bad \in BOOLEAN
    /\ DOMAIN props = DOMAIN Properties
    /\ \A i \in DOMAIN Properties : InPlace(Properties[i], string, bad, given[i], props[i])

LEMMA StringStarts == PInit => StringInv
<1> SUFFICES ASSUME PInit PROVE StringInv
  OBVIOUS
<1>1. string = <<>> /\ props = given /\ bad = FALSE /\ given \in Givens \cup {ZeroStruct}
  BY DEF PInit
<1>2. DOMAIN given = DOMAIN Properties
  BY <1>1, PropertiesAssumption DEF ZeroStruct
<1>3. ASSUME NEW f PROVE Mine(f, string, bad) = {} /\ ~Failed(f, string, bad)
  BY <1>1 DEF Mine, Failed
<1>4. string \in Seq(Texts) /\ bad \in BOOLEAN /\ DOMAIN props = DOMAIN Properties
  <2>1. <<>> \in Seq(Texts)
    OBVIOUS
  <2> QED
    BY <1>1, <1>2, <2>1
<1>5. ASSUME NEW i \in DOMAIN Properties
      PROVE  InPlace(Properties[i], string, bad, given[i], props[i])
  BY <1>1, <1>3 DEF InPlace
<1> QED
  BY <1>4, <1>5 DEF StringInv

LEMMA StringGoesOn == StringInv /\ [PNext]_pVars => StringInv'
<1> SUFFICES ASSUME StringInv, [PNext]_pVars PROVE StringInv'
  OBVIOUS
<1>1. CASE UNCHANGED <<string, given, props, bad>>
  BY <1>1 DEF StringInv
<1>2. CASE Unmarshalling
  <2>1. PICK item \in Items :
           LET r == ReadItem([props |-> props, bad |-> bad], item)
           IN  string' = Append(string, item) /\ props' = r.props /\ bad' = r.bad
    BY <1>2 DEF Unmarshalling
  <2> DEFINE i == Taker(item)
             f == Properties[i]
             v == ParseValue(f.kind, ValueOf(item))
  <2>2. /\ item \in Texts /\ string \in Seq(Texts) /\ bad = FALSE /\ given' = given
        /\ DOMAIN props = DOMAIN Properties
        /\ \A j \in DOMAIN Properties :
              /\ Properties[j] \in PropertyTags
              /\ InPlace(Properties[j], string, FALSE, given[j], props[j])
    <3>1. item \in Texts
      BY PropertiesAssumption
    <3>2. bad = FALSE /\ given' = given
      BY <1>2 DEF StringInv, Unmarshalling
    <3> QED
      BY <3>1, <3>2, FieldTypes DEF StringInv
  <2>3. string' \in Seq(Texts) /\ string' = Append(string, item)
    BY <2>1, <2>2, AppendProperties
  <2>4. \A j \in DOMAIN Properties :
           MeantFor(Properties[j], item) <=> item # <<>> /\ i # 0 /\ j = i
    BY <2>2, TakesMeant, TakerFound, OneTakes
  <2>5. CASE item = <<>> \/ i = 0
    <3>1. props' = props /\ bad' = FALSE
      BY <2>1, <2>2, <2>5 DEF ReadItem, Taker
    <3> QED
      BY <2>2, <2>3, <2>4, <2>5, <3>1, InPlaceAfter DEF StringInv
  <2>6. ASSUME item # <<>>, i # 0, NEW u, NEW b \in BOOLEAN,
               bad' = b, props' = [props EXCEPT ![i] = u],
               InPlace(f, Append(string, item), b, given[i], u)
        PROVE  StringInv'
    <3>1. i \in DOMAIN Properties
      BY <2>6, TakerFound
    <3>2. DOMAIN props' = DOMAIN Properties /\ props'[i] = u
      BY <2>2, <2>6, <3>1
    <3>3. ASSUME NEW j \in DOMAIN Properties
          PROVE  InPlace(Properties[j], string', bad', given'[j], props'[j])
      <4>1. CASE j = i
        BY <2>2, <2>3, <2>6, <3>2, <4>1
      <4>2. CASE j # i
        <5>1. props'[j] = props[j] /\ ~MeantFor(Properties[j], item)
          BY <2>2, <2>4, <2>6, <4>2
        <5> QED
          BY <2>2, <2>3, <2>6, <5>1, InPlaceAfter
      <4> QED
        BY <4>1, <4>2
    <3> QED
      BY <2>3, <2>6, <3>2, <3>3 DEF StringInv
  <2>7. CASE item # <<>> /\ i # 0
    <3>1. i \in DOMAIN Properties /\ MeantFor(f, item) /\ f \in PropertyTags
      BY <2>2, <2>4, <2>7, TakerFound
    <3>2. CASE ParsesAs(f.kind, ValueOf(item))
      <4>1. props' = [props EXCEPT ![i] = v] /\ bad' = FALSE
        BY <2>1, <2>2, <2>7, <3>2 DEF ReadItem, Taker
      <4>2. ValueOf(item) = TextFor(f, item)
        BY <2>2, <3>1, TakesMeant DEF TextFor
      <4>3. v # Nil
        <5>1. f.kind \in Kinds
          BY <3>1 DEF PropertyTags
        <5>2. ValueOf(item) \in ItemTexts
          <6>1. item \in Seq(Symbols) /\ "," \notin Range(item)
            BY PropertiesAssumption DEF Texts
          <6>2. item \in ItemTexts
            BY <6>1, PartWithout DEF ItemTexts
          <6> QED
            BY <6>2, ValueIsPart
        <5> QED
          BY <3>2, <5>1, <5>2, ParsedType, ValuesDiffer
      <4>4. InPlace(f, Append(string, item), FALSE, given[i], v)
        BY <2>2, <3>1, <4>2, <4>3, InPlaceTaken
      <4> HIDE DEF f, v
      <4> QED
        BY <2>6, <2>7, <4>1, <4>4
    <3>3. CASE ~ParsesAs(f.kind, ValueOf(item))
      <4> DEFINE u == IF props[i] = Nil THEN Zero[f.kind] ELSE props[i]
      <4>1. props' = [props EXCEPT ![i] = u] /\ bad' = TRUE
        BY <2>1, <2>2, <2>7, <3>3 DEF ReadItem, Taker
      <4>2. InPlace(f, Append(string, item), TRUE, given[i], u)
        BY <2>2, <3>1, InPlaceFailed
      <4> HIDE DEF f, u
      <4> QED
        BY <2>6, <2>7, <4>1, <4>2
    <3> QED
      BY <3>2, <3>3
  <2> QED
    BY <2>5, <2>7
<1> QED
  BY <1>1, <1>2 DEF PNext, pVars

(***************************************************************************)
(* Unmarshal gives each item to the field it is meant for and to no other, *)
(* in strings with any items of any length, for structs with any fields;   *)
(* on an error too, but for the zero that it has put behind a nil pointer. *)
(***************************************************************************)
THEOREM ItemsFound == PSpec => []ItemsInPlace
<1>1. StringInv => ItemsInPlace
  <2> SUFFICES ASSUME StringInv, NEW i \in DOMAIN Properties
               PROVE  LET f == Properties[i]
                          mine == {n \in Meant(f) : n < Len(string) \/ ~bad}
                          text(n) == IF "=" \in Range(string[n])
                                     THEN SubSeq(string[n], Len(f.name) + 2, Len(string[n]))
                                     ELSE string[n]
                      IN  IF mine = {}
                          THEN props[i] = IF bad /\ Len(string) \in Meant(f) /\ given[i] = Nil
                                          THEN Zero[f.kind] ELSE given[i]
                          ELSE \E n \in mine : /\ \A m \in mine : m <= n
                                               /\ props[i] = ParseValue(f.kind, text(n))
    BY DEF ItemsInPlace
  <2>1. InPlace(Properties[i], string, bad, given[i], props[i])
    BY DEF StringInv
  <2> QED
    BY <2>1 DEF InPlace, Mine, Failed, Meant, MeantFor, TextFor
<1> QED
  BY <1>1, StringStarts, StringGoesOn, PTL DEF PSpec
=============================================================================
