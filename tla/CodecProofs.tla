----------------------------- MODULE CodecProofs -----------------------------
(***************************************************************************)
(* Theorems about Codec, for any fields, names, files and configs, and     *)
(* about the texts and numbers that PropertyString shares with it.         *)
(***************************************************************************)
EXTENDS PropertyString, FoldProofs, SequenceTheorems, NaturalsInduction, WellFoundedInduction, TLAPS

-----------------------------------------------------------------------------
(* Texts of digits.                                                        *)

DigitSet == Range(Digits)

LEMMA DigitValues ==
    /\ DigitSet \subseteq Symbols
    /\ \A n \in 0 .. 9 : Digits[n + 1] \in DigitSet /\ DigitValue(Digits[n + 1]) = n
    /\ \A d \in DigitSet : DigitValue(d) \in 0 .. 9 /\ Digits[DigitValue(d) + 1] = d
<1>1. \A i, j \in 1 .. 10 : Digits[i] = Digits[j] => i = j
  BY DEF Digits
<1>2. DOMAIN Digits = 1 .. 10
  BY DEF Digits
<1>3. ASSUME NEW n \in 0 .. 9
      PROVE  Digits[n + 1] \in DigitSet /\ DigitValue(Digits[n + 1]) = n
  <2>1. n + 1 \in 1 .. 10 /\ \A m \in 0 .. 9 : m + 1 \in 1 .. 10
    OBVIOUS
  <2>2. \A m \in 0 .. 9 : Digits[m + 1] = Digits[n + 1] => m = n
    BY <1>1, <2>1
  <2> QED
    BY <1>2, <2>1, <2>2 DEF DigitSet, Range, DigitValue
<1>4. ASSUME NEW d \in DigitSet
      PROVE  DigitValue(d) \in 0 .. 9 /\ Digits[DigitValue(d) + 1] = d
  <2>1. PICK i \in 1 .. 10 : Digits[i] = d
    BY <1>2 DEF DigitSet, Range
  <2>2. i - 1 \in 0 .. 9 /\ (i - 1) + 1 = i
    OBVIOUS
  <2> QED
    BY <1>3, <2>1, <2>2
<1> QED
  BY <1>2, <1>3, <1>4 DEF DigitSet, Range, Symbols

(***************************************************************************)
(* Number reads a text from left to right.                                 *)
(***************************************************************************)
NextDigit == [p \in Nat \X DigitSet |-> 10 * p[1] + DigitValue(p[2])]

LEMMA NumberSteps ==
    ASSUME NEW t \in Seq(DigitSet)
    PROVE  \E g : Through(Nat, 0, NextDigit, t, g, Number(t))
<1> DEFINE Body(iter, s) == 10 * iter[s \ {Max(s)}] + DigitValue(t[Max(s)])
           Eq(iter) == iter = [s \in SUBSET DOMAIN t |-> IF s = {} THEN 0 ELSE Body(iter, s)]
           It == CHOOSE iter : Eq(iter)
<1>1. Number(t) = It[DOMAIN t]
  BY DEF Number, FoldLeft, MapThenFoldSet
<1>2. Len(t) \in Nat /\ DOMAIN t = 1 .. Len(t) /\ \A i \in 1 .. Len(t) : t[i] \in DigitSet
  OBVIOUS
<1>3. NextDigit \in [Nat \X DigitSet -> Nat]
  <2>1. ASSUME NEW p \in Nat \X DigitSet PROVE 10 * p[1] + DigitValue(p[2]) \in Nat
    <3>1. p[1] \in Nat /\ p[2] \in DigitSet
      OBVIOUS
    <3>2. DigitValue(p[2]) \in 0 .. 9
      BY <3>1, DigitValues
    <3> QED
      BY <3>1, <3>2
  <2> QED
    BY <2>1 DEF NextDigit
<1>4. \E iter : Eq(iter)
  <2>1. PICK iter \in [SUBSET DOMAIN t -> Nat] : FoldsOver(0, NextDigit, t, Len(t), iter)
    BY <1>3, FoldExists
  <2>2. ASSUME NEW s \in SUBSET DOMAIN t, s # {}
        PROVE  NextDigit[<<iter[s \ {Max(s)}], t[Max(s)]>>] = Body(iter, s)
    <3>1. iter[s \ {Max(s)}] \in Nat
      OBVIOUS
    <3>2. Max(s) \in DOMAIN t
      BY <1>2, <2>2, MaxOfPart
    <3> QED
      BY <3>1, <3>2, <1>2 DEF NextDigit
  <2>3. Eq(iter)
    BY <2>1, <2>2, <1>2 DEF FoldsOver
  <2> QED
    BY <2>3
<1>5. Eq(It)
  BY <1>4
<1> HIDE DEF It
<1>6. It[{}] = 0
  BY <1>5
<1>7. ASSUME NEW n \in 1 .. Len(t), It[1 .. n - 1] \in Nat
      PROVE  It[1 .. n] = NextDigit[<<It[1 .. n - 1], t[n]>>]
  <2> DEFINE s == 1 .. n
  <2>1. s \in SUBSET DOMAIN t /\ s # {} /\ Max(s) = n /\ s \ {n} = 1 .. n - 1
    BY <1>2, LastOfPart
  <2> HIDE DEF s
  <2>2. It[s] = 10 * It[s \ {Max(s)}] + DigitValue(t[Max(s)])
    BY <1>5, <2>1
  <2>3. It[1 .. n] = 10 * It[1 .. n - 1] + DigitValue(t[n])
    BY <2>1, <2>2 DEF s
  <2> QED
    BY <2>3, <1>7, <1>2 DEF NextDigit
<1>8. PICK g : Through(Nat, 0, NextDigit, t, g, It[DOMAIN t])
  <2>1. Steps(Nat, 0, NextDigit, t, It)
    BY <1>6, <1>7 DEF Steps
  <2> QED
    BY <2>1, <1>3, FoldSteps
<1> QED
  BY <1>1, <1>8 DEF It
LEMMA NumberType ==
    ASSUME NEW t \in Texts, IsNumber(t)
    PROVE  t \in Seq(DigitSet) /\ Len(t) >= 1 /\ Number(t) \in Nat
<1>1. t \in Seq(DigitSet) /\ t # <<>>
  BY DEF IsNumber, Texts, DigitSet
<1>2. Len(t) \in Nat /\ Len(t) # 0
  BY <1>1
<1>3. PICK g : Through(Nat, 0, NextDigit, t, g, Number(t))
  BY <1>1, NumberSteps
<1>4. Number(t) \in Nat
  BY <1>2, <1>3 DEF Through
<1> QED
  BY <1>1, <1>2, <1>4

(***************************************************************************)
(* Decimal writes a number.                                                *)
(***************************************************************************)
Written10(d, n) ==
    IF n < 10 THEN <<Digits[n + 1]>> ELSE Append(d[n \div 10], Digits[(n % 10) + 1])
DecimalTo(n, d) ==
    d \in [0 .. n -> Seq(DigitSet)] /\ \A k \in 0 .. n : d[k] = Written10(d, k)

LEMMA LastDigit ==
    ASSUME NEW n \in Nat
    PROVE  /\ n % 10 \in 0 .. 9 /\ n \div 10 \in Nat
           /\ n >= 10 => n \div 10 < n /\ n \div 10 >= 1
           /\ n = 10 * (n \div 10) + (n % 10)
OBVIOUS

LEMMA WrittenType ==
    ASSUME NEW n \in Nat, NEW d, n >= 10 => d[n \div 10] \in Seq(DigitSet)
    PROVE  Written10(d, n) \in Seq(DigitSet)
<1>1. n < 10 => Digits[n + 1] \in DigitSet
  BY DigitValues
<1>2. Digits[(n % 10) + 1] \in DigitSet
  BY LastDigit, DigitValues
<1> QED
  BY <1>1, <1>2 DEF Written10

LEMMA DecimalExists == \A n \in Nat : \E d : DecimalTo(n, d)
<1> DEFINE S == {n \in Nat : \E d : DecimalTo(n, d)}
<1>1. 0 \in S
  <2> DEFINE d == [k \in 0 .. 0 |-> <<Digits[1]>>]
  <2>1. Digits[0 + 1] \in DigitSet
    BY DigitValues
  <2>2. DecimalTo(0, d)
    BY <2>1 DEF DecimalTo, Written10
  <2> QED
    BY <2>2
<1>2. ASSUME NEW n \in Nat, n \in S PROVE n + 1 \in S
  <2>1. PICK c : DecimalTo(n, c)
    BY <1>2
  <2> DEFINE d == [k \in 0 .. n + 1 |-> IF k <= n THEN c[k] ELSE Written10(c, n + 1)]
  <2>2. ASSUME NEW k \in 0 .. n + 1
        PROVE  /\ k >= 10 => k \div 10 \in 0 .. n /\ d[k \div 10] = c[k \div 10]
               /\ Written10(d, k) = Written10(c, k)
    <3>1. k >= 10 => k \div 10 \in 0 .. n
      BY LastDigit
    <3>2. k >= 10 => d[k \div 10] = c[k \div 10]
      BY <3>1
    <3> QED
      BY <3>1, <3>2 DEF Written10
  <2>3. ASSUME NEW k \in 0 .. n + 1
        PROVE  d[k] = Written10(d, k) /\ d[k] \in Seq(DigitSet)
    <3>1. CASE k <= n
      <4>1. k \in 0 .. n /\ d[k] = c[k]
        BY <3>1
      <4> HIDE DEF d
      <4> QED
        BY <4>1, <2>1, <2>2 DEF DecimalTo
    <3>2. CASE k = n + 1
      <4>1. d[k] = Written10(c, k)
        BY <3>2
      <4>2. k >= 10 => c[k \div 10] \in Seq(DigitSet)
        BY <2>1, <2>2 DEF DecimalTo
      <4>3. Written10(c, k) \in Seq(DigitSet)
        BY <4>2, WrittenType
      <4> HIDE DEF d
      <4> QED
        BY <4>1, <4>3, <2>2
    <3> QED
      BY <3>1, <3>2
  <2>4. DecimalTo(n + 1, d)
    <3>1. d = [k \in 0 .. n + 1 |-> d[k]]
      OBVIOUS
    <3> HIDE DEF d
    <3> QED
      BY <3>1, <2>3 DEF DecimalTo
  <2> QED
    BY <2>4
<1> HIDE DEF S
<1>3. \A n \in Nat : n \in S
  BY <1>1, <1>2, SetInduction
<1> QED
  BY <1>3 DEF S

LEMMA DecimalUnique ==
    ASSUME NEW m \in Nat, NEW n \in Nat, NEW c, NEW d, DecimalTo(m, c), DecimalTo(n, d)
    PROVE  \A k \in Nat : k <= m /\ k <= n => c[k] = d[k]
<1> DEFINE Off == {k \in Nat : k <= m /\ k <= n /\ c[k] # d[k]}
<1>1. ASSUME Off # {} PROVE FALSE
  <2>1. Off \subseteq Nat
    OBVIOUS
  <2> HIDE DEF Off
  <2>2. PICK k \in Off : \A j \in Off : k <= j
    BY <1>1, <2>1, LeastNumber
  <2>3. k \in Nat /\ k <= m /\ k <= n /\ c[k] # d[k]
    BY <2>2 DEF Off
  <2>4. k >= 10 => c[k \div 10] = d[k \div 10]
    <3> SUFFICES ASSUME k >= 10 PROVE c[k \div 10] = d[k \div 10]
      OBVIOUS
    <3>1. k \div 10 \in Nat /\ k \div 10 < k /\ k \div 10 <= m /\ k \div 10 <= n
      BY <2>3, LastDigit
    <3>2. k \div 10 \notin Off
      BY <2>2, <2>3, <3>1
    <3> QED
      BY <3>1, <3>2 DEF Off
  <2>5. Written10(c, k) = Written10(d, k)
    BY <2>3, <2>4 DEF Written10
  <2>6. k \in 0 .. m /\ k \in 0 .. n
    BY <2>3
  <2> QED
    BY <2>3, <2>5, <2>6 DEF DecimalTo
<1> QED
  BY <1>1

LEMMA DecimalMeans ==
    /\ Decimal \in [Nat -> Seq(DigitSet)]
    /\ \A n \in Nat : Decimal[n] = Written10(Decimal, n)
<1> DEFINE To(n) == CHOOSE d : DecimalTo(n, d)
           D == [n \in Nat |-> To(n)[n]]
<1>1. \A n \in Nat : DecimalTo(n, To(n))
  BY DecimalExists
<1> HIDE DEF To
<1>2. D \in [Nat -> Seq(DigitSet)]
  BY <1>1 DEF DecimalTo
<1>3. ASSUME NEW n \in Nat PROVE D[n] = Written10(D, n)
  <2>1. To(n)[n] = Written10(To(n), n)
    BY <1>1 DEF DecimalTo
  <2>2. n >= 10 => To(n)[n \div 10] = To(n \div 10)[n \div 10]
    <3> SUFFICES ASSUME n >= 10 PROVE To(n)[n \div 10] = To(n \div 10)[n \div 10]
      OBVIOUS
    <3>1. n \div 10 \in Nat /\ n \div 10 <= n
      BY LastDigit
    <3> QED
      BY <3>1, <1>1, DecimalUnique
  <2>3. n >= 10 => To(n)[n \div 10] = D[n \div 10]
    BY <2>2, LastDigit
  <2>4. Written10(To(n), n) = Written10(D, n)
    BY <2>3 DEF Written10
  <2> QED
    BY <2>1, <2>4
<1> HIDE DEF D
<1>4. D = [n \in Nat |-> IF n < 10 THEN <<Digits[n + 1]>>
                         ELSE Append(D[n \div 10], Digits[(n % 10) + 1])]
  BY <1>2, <1>3 DEF Written10
<1>5. Decimal = [n \in Nat |-> IF n < 10 THEN <<Digits[n + 1]>>
                               ELSE Append(Decimal[n \div 10], Digits[(n % 10) + 1])]
  BY <1>4 DEF Decimal
<1>6. \A n \in Nat : Decimal[n] = Written10(Decimal, n)
  BY <1>5 DEF Written10
<1> DEFINE Off == {n \in Nat : Decimal[n] # D[n]}
<1>7. ASSUME Off # {} PROVE FALSE
  <2>1. Off \subseteq Nat
    OBVIOUS
  <2> HIDE DEF Off
  <2>2. PICK n \in Off : \A j \in Off : n <= j
    BY <1>7, <2>1, LeastNumber
  <2>3. n \in Nat /\ Decimal[n] # D[n]
    BY <2>2 DEF Off
  <2>4. n >= 10 => Decimal[n \div 10] = D[n \div 10]
    <3> SUFFICES ASSUME n >= 10 PROVE Decimal[n \div 10] = D[n \div 10]
      OBVIOUS
    <3>1. n \div 10 \in Nat /\ n \div 10 < n
      BY <2>3, LastDigit
    <3>2. n \div 10 \notin Off
      BY <2>2, <2>3, <3>1
    <3> QED
      BY <3>1, <3>2 DEF Off
  <2>5. Written10(Decimal, n) = Written10(D, n)
    BY <2>3, <2>4 DEF Written10
  <2> QED
    BY <2>3, <2>5, <1>3, <1>6
<1>8. \A n \in Nat : Decimal[n] = D[n]
  BY <1>7
<1>9. Decimal = D
  BY <1>2, <1>5, <1>8
<1> QED
  BY <1>2, <1>6, <1>9

(***************************************************************************)
(* The number that Decimal writes is read again.                           *)
(***************************************************************************)
LEMMA NumberOfOne ==
    ASSUME NEW n \in 0 .. 9
    PROVE  Number(<<Digits[n + 1]>>) = n
<1> DEFINE d == Digits[n + 1]
           t == <<d>>
<1>1. d \in DigitSet /\ DigitValue(d) = n
  BY DigitValues
<1> HIDE DEF d
<1>2. t \in Seq(DigitSet) /\ Len(t) = 1 /\ t[1] = d
  BY <1>1
<1> HIDE DEF t
<1>3. PICK g : Through(Nat, 0, NextDigit, t, g, Number(t))
  BY <1>2, NumberSteps
<1>4. Number(t) = NextDigit[<<0, d>>]
  BY <1>2, <1>3 DEF Through
<1>5. NextDigit[<<0, d>>] = 10 * 0 + DigitValue(d)
  BY <1>1 DEF NextDigit
<1> QED
  BY <1>1, <1>4, <1>5 DEF t, d

LEMMA NumberAppend ==
    ASSUME NEW t \in Seq(DigitSet), NEW d \in DigitSet
    PROVE  Number(t) \in Nat /\ Number(Append(t, d)) = 10 * Number(t) + DigitValue(d)
<1>1. Append(t, d) \in Seq(DigitSet)
  BY AppendProperties
<1>2. PICK g : Through(Nat, 0, NextDigit, t, g, Number(t))
  BY NumberSteps
<1>3. PICK h : Through(Nat, 0, NextDigit, Append(t, d), h, Number(Append(t, d)))
  BY <1>1, NumberSteps
<1>4. Number(t) \in Nat /\ Number(Append(t, d)) = NextDigit[<<Number(t), d>>]
  BY <1>2, <1>3, FoldAppend
<1> QED
  BY <1>4 DEF NextDigit

LEMMA NumberOfDecimal ==
    \A n \in Nat : /\ Decimal[n] \in Texts /\ IsNumber(Decimal[n])
                   /\ Number(Decimal[n]) = n
<1> DEFINE Off == {n \in Nat : Number(Decimal[n]) # n}
<1>1. ASSUME Off # {} PROVE FALSE
  <2>1. Off \subseteq Nat
    OBVIOUS
  <2> HIDE DEF Off
  <2>2. PICK n \in Off : \A j \in Off : n <= j
    BY <1>1, <2>1, LeastNumber
  <2>3. n \in Nat /\ Number(Decimal[n]) # n
    BY <2>2 DEF Off
  <2>4. Decimal[n] = Written10(Decimal, n)
    BY <2>3, DecimalMeans
  <2>5. CASE n < 10
    <3>1. n \in 0 .. 9 /\ Decimal[n] = <<Digits[n + 1]>>
      BY <2>3, <2>4, <2>5 DEF Written10
    <3> QED
      BY <2>3, <3>1, NumberOfOne
  <2>6. CASE n >= 10
    <3> DEFINE k == n \div 10
               m == n % 10
    <3>1. k \in Nat /\ k < n /\ m \in 0 .. 9 /\ n = 10 * k + m
      BY <2>3, <2>6, LastDigit
    <3>2. Decimal[n] = Append(Decimal[k], Digits[m + 1])
      BY <2>3, <2>4, <2>6 DEF Written10
    <3> HIDE DEF k, m
    <3>3. k \notin Off
      BY <2>2, <2>3, <3>1
    <3>4. Number(Decimal[k]) = k /\ Decimal[k] \in Seq(DigitSet)
      BY <3>1, <3>3, DecimalMeans DEF Off
    <3>5. Digits[m + 1] \in DigitSet /\ DigitValue(Digits[m + 1]) = m
      BY <3>1, DigitValues
    <3> QED
      BY <2>3, <3>1, <3>2, <3>4, <3>5, NumberAppend
  <2> QED
    BY <2>3, <2>5, <2>6
<1>2. ASSUME NEW n \in Nat PROVE Decimal[n] \in Texts /\ IsNumber(Decimal[n])
  <2>1. Decimal[n] \in Seq(DigitSet) /\ Decimal[n] = Written10(Decimal, n)
    BY DecimalMeans
  <2>2. Decimal[n] # <<>>
    <3>1. n >= 10 => /\ Decimal[n \div 10] \in Seq(DigitSet)
                     /\ Digits[(n % 10) + 1] \in DigitSet
      BY LastDigit, DigitValues, DecimalMeans
    <3>2. n >= 10 => Append(Decimal[n \div 10], Digits[(n % 10) + 1]) # <<>>
      BY <3>1, AppendProperties
    <3>3. <<Digits[n + 1]>> # <<>>
      OBVIOUS
    <3> QED
      BY <2>1, <3>2, <3>3 DEF Written10
  <2>3. Decimal[n] \in Texts
    BY <2>1, DigitValues, SeqMonotonic DEF Texts
  <2>4. \A i \in DOMAIN Decimal[n] : Decimal[n][i] \in DigitSet
    BY <2>1
  <2> QED
    BY <2>2, <2>3, <2>4 DEF IsNumber, DigitSet
<1> QED
  BY <1>1, <1>2

(***************************************************************************)
(* Powers of two, and what a float64 makes of an integer.                  *)
(***************************************************************************)
DoublesTo(n, d) ==
    d \in [0 .. n -> Nat] /\ d[0] = 1 /\ \A k \in 1 .. n : d[k] = 2 * d[k - 1]

LEMMA DoublesExist == \A n \in Nat : \E d : DoublesTo(n, d)
<1> DEFINE S == {n \in Nat : \E d : DoublesTo(n, d)}
<1>1. 0 \in S
  <2>1. DoublesTo(0, [k \in 0 .. 0 |-> 1])
    BY DEF DoublesTo
  <2> QED
    BY <2>1
<1>2. ASSUME NEW n \in Nat, n \in S PROVE n + 1 \in S
  <2>1. PICK c : DoublesTo(n, c)
    BY <1>2
  <2> DEFINE d == [k \in 0 .. n + 1 |-> IF k <= n THEN c[k] ELSE 2 * c[n]]
  <2>2. \A k \in 0 .. n : c[k] \in Nat
    BY <2>1 DEF DoublesTo
  <2>3. d \in [0 .. n + 1 -> Nat]
    BY <2>2
  <2>4. d[0] = 1
    BY <2>1 DEF DoublesTo
  <2>5. ASSUME NEW k \in 1 .. n + 1 PROVE d[k] = 2 * d[k - 1]
    <3>1. k - 1 \in 0 .. n /\ d[k - 1] = c[k - 1]
      OBVIOUS
    <3>2. CASE k <= n
      <4>1. k \in 1 .. n /\ d[k] = c[k]
        BY <3>2
      <4> QED
        BY <2>1, <3>1, <4>1 DEF DoublesTo
    <3>3. CASE k = n + 1
      <4>1. d[k] = 2 * c[n] /\ k - 1 = n
        BY <3>3
      <4> QED
        BY <3>1, <4>1
    <3> QED
      BY <3>2, <3>3
  <2> HIDE DEF d
  <2>6. DoublesTo(n + 1, d)
    BY <2>3, <2>4, <2>5 DEF DoublesTo
  <2> QED
    BY <2>6
<1> HIDE DEF S
<1>3. \A n \in Nat : n \in S
  BY <1>1, <1>2, SetInduction
<1> QED
  BY <1>3 DEF S

LEMMA DoublesUnique ==
    ASSUME NEW m \in Nat, NEW n \in Nat, m <= n, NEW c, NEW d, DoublesTo(m, c), DoublesTo(n, d)
    PROVE  c[m] = d[m]
<1> DEFINE S == {k \in Nat : k <= m => c[k] = d[k]}
<1>1. 0 \in S
  BY DEF DoublesTo
<1>2. ASSUME NEW k \in Nat, k \in S PROVE k + 1 \in S
  <2> SUFFICES ASSUME k + 1 <= m PROVE c[k + 1] = d[k + 1]
    OBVIOUS
  <2>1. k + 1 \in 1 .. m /\ k + 1 \in 1 .. n /\ (k + 1) - 1 = k /\ c[k] = d[k]
    BY <1>2
  <2> QED
    BY <2>1 DEF DoublesTo
<1> HIDE DEF S
<1>3. \A k \in Nat : k \in S
  BY <1>1, <1>2, SetInduction
<1> QED
  BY <1>3 DEF S

LEMMA TwoToMeans ==
    /\ TwoTo[0] = 1
    /\ \A n \in Nat : TwoTo[n] \in Nat /\ TwoTo[n] > n /\ TwoTo[n + 1] = 2 * TwoTo[n]
<1> DEFINE To(n) == CHOOSE d : DoublesTo(n, d)
           D == [n \in Nat |-> To(n)[n]]
<1>1. \A n \in Nat : DoublesTo(n, To(n))
  BY DoublesExist
<1> HIDE DEF To
<1>2. ASSUME NEW n \in Nat PROVE D[n] = IF n = 0 THEN 1 ELSE 2 * D[n - 1]
  <2>1. CASE n = 0
    BY <1>1, <2>1 DEF DoublesTo
  <2>2. CASE n # 0
    <3>1. n - 1 \in Nat /\ n - 1 <= n /\ n \in 1 .. n
      BY <2>2
    <3>2. To(n)[n] = 2 * To(n)[n - 1]
      BY <1>1, <3>1 DEF DoublesTo
    <3>3. To(n - 1)[n - 1] = To(n)[n - 1]
      BY <1>1, <3>1, DoublesUnique
    <3> QED
      BY <2>2, <3>1, <3>2, <3>3
  <2> QED
    BY <2>1, <2>2
<1>3. D = [n \in Nat |-> IF n = 0 THEN 1 ELSE 2 * D[n - 1]]
  BY <1>2
<1> HIDE DEF D
<1>4. TwoTo = [n \in Nat |-> IF n = 0 THEN 1 ELSE 2 * TwoTo[n - 1]]
  BY <1>3 DEF TwoTo
<1>5. TwoTo[0] = 1
  BY <1>4
<1>6. ASSUME NEW n \in Nat PROVE TwoTo[n + 1] = 2 * TwoTo[n]
  <2>1. n + 1 \in Nat /\ n + 1 # 0 /\ (n + 1) - 1 = n
    OBVIOUS
  <2> QED
    BY <1>4, <2>1
<1> DEFINE S == {n \in Nat : TwoTo[n] \in Nat /\ TwoTo[n] > n}
<1>7. 0 \in S
  BY <1>5
<1>8. ASSUME NEW n \in Nat, n \in S PROVE n + 1 \in S
  BY <1>6, <1>8
<1> HIDE DEF S
<1>9. \A n \in Nat : n \in S
  BY <1>7, <1>8, SetInduction
<1> QED
  BY <1>5, <1>6, <1>9 DEF S

LEMMA TwoToGrows == \A m \in Nat, k \in Nat : TwoTo[m] <= TwoTo[m + k]
<1> SUFFICES ASSUME NEW m \in Nat PROVE \A k \in Nat : TwoTo[m] <= TwoTo[m + k]
  OBVIOUS
<1> DEFINE S == {k \in Nat : TwoTo[m] <= TwoTo[m + k]}
<1>1. 0 \in S
  BY TwoToMeans
<1>2. ASSUME NEW k \in Nat, k \in S PROVE k + 1 \in S
  <2>1. m + k \in Nat /\ (m + k) + 1 = m + (k + 1)
    OBVIOUS
  <2>2. TwoTo[m] \in Nat /\ TwoTo[m + k] \in Nat /\ TwoTo[m + (k + 1)] = 2 * TwoTo[m + k]
    BY <2>1, TwoToMeans
  <2> QED
    BY <1>2, <2>2
<1> HIDE DEF S
<1>3. \A k \in Nat : k \in S
  BY <1>1, <1>2, SetInduction
<1> QED
  BY <1>3 DEF S

LEMMA ExcessMeans ==
    ASSUME NEW n \in Nat
    PROVE  /\ Excess(n) \in 0 .. n /\ n < TwoTo[Mantissa + Excess(n)]
           /\ Excess(n) = 0 \/ n >= TwoTo[Mantissa + Excess(n) - 1]
<1> DEFINE T == {k \in Nat : n < TwoTo[Mantissa + k]}
           Right(k) == n < TwoTo[Mantissa + k] /\ (k = 0 \/ n >= TwoTo[Mantissa + k - 1])
<1>1. Mantissa \in Nat
  BY CodecBounds
<1>2. n \in T
  <2>1. Mantissa + n \in Nat
    BY <1>1
  <2>2. TwoTo[Mantissa + n] \in Nat /\ TwoTo[Mantissa + n] > Mantissa + n
    BY <2>1, TwoToMeans
  <2> QED
    BY <1>1, <2>2
<1>3. PICK k \in T : \A j \in T : k <= j
  <2>1. T \subseteq Nat /\ T # {}
    BY <1>2
  <2> HIDE DEF T
  <2> QED
    BY <2>1, LeastNumber
<1>4. k \in 0 .. n
  BY <1>2, <1>3
<1>5. k = 0 \/ n >= TwoTo[Mantissa + k - 1]
  <2> SUFFICES ASSUME k # 0 PROVE n >= TwoTo[Mantissa + k - 1]
    OBVIOUS
  <2>1. k - 1 \in Nat /\ ~(k <= k - 1) /\ Mantissa + k - 1 \in Nat /\ Mantissa + (k - 1) = Mantissa + k - 1
    BY <1>1, <1>4
  <2>2. k - 1 \notin T
    BY <1>3, <2>1
  <2>3. TwoTo[Mantissa + k - 1] \in Nat
    BY <2>1, TwoToMeans
  <2> QED
    BY <2>1, <2>2, <2>3
<1>6. Right(k)
  BY <1>3, <1>5
<1> HIDE DEF Right
<1>7. Excess(n) = CHOOSE j \in 0 .. n : Right(j)
  BY DEF Excess, Right
<1>8. Excess(n) \in 0 .. n /\ Right(Excess(n))
  BY <1>4, <1>6, <1>7
<1> QED
  BY <1>8 DEF Right

LEMMA Halves ==
    ASSUME NEW n \in Nat, NEW u \in Nat, u > 0
    PROVE  n \div u \in Nat /\ n % u \in Nat
OBVIOUS

(***************************************************************************)
(* An integer of at most 2^Mantissa stays what it is.                      *)
(***************************************************************************)
LEMMA FloatMeans ==
    ASSUME NEW n \in Nat
    PROVE  Float(n) \in Nat /\ (n <= TwoTo[Mantissa] => Float(n) = n)
<1> DEFINE k == Excess(n)
           unit == TwoTo[k]
           low == n \div unit
           up == 2 * (n % unit) > unit \/ (2 * (n % unit) = unit /\ low % 2 = 1)
<1>1. Mantissa \in Nat /\ Mantissa >= 1 /\ Mantissa - 1 \in Nat
  BY CodecBounds
<1>2. /\ k \in Nat /\ n < TwoTo[Mantissa + k]
      /\ k = 0 \/ n >= TwoTo[Mantissa + k - 1]
  BY ExcessMeans
<1>3. Float(n) = unit * (IF up THEN low + 1 ELSE low)
  BY DEF Float
<1> HIDE DEF k
<1>4. unit \in Nat /\ unit > 0
  BY <1>2, TwoToMeans
<1>5. Float(n) \in Nat
  <2>1. low \in Nat
    BY <1>4, Halves
  <2> HIDE DEF up, low, unit
  <2>2. (IF up THEN low + 1 ELSE low) \in Nat
    BY <2>1
  <2>3. \A a, b \in Nat : a * b \in Nat
    OBVIOUS
  <2> QED
    BY <1>3, <1>4, <2>2, <2>3
<1>6. ASSUME n <= TwoTo[Mantissa] PROVE Float(n) = n
  <2>1. CASE k = 0
    <3>1. unit = 1
      BY <2>1, TwoToMeans
    <3>2. n % 1 = 0 /\ n \div 1 = n
      OBVIOUS
    <3> HIDE DEF unit
    <3>3. ~up /\ low = n
      BY <3>1, <3>2
    <3> QED
      BY <1>3, <3>1, <3>3
  <2>2. CASE k = 1
    <3>1. unit = 2
      <4>1. TwoTo[0 + 1] = 2 * TwoTo[0]
        BY TwoToMeans
      <4> QED
        BY <2>2, <4>1, TwoToMeans
    <3>2. Mantissa + k - 1 = Mantissa /\ (Mantissa - 1) + 1 = Mantissa
      BY <1>1, <2>2
    <3>3. n = TwoTo[Mantissa]
      <4>1. TwoTo[Mantissa] \in Nat
        BY <1>1, TwoToMeans
      <4> QED
        BY <1>2, <1>6, <2>2, <3>2, <4>1
    <3>4. PICK h \in Nat : n = 2 * h
      BY <1>1, <3>2, <3>3, TwoToMeans
    <3>5. n % 2 = 0 /\ n \div 2 = h
      BY <3>4
    <3> HIDE DEF unit
    <3>6. ~up /\ low = h
      BY <3>1, <3>5
    <3> QED
      BY <1>3, <3>1, <3>4, <3>6
  <2>3. CASE k > 1
    <3>1. k - 2 \in Nat /\ Mantissa + 1 \in Nat /\ (Mantissa + 1) + (k - 2) = Mantissa + k - 1
      BY <1>1, <1>2, <2>3
    <3>2. TwoTo[Mantissa + 1] <= TwoTo[Mantissa + k - 1]
      BY <3>1, TwoToGrows
    <3>3. /\ TwoTo[Mantissa] \in Nat /\ TwoTo[Mantissa] > 0
          /\ TwoTo[Mantissa + 1] = 2 * TwoTo[Mantissa]
      BY <1>1, TwoToMeans
    <3>4. Mantissa + k - 1 \in Nat
      BY <1>1, <1>2, <2>3
    <3>5. TwoTo[Mantissa + k - 1] \in Nat
      BY <3>4, TwoToMeans
    <3>6. n >= TwoTo[Mantissa + k - 1]
      BY <1>2, <2>3
    <3> QED
      BY <1>6, <3>2, <3>3, <3>5, <3>6
  <2> QED
    BY <1>2, <2>1, <2>2, <2>3
<1> QED
  BY <1>5, <1>6

-----------------------------------------------------------------------------
(* Texts that are split and joined.                                        *)

(***************************************************************************)
(* Lists of parts without a separator, to and from a text over E.          *)
(***************************************************************************)
Parts(E, sep) == Seq(E \ {sep})
Lists(E, sep) == {l \in Seq(Parts(E, sep)) : l # <<>>}

NextSplit(E, sep) ==
    [p \in Lists(E, sep) \X E |->
        IF p[2] = sep THEN Append(p[1], <<>>)
        ELSE [p[1] EXCEPT ![Len(p[1])] = Append(@, p[2])]]

LEMMA EmptyPart ==
    ASSUME NEW E, NEW sep
    PROVE  <<>> \in Parts(E, sep) /\ << <<>> >> \in Lists(E, sep)
<1>1. <<>> \in Parts(E, sep)
  BY DEF Parts
<1> QED
  BY <1>1 DEF Lists

LEMMA PartWithout ==
    ASSUME NEW E, NEW sep, NEW t \in Seq(E), sep \notin Range(t)
    PROVE  t \in Parts(E, sep)
<1> DEFINE D == E \ {sep}
<1>1. \A i \in DOMAIN t : t[i] \in D
  BY DEF Range
<1> HIDE DEF D
<1>2. t \in Seq(D)
  BY <1>1
<1> QED
  BY <1>2 DEF Parts, D

LEMMA SplitStepType ==
    ASSUME NEW E, NEW sep
    PROVE  NextSplit(E, sep) \in [Lists(E, sep) \X E -> Lists(E, sep)]
<1>1. ASSUME NEW p \in Lists(E, sep) \X E
      PROVE  (IF p[2] = sep THEN Append(p[1], <<>>)
              ELSE [p[1] EXCEPT ![Len(p[1])] = Append(@, p[2])]) \in Lists(E, sep)
  <2> DEFINE l == p[1]
  <2>1. l \in Seq(Parts(E, sep)) /\ l # <<>> /\ p[2] \in E
    BY DEF Lists
  <2>2. Len(l) \in 1 .. Len(l) /\ l[Len(l)] \in Parts(E, sep)
    BY <2>1
  <2> HIDE DEF l
  <2>3. CASE p[2] = sep
    <3>1. Append(l, <<>>) \in Seq(Parts(E, sep)) /\ Append(l, <<>>) # <<>>
      BY <2>1, EmptyPart, AppendProperties
    <3> QED
      BY <2>3, <3>1 DEF Lists, l
  <2>4. CASE p[2] # sep
    <3> DEFINE e == Append(l[Len(l)], p[2])
               m == [l EXCEPT ![Len(l)] = e]
    <3>1. e \in Parts(E, sep)
      BY <2>1, <2>2, <2>4, AppendProperties DEF Parts
    <3> HIDE DEF e
    <3>2. m \in Seq(Parts(E, sep)) /\ Len(m) = Len(l)
      BY <2>1, <2>2, <3>1, ExceptSeq
    <3>3. m # <<>>
      <4>1. Len(l) # 0 /\ Len(<<>>) = 0
        BY <2>2, EmptySeq
      <4> QED
        BY <3>2, <4>1
    <3> QED
      BY <2>4, <3>2, <3>3 DEF Lists, e, l
  <2> QED
    BY <2>3, <2>4
<1> QED
  BY <1>1 DEF NextSplit

LEMMA SplitSteps ==
    ASSUME NEW E, NEW sep, NEW t \in Seq(E)
    PROVE  \E g : Through(Lists(E, sep), << <<>> >>, NextSplit(E, sep), t, g, SplitAt(t, sep))
<1> DEFINE A == Lists(E, sep)
           F == NextSplit(E, sep)
           b == << <<>> >>
           Op(l, s) == IF s = sep THEN Append(l, <<>>) ELSE [l EXCEPT ![Len(l)] = Append(@, s)]
           Body(iter, s) == Op(iter[s \ {Max(s)}], t[Max(s)])
           Eq(iter) == iter = [s \in SUBSET DOMAIN t |-> IF s = {} THEN b ELSE Body(iter, s)]
           It == CHOOSE iter : Eq(iter)
<1>1. SplitAt(t, sep) = It[DOMAIN t]
  BY DEF SplitAt, FoldLeft, MapThenFoldSet
<1>2. /\ Len(t) \in Nat /\ DOMAIN t = 1 .. Len(t)
      /\ \A i \in 1 .. Len(t) : t[i] \in E
  OBVIOUS
<1>3. F \in [A \X E -> A] /\ b \in A
  BY SplitStepType, EmptyPart
<1>4. \A l \in A, s \in E : F[<<l, s>>] = Op(l, s)
  BY DEF NextSplit
<1> HIDE DEF A, F, b, Op
<1>5. \E iter : Eq(iter)
  <2>1. PICK iter \in [SUBSET DOMAIN t -> A] : FoldsOver(b, F, t, Len(t), iter)
    BY <1>2, <1>3, FoldExists
  <2>2. ASSUME NEW s \in SUBSET DOMAIN t, s # {}
        PROVE  F[<<iter[s \ {Max(s)}], t[Max(s)]>>] = Body(iter, s)
    <3>1. iter[s \ {Max(s)}] \in A
      OBVIOUS
    <3>2. Max(s) \in DOMAIN t
      BY <1>2, <2>2, MaxOfPart
    <3> QED
      BY <3>1, <3>2, <1>2, <1>4
  <2>3. Eq(iter)
    BY <2>1, <2>2, <1>2 DEF FoldsOver
  <2> QED
    BY <2>3
<1>6. Eq(It)
  BY <1>5
<1> HIDE DEF It
<1>7. It[{}] = b
  BY <1>6
<1>8. ASSUME NEW n \in 1 .. Len(t), It[1 .. n - 1] \in A
      PROVE  It[1 .. n] = F[<<It[1 .. n - 1], t[n]>>]
  <2> DEFINE s == 1 .. n
  <2>1. s \in SUBSET DOMAIN t /\ s # {} /\ Max(s) = n /\ s \ {n} = 1 .. n - 1
    BY <1>2, LastOfPart
  <2> HIDE DEF s
  <2>2. It[s] = Op(It[s \ {Max(s)}], t[Max(s)])
    BY <1>6, <2>1
  <2>3. It[1 .. n] = Op(It[1 .. n - 1], t[n])
    BY <2>1, <2>2 DEF s
  <2> QED
    BY <2>3, <1>8, <1>2, <1>4
<1>9. PICK g : Through(A, b, F, t, g, It[DOMAIN t])
  <2>1. Steps(A, b, F, t, It)
    BY <1>7, <1>8 DEF Steps
  <2> QED
    BY <2>1, <1>2, <1>3, FoldSteps
<1> QED
  BY <1>1, <1>9 DEF It, A, F, b

LEMMA SplitType ==
    ASSUME NEW E, NEW sep, NEW t \in Seq(E)
    PROVE  SplitAt(t, sep) \in Lists(E, sep)
<1>1. PICK g : Through(Lists(E, sep), << <<>> >>, NextSplit(E, sep), t, g, SplitAt(t, sep))
  BY SplitSteps
<1>2. Len(t) \in 0 .. Len(t)
  OBVIOUS
<1> QED
  BY <1>1, <1>2 DEF Through

LEMMA SplitEmpty == ASSUME NEW sep PROVE SplitAt(<<>>, sep) = << <<>> >>
<1> DEFINE E == {sep}
<1>1. <<>> \in Seq(E)
  OBVIOUS
<1> HIDE DEF E
<1>2. PICK g : Through(Lists(E, sep), << <<>> >>, NextSplit(E, sep), <<>>, g, SplitAt(<<>>, sep))
  BY <1>1, SplitSteps
<1> QED
  BY <1>2, FoldEmpty

LEMMA SplitAppend ==
    ASSUME NEW E, NEW sep, NEW t \in Seq(E), NEW s \in E
    PROVE  LET l == SplitAt(t, sep)
           IN  SplitAt(Append(t, s), sep) =
                  IF s = sep THEN Append(l, <<>>) ELSE [l EXCEPT ![Len(l)] = Append(@, s)]
<1> DEFINE l == SplitAt(t, sep)
<1>1. Append(t, s) \in Seq(E)
  BY AppendProperties
<1>2. PICK g : Through(Lists(E, sep), << <<>> >>, NextSplit(E, sep), t, g, l)
  BY SplitSteps
<1>3. PICK h : Through(Lists(E, sep), << <<>> >>, NextSplit(E, sep), Append(t, s), h,
                       SplitAt(Append(t, s), sep))
  BY <1>1, SplitSteps
<1>4. l \in Lists(E, sep) /\ SplitAt(Append(t, s), sep) = NextSplit(E, sep)[<<l, s>>]
  BY <1>1, <1>2, <1>3, FoldAppend
<1> HIDE DEF l
<1>5. NextSplit(E, sep)[<<l, s>>] =
         IF s = sep THEN Append(l, <<>>) ELSE [l EXCEPT ![Len(l)] = Append(@, s)]
  BY <1>4 DEF NextSplit
<1> QED
  BY <1>4, <1>5 DEF l

NextJoin(E, sep) == [p \in Seq(E) \X Seq(E) |-> p[1] \o <<sep>> \o p[2]]

LEMMA JoinStepType ==
    ASSUME NEW E, NEW sep \in E
    PROVE  NextJoin(E, sep) \in [Seq(E) \X Seq(E) -> Seq(E)]
<1>1. ASSUME NEW t \in Seq(E), NEW u \in Seq(E) PROVE t \o <<sep>> \o u \in Seq(E)
  <2>1. <<sep>> \in Seq(E)
    OBVIOUS
  <2>2. t \o <<sep>> \in Seq(E)
    BY <2>1, ConcatProperties
  <2> QED
    BY <2>2, ConcatProperties
<1> QED
  BY <1>1 DEF NextJoin

LEMMA JoinSteps ==
    ASSUME NEW E, NEW sep \in E, NEW l \in Seq(Seq(E)), l # <<>>
    PROVE  \E g : Through(Seq(E), Head(l), NextJoin(E, sep), Tail(l), g, JoinBy(l, sep))
<1> DEFINE b == Head(l)
           t == Tail(l)
           F == NextJoin(E, sep)
           Op(u, part) == u \o <<sep>> \o part
           Body(iter, s) == Op(iter[s \ {Max(s)}], t[Max(s)])
           Eq(iter) == iter = [s \in SUBSET DOMAIN t |-> IF s = {} THEN b ELSE Body(iter, s)]
           It == CHOOSE iter : Eq(iter)
<1>1. JoinBy(l, sep) = It[DOMAIN t]
  BY DEF JoinBy, FoldLeft, MapThenFoldSet
<1>2. b \in Seq(E) /\ t \in Seq(Seq(E))
  BY HeadTailProperties
<1>3. F \in [Seq(E) \X Seq(E) -> Seq(E)]
  BY JoinStepType
<1>4. \A u \in Seq(E), part \in Seq(E) : F[<<u, part>>] = Op(u, part)
  BY DEF NextJoin
<1> HIDE DEF F, b, t, Op
<1>5. Len(t) \in Nat /\ DOMAIN t = 1 .. Len(t) /\ \A i \in 1 .. Len(t) : t[i] \in Seq(E)
  BY <1>2
<1>6. \E iter : Eq(iter)
  <2>1. PICK iter \in [SUBSET DOMAIN t -> Seq(E)] : FoldsOver(b, F, t, Len(t), iter)
    BY <1>2, <1>3, FoldExists
  <2>2. ASSUME NEW s \in SUBSET DOMAIN t, s # {}
        PROVE  F[<<iter[s \ {Max(s)}], t[Max(s)]>>] = Body(iter, s)
    <3>1. iter[s \ {Max(s)}] \in Seq(E)
      OBVIOUS
    <3>2. Max(s) \in DOMAIN t
      BY <1>5, <2>2, MaxOfPart
    <3> QED
      BY <3>1, <3>2, <1>4, <1>5
  <2>3. Eq(iter)
    BY <2>1, <2>2, <1>5 DEF FoldsOver
  <2> QED
    BY <2>3
<1>7. Eq(It)
  BY <1>6
<1> HIDE DEF It
<1>8. It[{}] = b
  BY <1>7
<1>9. ASSUME NEW n \in 1 .. Len(t), It[1 .. n - 1] \in Seq(E)
      PROVE  It[1 .. n] = F[<<It[1 .. n - 1], t[n]>>]
  <2> DEFINE s == 1 .. n
  <2>1. s \in SUBSET DOMAIN t /\ s # {} /\ Max(s) = n /\ s \ {n} = 1 .. n - 1
    BY <1>5, LastOfPart
  <2> HIDE DEF s
  <2>2. It[s] = Op(It[s \ {Max(s)}], t[Max(s)])
    BY <1>7, <2>1
  <2>3. It[1 .. n] = Op(It[1 .. n - 1], t[n])
    BY <2>1, <2>2 DEF s
  <2> QED
    BY <2>3, <1>9, <1>4, <1>5
<1>10. PICK g : Through(Seq(E), b, F, t, g, It[DOMAIN t])
  <2>1. Steps(Seq(E), b, F, t, It)
    BY <1>8, <1>9 DEF Steps
  <2> QED
    BY <2>1, <1>2, <1>3, FoldSteps
<1> QED
  BY <1>1, <1>10 DEF It, F, b, t

LEMMA JoinType ==
    ASSUME NEW E, NEW sep \in E, NEW l \in Seq(Seq(E)), l # <<>>
    PROVE  JoinBy(l, sep) \in Seq(E)
<1>1. PICK g : Through(Seq(E), Head(l), NextJoin(E, sep), Tail(l), g, JoinBy(l, sep))
  BY JoinSteps
<1>2. Len(Tail(l)) \in Nat
  BY HeadTailProperties
<1> QED
  BY <1>1, <1>2 DEF Through

LEMMA JoinOne ==
    ASSUME NEW E, NEW sep \in E, NEW t \in Seq(E)
    PROVE  JoinBy(<<t>>, sep) = t
<1> DEFINE l == <<t>>
<1>1. l \in Seq(Seq(E)) /\ l # <<>> /\ Head(l) = t /\ Tail(l) = <<>>
  OBVIOUS
<1>2. PICK g : Through(Seq(E), Head(l), NextJoin(E, sep), Tail(l), g, JoinBy(l, sep))
  BY <1>1, JoinSteps
<1> HIDE DEF l
<1>3. JoinBy(l, sep) = t
  BY <1>1, <1>2, FoldEmpty
<1> QED
  BY <1>3 DEF l

LEMMA JoinAppend ==
    ASSUME NEW E, NEW sep \in E, NEW l \in Seq(Seq(E)), l # <<>>, NEW t \in Seq(E)
    PROVE  JoinBy(Append(l, t), sep) = JoinBy(l, sep) \o <<sep>> \o t
<1> DEFINE m == Append(l, t)
<1>1. m \in Seq(Seq(E)) /\ m # <<>> /\ Tail(l) \in Seq(Seq(E))
  BY AppendProperties, HeadTailProperties
<1>2. Head(m) = Head(l) /\ Tail(m) = Append(Tail(l), t)
  BY HeadTailAppend
<1> HIDE DEF m
<1>3. PICK g : Through(Seq(E), Head(l), NextJoin(E, sep), Tail(l), g, JoinBy(l, sep))
  BY JoinSteps
<1>4. PICK h : Through(Seq(E), Head(l), NextJoin(E, sep), Append(Tail(l), t), h, JoinBy(m, sep))
  BY <1>1, <1>2, JoinSteps
<1>5. JoinBy(l, sep) \in Seq(E) /\ JoinBy(m, sep) = NextJoin(E, sep)[<<JoinBy(l, sep), t>>]
  <2> DEFINE rest == Tail(l)
             b == Head(l)
             F == NextJoin(E, sep)
             q == JoinBy(l, sep)
             r == JoinBy(m, sep)
  <2>1. rest \in Seq(Seq(E)) /\ Through(Seq(E), b, F, rest, g, q)
    BY <1>1, <1>3
  <2>2. Through(Seq(E), b, F, Append(rest, t), h, r)
    BY <1>4
  <2> HIDE DEF rest, b, F, q, r
  <2>3. q \in Seq(E) /\ r = F[<<q, t>>]
    BY <2>1, <2>2, FoldAppend
  <2> QED
    BY <2>3 DEF q, r, F
<1>6. JoinBy(m, sep) = JoinBy(l, sep) \o <<sep>> \o t
  BY <1>5 DEF NextJoin
<1> QED
  BY <1>6 DEF m

(***************************************************************************)
(* A part that follows a text is added to its last part.                   *)
(***************************************************************************)
AddedTo(l, u) == [l EXCEPT ![Len(l)] = @ \o u]

LEMMA SplitConcat ==
    ASSUME NEW E, NEW sep, NEW t \in Seq(E), NEW u \in Parts(E, sep)
    PROVE  SplitAt(t \o u, sep) = AddedTo(SplitAt(t, sep), u)
<1> DEFINE D == E \ {sep}
           l == SplitAt(t, sep)
           S == {x \in Seq(D) : SplitAt(t \o x, sep) = AddedTo(l, x)}
<1>1. \A x \in Seq(D) : x \in Seq(E)
  BY SeqMonotonic
<1>2. l \in Seq(Seq(D)) /\ Len(l) \in 1 .. Len(l) /\ l[Len(l)] \in Seq(E)
  <2>1. l \in Seq(Seq(D)) /\ l # <<>>
    BY SplitType DEF Lists, Parts
  <2> HIDE DEF l, D
  <2>2. Len(l) \in 1 .. Len(l) /\ l[Len(l)] \in Seq(D)
    BY <2>1
  <2> QED
    BY <1>1, <2>1, <2>2
<1>3. u \in Seq(D)
  BY DEF Parts
<1> HIDE DEF l
<1>4. <<>> \in S
  <2>1. t \o <<>> = t /\ l[Len(l)] \o <<>> = l[Len(l)]
    BY <1>2, ConcatEmptySeq
  <2>2. AddedTo(l, <<>>) = l
    BY <1>2, <2>1 DEF AddedTo
  <2> QED
    BY <2>1, <2>2 DEF l
<1>5. ASSUME NEW x \in Seq(D), NEW e \in D, x \in S PROVE Append(x, e) \in S
  <2>1. x \in Seq(E) /\ e \in E /\ e # sep
    BY <1>1
  <2>2. t \o x \in Seq(E) /\ l[Len(l)] \o x \in Seq(E)
    BY <1>2, <2>1, ConcatProperties
  <2>3. \A v \in Seq(E) : v \o Append(x, e) = Append(v \o x, e)
    <3> TAKE v \in Seq(E)
    <3>1. <<e>> \in Seq(E) /\ v \o x \in Seq(E)
      BY <2>1, ConcatProperties
    <3>2. (v \o x) \o <<e>> = v \o (x \o <<e>>)
      BY <2>1, <3>1, ConcatAssociative
    <3>3. x \o <<e>> = Append(x, e) /\ (v \o x) \o <<e>> = Append(v \o x, e)
      BY <2>1, <3>1, AppendIsConcat
    <3> QED
      BY <3>2, <3>3
  <2> DEFINE m == AddedTo(l, x)
  <2>4. SplitAt(t \o x, sep) = m
    BY <1>5
  <2>5. Len(m) = Len(l) /\ m[Len(l)] = l[Len(l)] \o x
    BY <1>2 DEF AddedTo
  <2>6. SplitAt(t \o Append(x, e), sep) = [m EXCEPT ![Len(m)] = Append(@, e)]
    <3>1. SplitAt(Append(t \o x, e), sep) = [m EXCEPT ![Len(m)] = Append(@, e)]
      <4> DEFINE y == t \o x
      <4>1. y \in Seq(E) /\ SplitAt(y, sep) = m /\ e \in E /\ e # sep
        BY <2>1, <2>2, <2>4
      <4> HIDE DEF m, y, D, S
      <4>2. SplitAt(Append(y, e), sep) = [m EXCEPT ![Len(m)] = Append(@, e)]
        BY <4>1, SplitAppend
      <4> QED
        BY <4>2 DEF y
    <3> QED
      BY <2>3, <3>1
  <2>7. [m EXCEPT ![Len(m)] = Append(@, e)] = [l EXCEPT ![Len(l)] = Append(l[Len(l)] \o x, e)]
    BY <1>2, <2>5 DEF AddedTo
  <2>8. SplitAt(t \o Append(x, e), sep) = AddedTo(l, Append(x, e))
    BY <1>2, <2>3, <2>6, <2>7 DEF AddedTo
  <2>9. Append(x, e) \in Seq(D)
    BY AppendProperties
  <2> QED
    BY <2>8, <2>9
<1> HIDE DEF S, D
<1>6. \A x \in Seq(D) : x \in S
  BY <1>4, <1>5, TextInduction
<1> QED
  BY <1>3, <1>6 DEF S, l

(***************************************************************************)
(* Split gives back what Join has put together.                            *)
(***************************************************************************)
LEMMA AddedToNew ==
    ASSUME NEW P, <<>> \in P, NEW m \in Seq(P), NEW u \in P, <<>> \o u = u
    PROVE  AddedTo(Append(m, <<>>), u) = Append(m, u)
<1> DEFINE n == Append(m, <<>>)
           v == Append(m, u)
<1>1. /\ n \in Seq(P) /\ Len(n) = Len(m) + 1 /\ n[Len(m) + 1] = <<>>
      /\ \A i \in 1 .. Len(m) : n[i] = m[i]
  BY AppendProperties
<1>2. /\ v \in Seq(P) /\ Len(v) = Len(m) + 1 /\ v[Len(m) + 1] = u
      /\ \A i \in 1 .. Len(m) : v[i] = m[i]
  BY AppendProperties
<1>3. Len(m) \in Nat
  OBVIOUS
<1> HIDE DEF n, v
<1> DEFINE w == [n EXCEPT ![Len(n)] = u]
<1>4. /\ w \in Seq(P) /\ Len(w) = Len(n)
      /\ \A i \in 1 .. Len(n) : w[i] = IF i = Len(n) THEN u ELSE n[i]
  <2>1. Len(n) \in 1 .. Len(n)
    BY <1>1, <1>3
  <2> QED
    BY <1>1, <2>1, ExceptSeq
<1> HIDE DEF w
<1>5. \A i \in 1 .. Len(n) : w[i] = v[i]
  BY <1>1, <1>2, <1>3, <1>4
<1>6. w = v
  BY <1>1, <1>2, <1>4, <1>5, SeqEqual
<1>7. n[Len(n)] \o u = u
  BY <1>1
<1>8. AddedTo(n, u) = v
  BY <1>6, <1>7 DEF AddedTo, w
<1> QED
  BY <1>8 DEF n, v

LEMMA SplitJoin ==
    ASSUME NEW E, NEW sep \in E, NEW l \in Lists(E, sep)
    PROVE  JoinBy(l, sep) \in Seq(E) /\ SplitAt(JoinBy(l, sep), sep) = l
<1> DEFINE P == Parts(E, sep)
           S == {m \in Seq(P) : m # <<>> => SplitAt(JoinBy(m, sep), sep) = m}
<1>1. \A u \in P : u \in Seq(E) /\ <<>> \o u = u
  <2>1. \A u \in P : u \in Seq(E)
    BY SeqMonotonic DEF Parts
  <2> QED
    BY <2>1, ConcatEmptySeq
<1>2. \A m \in Seq(P) : m \in Seq(Seq(E))
  <2>1. P \subseteq Seq(E)
    BY <1>1
  <2> HIDE DEF P
  <2> QED
    BY <2>1, SeqMonotonic
<1>3. <<>> \in S
  OBVIOUS
<1>4. ASSUME NEW m \in Seq(P), NEW u \in P, m \in S PROVE Append(m, u) \in S
  <2>1. u \in Seq(E) /\ <<>> \o u = u /\ <<>> \in Seq(E) /\ <<>> \in P
    BY <1>1, EmptyPart
  <2>2. SplitAt(JoinBy(Append(m, u), sep), sep) = Append(m, u)
    <3>1. CASE m = <<>>
      <4>1. Append(m, u) = <<u>>
        BY <3>1
      <4>2. JoinBy(<<u>>, sep) = u
        BY <2>1, JoinOne
      <4>3. SplitAt(<<>> \o u, sep) = AddedTo(<< <<>> >>, u)
        <5>1. u \in Parts(E, sep)
          OBVIOUS
        <5> DEFINE t == <<>>
        <5>2. t \in Seq(E)
          OBVIOUS
        <5> HIDE DEF P, t
        <5>3. SplitAt(t \o u, sep) = AddedTo(SplitAt(t, sep), u)
          BY <5>1, <5>2, SplitConcat
        <5> QED
          BY <5>3, SplitEmpty DEF t
      <4>4. AddedTo(<< <<>> >>, u) = <<u>>
        BY <2>1 DEF AddedTo
      <4> QED
        BY <2>1, <4>1, <4>2, <4>3, <4>4
    <3>2. CASE m # <<>>
      <4> DEFINE j == JoinBy(m, sep)
      <4>1. m \in Seq(Seq(E))
        BY <1>2
      <4>2. j \in Seq(E) /\ SplitAt(j, sep) = m
        BY <1>4, <3>2, <4>1, JoinType
      <4>3. JoinBy(Append(m, u), sep) = j \o <<sep>> \o u
        BY <2>1, <3>2, <4>1, JoinAppend
      <4> HIDE DEF j
      <4>4. j \o <<sep>> = Append(j, sep) /\ Append(j, sep) \in Seq(E)
        BY <4>2, AppendIsConcat, AppendProperties
      <4>5. SplitAt(Append(j, sep), sep) = Append(m, <<>>)
        BY <4>2, SplitAppend
      <4>6. SplitAt(Append(j, sep) \o u, sep) = AddedTo(Append(m, <<>>), u)
        <5>1. u \in Parts(E, sep)
          OBVIOUS
        <5> DEFINE t == Append(j, sep)
        <5>2. t \in Seq(E)
          BY <4>4
        <5> HIDE DEF P, t
        <5>3. SplitAt(t \o u, sep) = AddedTo(SplitAt(t, sep), u)
          BY <5>1, <5>2, SplitConcat
        <5> QED
          BY <4>5, <5>3 DEF t
      <4>7. AddedTo(Append(m, <<>>), u) = Append(m, u)
        <5> HIDE DEF P
        <5> QED
          BY <2>1, AddedToNew
      <4> QED
        BY <4>3, <4>4, <4>6, <4>7
    <3> QED
      BY <3>1, <3>2
  <2>3. Append(m, u) \in Seq(P)
    BY AppendProperties
  <2> QED
    BY <2>2, <2>3
<1> HIDE DEF S
<1>5. \A m \in Seq(P) : m \in S
  <2> HIDE DEF P
  <2> QED
    BY <1>3, <1>4, TextInduction
<1>6. l \in Seq(P) /\ l # <<>>
  BY DEF Lists
<1> QED
  BY <1>2, <1>5, <1>6, JoinType DEF S

LEMMA PrefixMeans ==
    ASSUME NEW s \in Texts, NEW t \in Texts
    PROVE  IsPrefix(s, t) <=> Len(s) <= Len(t) /\ \A q \in 1 .. Len(s) : s[q] = t[q]
<1>1. s \in Seq(Symbols) /\ t \in Seq(Symbols) /\ Len(s) \in Nat /\ Len(t) \in Nat
  BY DEF Texts
<1> SUFFICES ASSUME Len(s) <= Len(t)
             PROVE  SubSeq(s, 1, Len(s)) = SubSeq(t, 1, Len(s)) <=> \A q \in 1 .. Len(s) : s[q] = t[q]
  BY DEF IsPrefix
<1> DEFINE u == SubSeq(s, 1, Len(s))
           v == SubSeq(t, 1, Len(s))
<1>2. /\ u \in Seq(Symbols) /\ Len(u) = Len(s)
      /\ \A q \in 1 .. Len(s) : u[q] = s[q]
  BY <1>1, SubSeqFull
<1>3. /\ v \in Seq(Symbols) /\ Len(v) = Len(s)
      /\ \A q \in 1 .. Len(s) : v[q] = t[q]
  <2>1. \A q \in 1 .. Len(s) : t[q] \in Symbols
    BY <1>1
  <2> QED
    BY <1>1, <2>1, SubSeqProperties
<1> HIDE DEF u, v
<1>4. u = v <=> \A q \in 1 .. Len(s) : u[q] = v[q]
  BY <1>2, <1>3, SeqEqual
<1> QED
  BY <1>2, <1>3, <1>4 DEF u, v

-----------------------------------------------------------------------------
(* Update: what it sets, and what it fails for.                            *)

LEMMA AskedAreTexts ==
    ASSUME desired \in Structs
    PROVE  AskedKeys \subseteq Texts
<1>1. \A f \in Fields : Name[f] \in Seq(Symbols)
  BY TextsAssumption DEF Texts
<1>2. ASSUME NEW f \in Families, NEW i \in DOMAIN desired[f]
      PROVE  Name[f] \o Decimal[i] \in Texts
  <2>1. i \in Nat
    BY TextsAssumption, CodecBounds
  <2>2. Decimal[i] \in Seq(Symbols)
    <3>1. Decimal[i] \in Seq(DigitSet)
      BY <2>1, DecimalMeans
    <3> QED
      BY <3>1, DigitValues, SeqMonotonic
  <2>3. f \in Fields
    BY DEF Fields
  <2> QED
    BY <1>1, <2>2, <2>3 DEF Texts
<1>3. ASSUME NEW key \in AskedKeys PROVE key \in Texts
  <2>1. CASE key \in {Name[f] : f \in {g \in Scalars : Asked(g)}}
    BY <1>1, <2>1 DEF Fields, Texts
  <2>2. CASE key \in UNION {{Name[f] \o Decimal[i] : i \in DOMAIN desired[f]} : f \in Families \ ReadOnly}
    <3>1. PICK f \in Families \ ReadOnly : key \in {Name[f] \o Decimal[i] : i \in DOMAIN desired[f]}
      BY <2>2
    <3> QED
      BY <3>1, <1>2
  <2> QED
    BY <2>1, <2>2 DEF AskedKeys
<1> QED
  BY <1>3

(***************************************************************************)
(* Encode sends what the caller asks for, and nothing else.                *)
(***************************************************************************)
LEMMA SentIsAsked == DOMAIN Encode(desired) \subseteq AskedKeys
<1>1. ASSUME NEW f \in Fields, NEW p \in Parameters(desired, f)
      PROVE  p[1] \in AskedKeys
  <2>1. f \notin ReadOnly
    BY DEF Parameters
  <2>2. CASE f \in Families
    <3>1. PICK i \in DOMAIN desired[f] : p = <<KeyOf(f, i), desired[f][i]>>
      BY <2>1, <2>2 DEF Parameters
    <3>2. p[1] = Name[f] \o Decimal[i]
      BY <3>1 DEF KeyOf
    <3>3. p[1] \in {Name[f] \o Decimal[j] : j \in DOMAIN desired[f]}
      BY <3>1, <3>2
    <3>4. p[1] \in UNION {{Name[g] \o Decimal[j] : j \in DOMAIN desired[g]} : g \in Families \ ReadOnly}
      BY <2>1, <2>2, <3>3
    <3> QED
      BY <3>4 DEF AskedKeys
  <2>3. CASE f \notin Families
    <3>1. /\ f \in Scalars /\ p[1] = Name[f] /\ desired[f] # Nil
          /\ Sent(Kind[f], f \in Pointers, desired[f])
      BY <2>1, <2>3 DEF Parameters, Fields
    <3>2. Asked(f)
      BY <2>1, <3>1 DEF Asked, Sent
    <3> QED
      BY <3>1, <3>2 DEF AskedKeys
  <2> QED
    BY <2>2, <2>3
<1> QED
  BY <1>1 DEF Encode

UpdateInv ==
    /\ desired \in Structs
    /\ DOMAIN options \subseteq Texts
    /\ pc = "set" => DOMAIN changed \subseteq AskedKeys
    /\ pc = "visit" => visiting \subseteq {e \in Families \X DOMAIN options : Claims(e[1], e[2])}
    /\ FailsForCause

LEMMA UpdateStarts == Init => UpdateInv
BY TextsAssumption DEF Init, UpdateInv, FailsForCause

LEMMA SuffixIsText ==
    ASSUME NEW f \in Fields, NEW key \in Texts
    PROVE  Suffix(f, key) \in Texts
<1>1. Name[f] \in Seq(Symbols) /\ key \in Seq(Symbols)
  BY TextsAssumption DEF Texts
<1>2. Len(Name[f]) \in Nat /\ Len(key) \in Nat
  BY <1>1
<1>3. \A i \in Len(Name[f]) + 1 .. Len(key) : key[i] \in Symbols
  BY <1>1, <1>2
<1> QED
  BY <1>2, <1>3, SubSeqProperties DEF Suffix, Texts

LEMMA UpdateGoesOn == UpdateInv /\ [Next]_vars => UpdateInv'
<1> SUFFICES ASSUME UpdateInv, [Next]_vars PROVE UpdateInv'
  OBVIOUS
<1> USE DEF UpdateInv
<1>1. desired' = desired
  BY DEF Next, Read, Fail, Compare, Set, Over, DecodeIndexed, vars
<1>2. AskedKeys' = AskedKeys
  BY <1>1 DEF AskedKeys, Asked
<1>3. CASE Read
  BY <1>1, <1>3 DEF Read, FailsForCause
<1>4. ASSUME NEW f \in Families, NEW key \in DOMAIN options, DecodeIndexed(f, key)
      PROVE  UpdateInv'
  BY <1>1, <1>4 DEF DecodeIndexed, FailsForCause
<1>5. CASE Fail
  <2>1. pc' = "failed" /\ options' = options
    BY <1>5 DEF Fail
  <2>2. FailsForCause'
    <3>1. CASE \E f \in Scalars : Name[f] \in DOMAIN options
                                  /\ ~Readable(Kind[f], options[Name[f]])
      BY <2>1, <3>1 DEF FailsForCause
    <3>2. CASE pc = "visit" /\ \E e \in visiting : ~Fits(e[1], e[2])
      <4>1. PICK e \in Families \X DOMAIN options : Claims(e[1], e[2]) /\ ~Fits(e[1], e[2])
        BY <3>2
      <4> DEFINE f == e[1]
                 key == e[2]
      <4>2. f \in Families /\ f \in Fields /\ key \in DOMAIN options /\ key \in Texts
        BY <4>1 DEF Fields
      <4>3. IsPrefix(Name[f], key) /\ IsNumber(Suffix(f, key))
        BY <4>1 DEF Claims
      <4>4. Number(Suffix(f, key)) \in Nat
        BY <4>2, <4>3, SuffixIsText, NumberType
      <4>5. Number(Suffix(f, key)) > MaxIndex
        BY <4>1, <4>3, <4>4, CodecBounds DEF Fits
      <4> QED
        BY <2>1, <4>2, <4>3, <4>5 DEF FailsForCause, Suffix
    <3> QED
      BY <1>5, <3>1, <3>2 DEF Fail
  <2> QED
    BY <1>1, <2>1, <2>2
<1>6. CASE Compare
  <2>1. DOMAIN changed' \subseteq DOMAIN Encode(desired)
    BY <1>6 DEF Compare, FilterChangedOptions
  <2> QED
    BY <1>1, <1>2, <1>6, <2>1, SentIsAsked DEF Compare, FailsForCause
<1>7. CASE Set
  <2>1. DOMAIN options' \subseteq DOMAIN options \cup AskedKeys
    BY <1>7 DEF Set, With
  <2> QED
    BY <1>1, <1>7, <2>1, AskedAreTexts DEF Set, FailsForCause
<1>8. CASE Over \/ UNCHANGED vars
  BY <1>1, <1>2, <1>8 DEF Over, vars, FailsForCause
<1> QED
  BY <1>3, <1>4, <1>5, <1>6, <1>7, <1>8 DEF Next

(***************************************************************************)
(* A behaviour in which property strings are read too is one of Codec.     *)
(***************************************************************************)
LEMMA ReadsBeside == PSpec => Spec
<1>1. PInit => Init
  BY DEF PInit
<1>2. [PNext]_pVars => [Next]_vars
  BY DEF PNext, Unmarshalling, pVars, vars
<1> QED
  BY <1>1, <1>2, PTL DEF PSpec, Spec

LEMMA UpdateInvariance == PSpec => []UpdateInv
BY UpdateStarts, UpdateGoesOn, ReadsBeside, PTL DEF Spec

(***************************************************************************)
(* An update fails only for a text or an index of a field's own (decode.go,*)
(* decodeIndexed): no field takes the keys of another whose name begins    *)
(* like its own.                                                           *)
(***************************************************************************)
THEOREM FailuresHaveCause == PSpec => []FailsForCause
BY UpdateInvariance, PTL DEF UpdateInv

(***************************************************************************)
(* An update touches no option that its caller does not ask for (encode.go,*)
(* encodeField): what is left out of a config stays as the file has it.    *)
(***************************************************************************)
THEOREM OthersLeftAlone == PSpec => LeftAlone
<1> DEFINE Kept == \A key \in DOMAIN options \cup DOMAIN options' :
                      key \in AskedKeys \/ (key \in DOMAIN options /\ options'[key] = options[key])
<1>1. UpdateInv /\ [Next]_vars => [Kept]_vars
  <2> SUFFICES ASSUME UpdateInv, Next PROVE Kept
    OBVIOUS
  <2>1. CASE Set
    <3>1. DOMAIN changed \subseteq AskedKeys /\ options' = With(options, changed)
      BY <2>1 DEF Set, UpdateInv
    <3> QED
      BY <3>1 DEF With
  <2>2. CASE options' = options
    BY <2>2
  <2> QED
    BY <2>1, <2>2 DEF Next, Read, Fail, Compare, Over, DecodeIndexed, vars
<1> QED
  BY <1>1, UpdateInvariance, ReadsBeside, PTL DEF Spec, LeftAlone

-----------------------------------------------------------------------------
(* What an update reads and writes.                                        *)

\* What decodeValue makes of texts.
ReadValues(kind) ==
    CASE kind = "string" -> Texts
      [] kind = "bool"   -> BOOLEAN
      [] kind = "int"    -> Nat
      [] kind = "list"   -> {<<>>} \cup Lists(Symbols, ",")

LEMMA ReadType ==
    ASSUME NEW kind \in Kinds, NEW t \in Texts, Readable(kind, t)
    PROVE  DecodeValue(kind, t) \in ReadValues(kind)
<1>1. CASE kind = "string"
  BY <1>1 DEF DecodeValue, ReadValues
<1>2. CASE kind = "bool"
  <2>1. (t \in True) \in BOOLEAN
    OBVIOUS
  <2> QED
    BY <1>2, <2>1 DEF DecodeValue, ReadValues
<1>3. CASE kind = "int"
  <2>1. Number(t) \in Nat
    BY <1>3, NumberType DEF Readable
  <2>2. Float(Number(t)) \in Nat
    BY <2>1, FloatMeans
  <2> QED
    BY <1>3, <2>2 DEF DecodeValue, ReadValues
<1>4. CASE kind = "list"
  <2>1. Split(t) \in Lists(Symbols, ",")
    BY SplitType DEF Split, Texts
  <2> QED
    BY <1>4, <2>1 DEF DecodeValue, ReadValues
<1> QED
  BY <1>1, <1>2, <1>3, <1>4 DEF Kinds

LEMMA ZeroType ==
    ASSUME NEW kind \in Kinds
    PROVE  Zero[kind] \in ReadValues(kind)
<1>1. <<>> \in Texts
  BY DEF Texts
<1>2. CASE kind = "string"
  BY <1>1, <1>2 DEF Zero, ReadValues
<1>3. CASE kind = "bool"
  BY <1>3 DEF Zero, ReadValues
<1>4. CASE kind = "int"
  BY <1>4 DEF Zero, ReadValues
<1>5. CASE kind = "list"
  BY <1>5 DEF Zero, ReadValues
<1> QED
  BY <1>2, <1>3, <1>4, <1>5 DEF Kinds

LEMMA EncodedType ==
    ASSUME NEW kind \in Kinds, NEW v \in Values(kind), kind = "list" => v # <<>>
    PROVE  EncodeValue(kind, v) \in Texts
<1>1. CASE kind = "string"
  BY <1>1 DEF EncodeValue, Values
<1>2. CASE kind = "bool"
  <2>1. Digits[0 + 1] \in Symbols /\ Digits[1 + 1] \in Symbols
    BY DigitValues
  <2>2. "0" \in Symbols /\ "1" \in Symbols
    BY <2>1 DEF Digits
  <2>3. <<"0">> \in Texts /\ <<"1">> \in Texts
    BY <2>2 DEF Texts
  <2> QED
    BY <1>2, <2>3 DEF EncodeValue
<1>3. CASE kind = "int"
  BY <1>3, NumberOfDecimal DEF EncodeValue, Values
<1>4. CASE kind = "list"
  <2>1. "," \in Symbols /\ v \in Seq(Texts) /\ v # <<>>
    BY <1>4 DEF Symbols, Values
  <2>2. Join(v) \in Texts
    BY <2>1, JoinType DEF Join, Texts
  <2> QED
    BY <1>4, <2>2 DEF EncodeValue
<1> QED
  BY <1>1, <1>2, <1>3, <1>4 DEF Kinds

(***************************************************************************)
(* A faithful value is read again as it was written, and no other value is *)
(* written like it.                                                        *)
(***************************************************************************)
FaithfulValue(kind, v) ==
    /\ kind = "int" => v <= TwoTo[Mantissa]
    /\ kind = "list" => v # <<>> /\
          \A i \in DOMAIN v : v[i] # <<>> /\ "," \notin Range(v[i])

LEMMA FaithfulList ==
    ASSUME NEW v \in Values("list"), FaithfulValue("list", v)
    PROVE  /\ v \in Lists(Symbols, ",") /\ Join(v) \in Texts /\ Split(Join(v)) = v
           /\ Join(v) # <<>>
<1>1. v \in Seq(Texts) /\ v # <<>> /\ \A i \in DOMAIN v : v[i] # <<>> /\ "," \notin Range(v[i])
  BY DEF FaithfulValue, Values
<1>2. v \in Lists(Symbols, ",")
  <2>1. v \in Seq(Texts)
    BY <1>1
  <2>2. DOMAIN v = 1 .. Len(v) /\ Len(v) \in Nat /\ \A i \in 1 .. Len(v) : v[i] \in Texts
    BY <2>1, LenProperties, ElementOfSeq
  <2>3. \A i \in 1 .. Len(v) : v[i] \in Parts(Symbols, ",")
    BY <1>1, <2>2, PartWithout DEF Texts
  <2>4. v \in Seq(Parts(Symbols, ","))
    <3> DEFINE E == Parts(Symbols, ",")
    <3>1. \A i \in 1 .. Len(v) : v[i] \in E
      BY <2>3
    <3> HIDE DEF E
    <3>2. v \in Seq(E)
      BY <2>1, <3>1
    <3> QED
      BY <3>2 DEF E
  <2> QED
    BY <1>1, <2>4 DEF Lists
<1>3. Join(v) \in Texts /\ Split(Join(v)) = v
  <2>1. "," \in Symbols
    BY DEF Symbols
  <2> QED
    BY <1>2, <2>1, SplitJoin DEF Split, Join, Texts
<1>4. ASSUME Join(v) = <<>> PROVE FALSE
  <2>1. v = << <<>> >>
    BY <1>3, <1>4, SplitEmpty DEF Split
  <2>2. 1 \in DOMAIN v /\ v[1] = <<>>
    BY <2>1
  <2> QED
    BY <1>1, <2>2
<1> QED
  BY <1>2, <1>3, <1>4

LEMMA EncodedReads ==
    ASSUME NEW kind \in Kinds, NEW v \in Values(kind), FaithfulValue(kind, v)
    PROVE  /\ Readable(kind, EncodeValue(kind, v))
           /\ DecodeValue(kind, EncodeValue(kind, v)) = v
<1>1. CASE kind = "string"
  BY <1>1 DEF EncodeValue, DecodeValue, Readable
<1>2. CASE kind = "bool"
  <2>1. v \in BOOLEAN
    BY <1>2 DEF Values
  <2>2. CASE v = TRUE
    <3>1. EncodeValue(kind, v) = <<"1">>
      BY <1>2, <2>2 DEF EncodeValue
    <3>2. <<"1">> \in True
      BY DEF True
    <3> QED
      BY <1>2, <2>2, <3>1, <3>2 DEF DecodeValue, Readable
  <2>3. CASE v = FALSE
    <3>1. EncodeValue(kind, v) = <<"0">>
      BY <1>2, <2>3 DEF EncodeValue
    <3>2. <<"0">> \in False
      BY DEF False
    <3>3. <<"0">> \notin True
      BY DEF True
    <3> DEFINE t == EncodeValue(kind, v)
    <3>4. t \in False /\ t \notin True
      BY <3>1, <3>2, <3>3
    <3> HIDE DEF t
    <3>5. Readable(kind, t)
      BY <1>2, <3>4 DEF Readable
    <3>6. DecodeValue(kind, t) = FALSE
      <4>1. DecodeValue(kind, t) = (t \in True)
        BY <1>2 DEF DecodeValue
      <4>2. (t \in True) = FALSE
        BY <3>4
      <4> QED
        BY <4>1, <4>2
    <3> QED
      BY <2>3, <3>5, <3>6 DEF t
  <2> QED
    BY <2>1, <2>2, <2>3
<1>3. CASE kind = "int"
  <2>1. v \in Nat /\ v <= TwoTo[Mantissa] /\ EncodeValue(kind, v) = Decimal[v]
    BY <1>3 DEF Values, FaithfulValue, EncodeValue
  <2>2. IsNumber(Decimal[v]) /\ Number(Decimal[v]) = v /\ Float(v) = v
    BY <2>1, NumberOfDecimal, FloatMeans
  <2> QED
    BY <1>3, <2>1, <2>2 DEF DecodeValue, Readable
<1>4. CASE kind = "list"
  <2>1. Join(v) # <<>> /\ Split(Join(v)) = v
    BY <1>4, FaithfulList
  <2>2. EncodeValue(kind, v) = Join(v)
    BY <1>4 DEF EncodeValue
  <2> QED
    BY <1>4, <2>1, <2>2 DEF DecodeValue, Readable
<1> QED
  BY <1>1, <1>2, <1>3, <1>4 DEF Kinds

LEMMA EncodedOnce ==
    ASSUME NEW kind \in Kinds, NEW v \in ReadValues(kind), kind = "list" => v # <<>>,
           NEW w \in Values(kind), FaithfulValue(kind, w),
           EncodeValue(kind, v) = EncodeValue(kind, w)
    PROVE  v = w
<1>1. CASE kind = "string"
  BY <1>1 DEF EncodeValue
<1>2. CASE kind = "bool"
  <2>1. v \in BOOLEAN /\ w \in BOOLEAN
    BY <1>2 DEF Values, ReadValues
  <2>2. <<"1">> # <<"0">>
    OBVIOUS
  <2>3. (IF v THEN <<"1">> ELSE <<"0">>) = (IF w THEN <<"1">> ELSE <<"0">>)
    BY <1>2 DEF EncodeValue
  <2>4. v <=> w
    BY <2>2, <2>3, Zenon
  <2> QED
    BY <2>1, <2>4
<1>3. CASE kind = "int"
  <2>1. v \in Nat /\ w \in Nat /\ Decimal[v] = Decimal[w]
    BY <1>3 DEF Values, ReadValues, EncodeValue
  <2> QED
    BY <2>1, NumberOfDecimal
<1>4. CASE kind = "list"
  <2>1. v \in Lists(Symbols, ",") /\ Join(v) = Join(w)
    BY <1>4 DEF ReadValues, EncodeValue
  <2>2. "," \in Symbols
    BY DEF Symbols
  <2>3. Split(Join(v)) = v /\ Split(Join(w)) = w
    BY <1>4, <2>1, <2>2, SplitJoin, FaithfulList DEF Split, Join
  <2> QED
    BY <2>1, <2>3
<1> QED
  BY <1>1, <1>2, <1>3, <1>4 DEF Kinds

-----------------------------------------------------------------------------
(* Encode: which key holds which field.                                    *)

LEMMA KeyParts ==
    ASSUME NEW f \in Families, NEW i \in Nat
    PROVE  /\ KeyOf(f, i) \in Texts /\ Claims(f, KeyOf(f, i))
           /\ Suffix(f, KeyOf(f, i)) = Decimal[i]
<1> DEFINE s == Name[f]
           d == Decimal[i]
           key == s \o d
<1>1. s \in Texts /\ s \in Seq(Symbols) /\ Len(s) \in Nat
  <2>1. s \in Texts
    BY TextsAssumption DEF Fields
  <2> QED
    BY <2>1 DEF Texts
<1>2. d \in Texts /\ d \in Seq(Symbols) /\ IsNumber(d) /\ d # <<>> /\ Len(d) \in Nat \ {0}
  <2>1. d \in Texts /\ IsNumber(d)
    BY NumberOfDecimal
  <2> HIDE DEF d
  <2> QED
    BY <2>1 DEF Texts, IsNumber
<1> HIDE DEF s, d
<1>3. /\ key \in Seq(Symbols) /\ Len(key) = Len(s) + Len(d)
      /\ \A q \in 1 .. Len(s) + Len(d) : key[q] = IF q <= Len(s) THEN s[q] ELSE d[q - Len(s)]
  BY <1>1, <1>2, ConcatProperties
<1>4. SubSeq(key, Len(s) + 1, Len(key)) = d
  <2>1. /\ Len(s) + 1 \in Len(s) + 1 .. Len(s) + Len(d)
        /\ Len(s) + Len(d) \in Len(s) + 1 .. Len(s) + Len(d)
        /\ (Len(s) + 1) - Len(s) = 1 /\ (Len(s) + Len(d)) - Len(s) = Len(d)
    BY <1>1, <1>2
  <2>2. SubSeq(key, Len(s) + 1, Len(s) + Len(d)) = SubSeq(d, (Len(s) + 1) - Len(s), (Len(s) + Len(d)) - Len(s))
    BY <1>1, <1>2, <2>1, SubSeqOfConcat2
  <2>3. SubSeq(d, 1, Len(d)) = d
    BY <1>2, SubSeqFull
  <2> QED
    BY <1>3, <2>1, <2>2, <2>3
<1>5. IsPrefix(s, key)
  <2>1. key \in Texts /\ Len(s) <= Len(key) /\ \A q \in 1 .. Len(s) : s[q] = key[q]
    BY <1>1, <1>2, <1>3 DEF Texts
  <2> HIDE DEF key
  <2> QED
    BY <1>1, <2>1, PrefixMeans
<1>6. KeyOf(f, i) = key
  BY DEF KeyOf, s, d
<1> HIDE DEF key
<1>7. Suffix(f, key) = d
  BY <1>4 DEF Suffix, s
<1>8. Claims(f, key)
  BY <1>2, <1>5, <1>7 DEF Claims, s
<1> QED
  BY <1>3, <1>6, <1>7, <1>8 DEF Texts, d

LEMMA KeysDiffer ==
    ASSUME NEW f \in Families, NEW i \in 0 .. MaxIndex,
           NEW g \in Families, NEW j \in 0 .. MaxIndex, KeyOf(f, i) = KeyOf(g, j)
    PROVE  f = g /\ i = j
<1>1. f = g
  BY KeysAssumption
<1>2. i \in Nat /\ j \in Nat
  BY CodecBounds
<1>3. Decimal[i] = Decimal[j]
  BY <1>1, <1>2, KeyParts
<1> QED
  BY <1>1, <1>2, <1>3, NumberOfDecimal

EntriesWithin(s) == \A f \in Families : DOMAIN s[f] \subseteq 0 .. MaxIndex
Sends(s, f) ==
    f \in Scalars \ ReadOnly /\ s[f] # Nil /\ Sent(Kind[f], f \in Pointers, s[f])

(***************************************************************************)
(* Encode puts each scalar that is sent, and each entry of a family, under *)
(* its own key, and nothing else.                                          *)
(***************************************************************************)
LEMMA EncodeMeans ==
    ASSUME NEW s, EntriesWithin(s)
    PROVE  /\ \A f \in Scalars :
                 /\ Sends(s, f) <=> Name[f] \in DOMAIN Encode(s)
                 /\ Sends(s, f) => Encode(s)[Name[f]] = EncodeValue(Kind[f], s[f])
           /\ \A f \in Families \ ReadOnly, i \in 0 .. MaxIndex :
                 /\ i \in DOMAIN s[f] <=> KeyOf(f, i) \in DOMAIN Encode(s)
                 /\ i \in DOMAIN s[f] => Encode(s)[KeyOf(f, i)] = s[f][i]
           /\ \A key \in DOMAIN Encode(s) :
                 \/ \E f \in Scalars : Sends(s, f) /\ key = Name[f]
                 \/ \E f \in Families \ ReadOnly : \E i \in DOMAIN s[f] : key = KeyOf(f, i)
<1> DEFINE P == UNION {Parameters(s, f) : f \in Fields}
           Scalar(p, f) == Sends(s, f) /\ p = <<Name[f], EncodeValue(Kind[f], s[f])>>
           Entry(p, f, i) == i \in DOMAIN s[f] /\ p = <<KeyOf(f, i), s[f][i]>>
<1>1. \A p \in P : \/ \E f \in Scalars : Scalar(p, f)
                   \/ \E f \in Families \ ReadOnly : \E i \in 0 .. MaxIndex : Entry(p, f, i)
  <2> SUFFICES ASSUME NEW f \in Fields, NEW p \in Parameters(s, f)
               PROVE  \/ f \in Scalars /\ Scalar(p, f)
                      \/ f \in Families \ ReadOnly /\ \E i \in 0 .. MaxIndex : Entry(p, f, i)
    OBVIOUS
  <2>1. f \notin ReadOnly
    BY DEF Parameters
  <2>2. CASE f \in Families
    BY <2>1, <2>2 DEF Parameters, EntriesWithin
  <2>3. CASE f \notin Families
    BY <2>1, <2>3 DEF Parameters, Sends, Fields
  <2> QED
    BY <2>2, <2>3
<1>2. \A f \in Scalars : Sends(s, f) => <<Name[f], EncodeValue(Kind[f], s[f])>> \in P
  <2> SUFFICES ASSUME NEW f \in Scalars, Sends(s, f)
               PROVE  <<Name[f], EncodeValue(Kind[f], s[f])>> \in Parameters(s, f)
    BY DEF Fields
  <2>1. f \notin Families
    BY FieldsAssumption
  <2> QED
    BY <2>1 DEF Parameters, Sends
<1>3. \A f \in Families \ ReadOnly : \A i \in DOMAIN s[f] : <<KeyOf(f, i), s[f][i]>> \in P
  BY DEF Parameters, Fields
<1>4. \A f \in Scalars, g \in Scalars : Name[f] = Name[g] => f = g
  BY FieldsAssumption
<1>5. \A f \in Families, i \in 0 .. MaxIndex, g \in Scalars : Name[g] # KeyOf(f, i)
  BY KeysAssumption
<1>6. \A p \in P, q \in P : p[1] = q[1] => p = q
  <2> SUFFICES ASSUME NEW p \in P, NEW q \in P, p[1] = q[1] PROVE p = q
    OBVIOUS
  <2> HIDE DEF P
  <2>1. CASE \E f \in Scalars : Scalar(p, f)
    <3>1. PICK f \in Scalars : Scalar(p, f)
      BY <2>1
    <3>2. p[1] = Name[f]
      BY <3>1
    <3>3. ASSUME NEW g \in Families, NEW i \in 0 .. MaxIndex, Entry(q, g, i) PROVE FALSE
      <4>1. q[1] = KeyOf(g, i)
        BY <3>3
      <4> QED
        BY <3>2, <4>1, <1>5
    <3>4. PICK g \in Scalars : Scalar(q, g)
      BY <3>3, <1>1
    <3>5. q[1] = Name[g]
      BY <3>4
    <3> QED
      BY <3>1, <3>2, <3>4, <3>5, <1>4
  <2>2. CASE \E f \in Families \ ReadOnly : \E i \in 0 .. MaxIndex : Entry(p, f, i)
    <3>1. PICK f \in Families \ ReadOnly, i \in 0 .. MaxIndex : Entry(p, f, i)
      BY <2>2
    <3>2. p[1] = KeyOf(f, i)
      BY <3>1
    <3>3. ASSUME NEW g \in Scalars, Scalar(q, g) PROVE FALSE
      <4>1. q[1] = Name[g]
        BY <3>3
      <4> QED
        BY <3>2, <4>1, <1>5
    <3>4. PICK g \in Families \ ReadOnly, j \in 0 .. MaxIndex : Entry(q, g, j)
      BY <3>3, <1>1
    <3>5. q[1] = KeyOf(g, j)
      BY <3>4
    <3>6. f = g /\ i = j
      BY <3>2, <3>5, KeysDiffer
    <3> QED
      BY <3>1, <3>4, <3>6
  <2> QED
    BY <2>1, <2>2, <1>1
<1> HIDE DEF P
<1>7. Encode(s) = [key \in {p[1] : p \in P} |-> (CHOOSE p \in P : p[1] = key)[2]]
  BY DEF Encode, P
<1>8. \A p \in P : p[1] \in DOMAIN Encode(s) /\ Encode(s)[p[1]] = p[2]
  BY <1>6, <1>7
<1>9. \A key \in DOMAIN Encode(s) : \E p \in P : p[1] = key
  BY <1>7
<1>10. ASSUME NEW f \in Scalars
       PROVE  /\ Sends(s, f) <=> Name[f] \in DOMAIN Encode(s)
              /\ Sends(s, f) => Encode(s)[Name[f]] = EncodeValue(Kind[f], s[f])
  <2>1. ASSUME Sends(s, f)
        PROVE  Name[f] \in DOMAIN Encode(s) /\ Encode(s)[Name[f]] = EncodeValue(Kind[f], s[f])
    <3> DEFINE p == <<Name[f], EncodeValue(Kind[f], s[f])>>
    <3>1. p \in P /\ p[1] = Name[f] /\ p[2] = EncodeValue(Kind[f], s[f])
      BY <1>2, <2>1
    <3> HIDE DEF p
    <3> QED
      BY <3>1, <1>8
  <2>2. ASSUME Name[f] \in DOMAIN Encode(s) PROVE Sends(s, f)
    <3>1. PICK p \in P : p[1] = Name[f]
      BY <1>9, <2>2
    <3>2. ASSUME NEW g \in Families, NEW i \in 0 .. MaxIndex, Entry(p, g, i) PROVE FALSE
      <4>1. p[1] = KeyOf(g, i)
        BY <3>2
      <4> QED
        BY <3>1, <4>1, <1>5
    <3>3. PICK g \in Scalars : Scalar(p, g)
      BY <3>2, <1>1
    <3>4. p[1] = Name[g]
      BY <3>3
    <3> QED
      BY <3>1, <3>3, <3>4, <1>4
  <2> QED
    BY <2>1, <2>2
<1>11. ASSUME NEW f \in Families \ ReadOnly, NEW i \in 0 .. MaxIndex
       PROVE  /\ i \in DOMAIN s[f] <=> KeyOf(f, i) \in DOMAIN Encode(s)
              /\ i \in DOMAIN s[f] => Encode(s)[KeyOf(f, i)] = s[f][i]
  <2>1. ASSUME i \in DOMAIN s[f]
        PROVE  KeyOf(f, i) \in DOMAIN Encode(s) /\ Encode(s)[KeyOf(f, i)] = s[f][i]
    <3> DEFINE p == <<KeyOf(f, i), s[f][i]>>
    <3>1. p \in P /\ p[1] = KeyOf(f, i) /\ p[2] = s[f][i]
      BY <1>3, <2>1
    <3> HIDE DEF p
    <3> QED
      BY <3>1, <1>8
  <2>2. ASSUME KeyOf(f, i) \in DOMAIN Encode(s) PROVE i \in DOMAIN s[f]
    <3>1. PICK p \in P : p[1] = KeyOf(f, i)
      BY <1>9, <2>2
    <3>2. ASSUME NEW g \in Scalars, Scalar(p, g) PROVE FALSE
      <4>1. p[1] = Name[g]
        BY <3>2
      <4> QED
        BY <3>1, <4>1, <1>5
    <3>3. PICK g \in Families \ ReadOnly, j \in 0 .. MaxIndex : Entry(p, g, j)
      BY <3>2, <1>1
    <3>4. p[1] = KeyOf(g, j)
      BY <3>3
    <3>5. f = g /\ i = j
      BY <3>1, <3>4, KeysDiffer
    <3> QED
      BY <3>3, <3>5
  <2> QED
    BY <2>1, <2>2
<1>12. ASSUME NEW key \in DOMAIN Encode(s)
       PROVE  \/ \E f \in Scalars : Sends(s, f) /\ key = Name[f]
              \/ \E f \in Families \ ReadOnly : \E i \in DOMAIN s[f] : key = KeyOf(f, i)
  <2>1. PICK p \in P : p[1] = key
    BY <1>9
  <2>2. CASE \E f \in Scalars : Scalar(p, f)
    <3>1. PICK f \in Scalars : Scalar(p, f)
      BY <2>2
    <3>2. p[1] = Name[f]
      BY <3>1
    <3> QED
      BY <2>1, <3>1, <3>2
  <2>3. CASE \E f \in Families \ ReadOnly : \E i \in 0 .. MaxIndex : Entry(p, f, i)
    <3>1. PICK f \in Families \ ReadOnly, i \in 0 .. MaxIndex : Entry(p, f, i)
      BY <2>3
    <3>2. p[1] = KeyOf(f, i)
      BY <3>1
    <3> QED
      BY <2>1, <3>1, <3>2
  <2> QED
    BY <2>2, <2>3, <1>1
<1> QED
  BY <1>10, <1>11, <1>12

-----------------------------------------------------------------------------
(* Update: what is read, and what is left to set.                          *)

EntriesRead(f) ==
    /\ DOMAIN current[f] \subseteq 0 .. MaxIndex
    /\ \A i \in DOMAIN current[f] : \E key \in DOMAIN options :
          Claims(f, key) /\ Number(Suffix(f, key)) = i /\ current[f][i] = options[key]
    /\ \A key \in DOMAIN options :
          Claims(f, key) => <<f, key>> \in visiting \/ Number(Suffix(f, key)) \in DOMAIN current[f]

ReadInv ==
    /\ \A f \in Scalars :
          /\ current[f] = DecodeScalar(options, f)
          /\ Name[f] \in DOMAIN options => Readable(Kind[f], options[Name[f]])
    /\ \A f \in Families : EntriesRead(f)

CycleInv ==
    /\ UpdateInv
    /\ DOMAIN current = Fields
    /\ \A key \in DOMAIN options : options[key] \in Texts
    /\ pc \in {"visit", "set", "done"} => ReadInv
    /\ pc \in {"set", "done"} => /\ visiting = {}
                                 /\ changed = FilterChangedOptions(Encode(current), Encode(desired))
    /\ pc = "done" => DOMAIN changed = {}

LEMMA ScalarType ==
    ASSUME CycleInv, ReadInv, NEW f \in Scalars
    PROVE  current[f] = Nil \/ current[f] \in ReadValues(Kind[f])
<1>1. Kind[f] \in Kinds
  BY FieldsAssumption DEF Kinds
<1>2. CASE Name[f] \in DOMAIN options
  <2>1. options[Name[f]] \in Texts /\ Readable(Kind[f], options[Name[f]])
    BY <1>2 DEF CycleInv, ReadInv
  <2>2. current[f] = DecodeValue(Kind[f], options[Name[f]])
    BY <1>2 DEF ReadInv, DecodeScalar
  <2> QED
    BY <1>1, <2>1, <2>2, ReadType
<1>3. CASE Name[f] \notin DOMAIN options
  <2>1. current[f] = IF f \in Pointers THEN Nil ELSE Zero[Kind[f]]
    BY <1>3 DEF ReadInv, DecodeScalar
  <2> QED
    BY <1>1, <2>1, ZeroType
<1> QED
  BY <1>2, <1>3

LEMMA DesiredMeans ==
    ASSUME CycleInv
    PROVE  /\ EntriesWithin(desired)
           /\ \A f \in Scalars : IF desired[f] = Nil THEN f \in Pointers
                                 ELSE desired[f] \in Values(Kind[f])
           /\ \A f \in Scalars : Kind[f] \in Kinds
BY TextsAssumption, FieldsAssumption DEF CycleInv, UpdateInv, EntriesWithin, Kinds

LEMMA AskedIsSent ==
    ASSUME CycleInv, NEW f \in Scalars, Asked(f), Faithful(f)
    PROVE  /\ Sends(desired, f) /\ Kind[f] \in Kinds
           /\ desired[f] \in Values(Kind[f]) /\ FaithfulValue(Kind[f], desired[f])
<1>1. desired[f] # Nil /\ desired[f] \in Values(Kind[f]) /\ Kind[f] \in Kinds
  BY DesiredMeans DEF Asked
<1>2. FaithfulValue(Kind[f], desired[f])
  BY DEF Faithful, FaithfulValue
<1>3. Sent(Kind[f], f \in Pointers, desired[f])
  <2>1. CASE f \in Pointers
    <3>1. Kind[f] = "list" => desired[f] # Zero[Kind[f]]
      <4>1. Zero["list"] = <<>>
        BY DEF Zero
      <4>2. Kind[f] = "list" => desired[f] # <<>>
        BY DEF Faithful
      <4> QED
        BY <4>1, <4>2
    <3> QED
      BY <2>1, <3>1 DEF Sent
  <2>2. CASE f \notin Pointers
    BY <2>2 DEF Asked, Sent
  <2> QED
    BY <2>1, <2>2
<1> QED
  BY <1>1, <1>2, <1>3 DEF Sends, Asked

LEMMA SentIsText ==
    ASSUME CycleInv, NEW key \in DOMAIN Encode(desired)
    PROVE  Encode(desired)[key] \in Texts
<1>1. EntriesWithin(desired)
  BY DesiredMeans
<1>2. ASSUME NEW f \in Scalars, Sends(desired, f), key = Name[f] PROVE Encode(desired)[key] \in Texts
  <2>1. Encode(desired)[key] = EncodeValue(Kind[f], desired[f])
    BY <1>1, <1>2, EncodeMeans
  <2>2. desired[f] \in Values(Kind[f]) /\ Kind[f] \in Kinds
    BY <1>2, DesiredMeans DEF Sends
  <2>3. Kind[f] = "list" => desired[f] # <<>>
    BY <1>2 DEF Sends, Sent, Zero
  <2> QED
    BY <2>1, <2>2, <2>3, EncodedType
<1>3. ASSUME NEW f \in Families \ ReadOnly, NEW i \in DOMAIN desired[f], key = KeyOf(f, i)
      PROVE  Encode(desired)[key] \in Texts
  <2>1. i \in 0 .. MaxIndex
    BY <1>1 DEF EntriesWithin
  <2>2. Encode(desired)[key] = desired[f][i]
    BY <1>1, <1>3, <2>1, EncodeMeans
  <2> QED
    BY <2>2, TextsAssumption DEF CycleInv, UpdateInv
<1> QED
  BY <1>1, <1>2, <1>3, EncodeMeans

(***************************************************************************)
(* A key that is not to be set: the file decodes to what is desired there. *)
(***************************************************************************)
SetsNothing(key) == key \in DOMAIN Encode(current) /\ Encode(current)[key] = Encode(desired)[key]

LEMMA SameScalar ==
    ASSUME CycleInv, ReadInv, NEW f \in Scalars, Asked(f), Faithful(f), SetsNothing(Name[f])
    PROVE  current[f] = desired[f]
<1>1. EntriesWithin(current) /\ EntriesWithin(desired)
  BY DesiredMeans DEF ReadInv, EntriesRead, EntriesWithin
<1>2. /\ Sends(desired, f) /\ Kind[f] \in Kinds
      /\ desired[f] \in Values(Kind[f]) /\ FaithfulValue(Kind[f], desired[f])
  BY AskedIsSent
<1>3. Sends(current, f) /\ Encode(current)[Name[f]] = EncodeValue(Kind[f], current[f])
  BY <1>1, EncodeMeans DEF SetsNothing
<1>4. Encode(desired)[Name[f]] = EncodeValue(Kind[f], desired[f])
  BY <1>1, <1>2, EncodeMeans
<1>5. current[f] \in ReadValues(Kind[f]) /\ (Kind[f] = "list" => current[f] # <<>>)
  BY <1>3, ScalarType DEF Sends, Sent, Zero
<1> QED
  BY <1>2, <1>3, <1>4, <1>5, EncodedOnce DEF SetsNothing

LEMMA SameEntry ==
    ASSUME CycleInv, ReadInv, NEW f \in Families \ ReadOnly, NEW i \in DOMAIN desired[f],
           SetsNothing(KeyOf(f, i))
    PROVE  i \in DOMAIN current[f] /\ current[f][i] = desired[f][i]
<1>1. EntriesWithin(current) /\ EntriesWithin(desired)
  BY DesiredMeans DEF ReadInv, EntriesRead, EntriesWithin
<1>2. i \in 0 .. MaxIndex
  BY <1>1 DEF EntriesWithin
<1>3. i \in DOMAIN current[f]
  BY <1>1, <1>2, EncodeMeans DEF SetsNothing
<1>4. Encode(current)[KeyOf(f, i)] = current[f][i]
  BY <1>1, <1>2, <1>3, EncodeMeans
<1>5. Encode(desired)[KeyOf(f, i)] = desired[f][i]
  BY <1>1, <1>2, EncodeMeans
<1> QED
  BY <1>3, <1>4, <1>5 DEF SetsNothing

LEMMA CycleStarts == Init => CycleInv
<1> SUFFICES ASSUME Init PROVE CycleInv
  OBVIOUS
<1>1. UpdateInv
  BY UpdateStarts
<1>2. DOMAIN current = Fields
  BY DEF Init, Start
<1>3. \A key \in DOMAIN options : options[key] \in Texts
  BY TextsAssumption DEF Init
<1>4. pc = "read"
  BY DEF Init
<1> QED
  BY <1>1, <1>2, <1>3, <1>4 DEF CycleInv

LEMMA EntryRead ==
    ASSUME CycleInv, NEW f \in Families, NEW key \in DOMAIN options, DecodeIndexed(f, key)
    PROVE  CycleInv'
<1>1. UpdateInv'
  BY UpdateGoesOn DEF CycleInv, Next
<1> DEFINE n == Number(Suffix(f, key))
<1>2. /\ pc = "visit" /\ pc' = "visit" /\ <<f, key>> \in visiting /\ Fits(f, key)
      /\ current' = [current EXCEPT ![f] = With(@, [i \in {n} |-> options[key]])]
      /\ visiting' = visiting \ {<<f, key>>}
      /\ options' = options
  BY DEF DecodeIndexed
<1>3. ReadInv /\ DOMAIN current = Fields /\ f \in Fields /\ f \notin Scalars /\ Claims(f, key)
  BY <1>2, FieldsAssumption DEF CycleInv, UpdateInv, Fields
<1>4. n \in 0 .. MaxIndex
  <2>1. key \in Texts
    BY DEF CycleInv, UpdateInv
  <2>2. n \in Nat
    BY <1>2, <1>3, <2>1, SuffixIsText, NumberType DEF Fits
  <2> QED
    BY <1>2, <2>2 DEF Fits
<1>5. /\ \A g \in Fields : g # f => current'[g] = current[g]
      /\ DOMAIN current'[f] = DOMAIN current[f] \cup {n}
      /\ current'[f][n] = options[key]
      /\ \A i \in DOMAIN current[f] : i # n => current'[f][i] = current[f][i]
      /\ DOMAIN current' = Fields
  BY <1>2, <1>3 DEF With
<1>6. ASSUME NEW g \in Scalars
      PROVE  /\ current'[g] = DecodeScalar(options', g)
             /\ Name[g] \in DOMAIN options' => Readable(Kind[g], options'[Name[g]])
  <2>1. g \in Fields /\ g # f
    BY <1>3 DEF Fields
  <2> QED
    BY <1>2, <1>3, <1>5, <2>1 DEF ReadInv
<1>7. ASSUME NEW g \in Families PROVE EntriesRead(g)'
  <2>1. EntriesRead(g) /\ g \in Fields
    BY <1>3 DEF ReadInv, Fields
  <2>2. CASE g # f
    <3>1. current'[g] = current[g] /\ \A k : <<g, k>> \in visiting => <<g, k>> \in visiting'
      BY <1>2, <1>5, <2>1, <2>2
    <3> QED
      BY <1>2, <2>1, <3>1 DEF EntriesRead
  <2>3. CASE g = f
    <3>1. DOMAIN current'[f] \subseteq 0 .. MaxIndex
      BY <1>4, <1>5, <2>1, <2>3 DEF EntriesRead
    <3>2. ASSUME NEW i \in DOMAIN current'[f]
          PROVE  \E k \in DOMAIN options :
                    Claims(f, k) /\ Number(Suffix(f, k)) = i /\ current'[f][i] = options[k]
      <4>1. CASE i = n
        BY <1>3, <1>5, <4>1
      <4>2. CASE i # n
        <5>1. i \in DOMAIN current[f] /\ current'[f][i] = current[f][i]
          BY <1>5, <4>2
        <5> QED
          BY <2>1, <2>3, <5>1 DEF EntriesRead
      <4> QED
        BY <4>1, <4>2
    <3>3. ASSUME NEW k \in DOMAIN options, Claims(f, k)
          PROVE  <<f, k>> \in visiting' \/ Number(Suffix(f, k)) \in DOMAIN current'[f]
      <4>1. <<f, k>> \in visiting \/ Number(Suffix(f, k)) \in DOMAIN current[f]
        BY <2>1, <2>3, <3>3 DEF EntriesRead
      <4>2. CASE k = key
        BY <1>5, <4>2
      <4>3. CASE k # key
        <5>1. <<f, k>> # <<f, key>>
          BY <4>3
        <5> QED
          BY <1>2, <1>5, <4>1, <5>1
      <4> QED
        BY <4>2, <4>3
    <3> QED
      BY <1>2, <2>3, <3>1, <3>2, <3>3 DEF EntriesRead
  <2> QED
    BY <2>2, <2>3
<1>8. ReadInv'
  BY <1>6, <1>7 DEF ReadInv
<1> QED
  BY <1>1, <1>2, <1>5, <1>8 DEF CycleInv

LEMMA CycleGoesOn == CycleInv /\ [Next]_vars => CycleInv'
<1> SUFFICES ASSUME CycleInv, [Next]_vars PROVE CycleInv'
  OBVIOUS
<1>1. UpdateInv'
  BY UpdateGoesOn DEF CycleInv
<1>2. CASE Read
  <2>1. /\ current' = Start(options) /\ options' = options /\ pc' = "visit"
        /\ visiting' = {e \in Families \X DOMAIN options : Claims(e[1], e[2])}
        /\ \A f \in Scalars : Name[f] \in DOMAIN options => Readable(Kind[f], options[Name[f]])
    BY <1>2 DEF Read
  <2>2. /\ DOMAIN current' = Fields
        /\ \A f \in Scalars : current'[f] = DecodeScalar(options, f)
        /\ \A f \in Families : current'[f] = NoEntries
    BY <2>1, FieldsAssumption DEF Start, Fields
  <2>3. \A f \in Families : EntriesRead(f)'
    BY <2>1, <2>2 DEF EntriesRead, NoEntries
  <2> QED
    BY <1>1, <2>1, <2>2, <2>3 DEF CycleInv, ReadInv
<1>3. ASSUME NEW f \in Families, NEW key \in DOMAIN options, DecodeIndexed(f, key)
      PROVE  CycleInv'
  BY <1>3, EntryRead
<1>4. CASE Fail
  BY <1>1, <1>4 DEF Fail, CycleInv
<1>5. CASE Compare
  <2>1. /\ current' = current /\ options' = options /\ desired' = desired
        /\ visiting' = {} /\ visiting = {} /\ pc = "visit"
        /\ changed' = FilterChangedOptions(Encode(current), Encode(desired))
        /\ pc' = IF DOMAIN changed' = {} THEN "done" ELSE "set"
    BY <1>5 DEF Compare
  <2>2. ReadInv'
    BY <2>1 DEF CycleInv, ReadInv, EntriesRead
  <2>3. changed' = FilterChangedOptions(Encode(current), Encode(desired))'
    BY <2>1
  <2> QED
    BY <1>1, <2>1, <2>2, <2>3 DEF CycleInv
<1>6. CASE Set
  <2>1. pc = "set" /\ options' = With(options, changed) /\ pc' = "read" /\ current' = current
    BY <1>6 DEF Set
  <2>2. changed = FilterChangedOptions(Encode(current), Encode(desired))
    BY <2>1 DEF CycleInv
  <2>3. \A key \in DOMAIN changed : changed[key] \in Texts
    BY <2>2, SentIsText DEF FilterChangedOptions
  <2>4. \A key \in DOMAIN options' : options'[key] \in Texts
    BY <2>1, <2>3 DEF With, CycleInv
  <2> QED
    BY <1>1, <2>1, <2>4 DEF CycleInv
<1>7. CASE Over \/ UNCHANGED vars
  <2>1. UNCHANGED vars
    BY <1>7 DEF Over
  <2> QED
    BY <1>1, <2>1 DEF vars, CycleInv, ReadInv, EntriesRead
<1> QED
  BY <1>2, <1>3, <1>4, <1>5, <1>6, <1>7 DEF Next

LEMMA CycleInvariance == PSpec => []CycleInv
BY CycleStarts, CycleGoesOn, ReadsBeside, PTL DEF Spec

(***************************************************************************)
(* An update that finds nothing to set (qemu.go and lxc.go, Update) leaves *)
(* a guest whose config decodes to what its caller asks for.               *)
(***************************************************************************)
THEOREM UpdatesApply == PSpec => []Applied
<1>1. ASSUME CycleInv PROVE Applied
  <2> SUFFICES ASSUME pc = "done"
               PROVE  /\ \A f \in Scalars : Asked(f) /\ Faithful(f) => current[f] = desired[f]
                      /\ \A f \in Families \ ReadOnly, i \in 0 .. MaxIndex :
                            i \in DOMAIN desired[f] =>
                               i \in DOMAIN current[f] /\ current[f][i] = desired[f][i]
    BY DEF Applied
  <2>1. ReadInv /\ \A key \in DOMAIN Encode(desired) : SetsNothing(key)
    BY <1>1 DEF CycleInv, FilterChangedOptions, SetsNothing
  <2>2. EntriesWithin(desired)
    BY <1>1, DesiredMeans
  <2>3. ASSUME NEW f \in Scalars, Asked(f), Faithful(f) PROVE current[f] = desired[f]
    <3>1. Name[f] \in DOMAIN Encode(desired)
      BY <1>1, <2>2, <2>3, AskedIsSent, EncodeMeans
    <3> QED
      BY <1>1, <2>1, <2>3, <3>1, SameScalar
  <2>4. ASSUME NEW f \in Families \ ReadOnly, NEW i \in 0 .. MaxIndex, i \in DOMAIN desired[f]
        PROVE  i \in DOMAIN current[f] /\ current[f][i] = desired[f][i]
    <3>1. KeyOf(f, i) \in DOMAIN Encode(desired)
      BY <2>2, <2>4, EncodeMeans
    <3> QED
      BY <1>1, <2>1, <2>4, <3>1, SameEntry
  <2> QED
    BY <2>3, <2>4
<1> QED
  BY <1>1, CycleInvariance, PTL

(***************************************************************************)
(* One command is enough: what it has set, and what it had no need to set, *)
(* decodes to what is desired, so the next update finds nothing to set.    *)
(***************************************************************************)
Settled ==
    /\ \A f \in Scalars : Asked(f) => DecodeScalar(options, f) = desired[f]
    /\ \A f \in Families \ ReadOnly : \A i \in DOMAIN desired[f] :
          KeyOf(f, i) \in DOMAIN options /\ options[KeyOf(f, i)] = desired[f][i]

OnceInv ==
    /\ commands \in Nat
    /\ AllFaithful /\ EntriesOnce /\ commands > 0 => commands = 1 /\ pc # "set" /\ Settled

LEMMA SetSettles ==
    ASSUME CycleInv, AllFaithful, EntriesOnce, Set
    PROVE  Settled'
<1>1. /\ pc = "set" /\ options' = With(options, changed) /\ desired' = desired
      /\ ReadInv /\ visiting = {}
      /\ changed = FilterChangedOptions(Encode(current), Encode(desired))
  BY DEF Set, CycleInv
<1>2. EntriesWithin(desired)
  BY DesiredMeans
<1>3. ASSUME NEW key \in DOMAIN Encode(desired), ~SetsNothing(key)
      PROVE  key \in DOMAIN options' /\ options'[key] = Encode(desired)[key]
  <2>1. key \in DOMAIN changed /\ changed[key] = Encode(desired)[key]
    BY <1>1, <1>3 DEF FilterChangedOptions, SetsNothing
  <2> QED
    BY <1>1, <2>1 DEF With
<1>4. ASSUME NEW key, SetsNothing(key)
      PROVE  /\ key \in DOMAIN options' <=> key \in DOMAIN options
             /\ key \in DOMAIN options => options'[key] = options[key]
  <2>1. key \notin DOMAIN changed
    BY <1>1, <1>4 DEF FilterChangedOptions, SetsNothing
  <2> QED
    BY <1>1, <2>1 DEF With
<1>5. ASSUME NEW f \in Scalars, Asked(f)
      PROVE  DecodeScalar(options', f) = desired[f]
  <2>1. Faithful(f)
    BY <1>5 DEF AllFaithful
  <2>2. /\ Sends(desired, f) /\ Kind[f] \in Kinds
        /\ desired[f] \in Values(Kind[f]) /\ FaithfulValue(Kind[f], desired[f])
    BY <1>5, <2>1, AskedIsSent
  <2>3. /\ Name[f] \in DOMAIN Encode(desired)
        /\ Encode(desired)[Name[f]] = EncodeValue(Kind[f], desired[f])
    BY <1>2, <2>2, EncodeMeans
  <2>4. CASE SetsNothing(Name[f])
    <3>1. current[f] = desired[f]
      BY <1>1, <1>5, <2>1, <2>4, SameScalar
    <3>2. DecodeScalar(options', f) = DecodeScalar(options, f)
      BY <1>4, <2>4 DEF DecodeScalar
    <3> QED
      BY <1>1, <3>1, <3>2 DEF ReadInv
  <2>5. CASE ~SetsNothing(Name[f])
    <3>1. Name[f] \in DOMAIN options' /\ options'[Name[f]] = EncodeValue(Kind[f], desired[f])
      BY <1>3, <2>3, <2>5
    <3>2. DecodeScalar(options', f) = DecodeValue(Kind[f], EncodeValue(Kind[f], desired[f]))
      BY <3>1 DEF DecodeScalar
    <3> QED
      BY <2>2, <3>2, EncodedReads
  <2> QED
    BY <2>4, <2>5
<1>6. ASSUME NEW f \in Families \ ReadOnly, NEW i \in DOMAIN desired[f]
      PROVE  KeyOf(f, i) \in DOMAIN options' /\ options'[KeyOf(f, i)] = desired[f][i]
  <2> DEFINE key == KeyOf(f, i)
  <2>1. i \in 0 .. MaxIndex
    BY <1>2 DEF EntriesWithin
  <2>2. key \in DOMAIN Encode(desired) /\ Encode(desired)[key] = desired[f][i]
    BY <1>2, <2>1, EncodeMeans
  <2>3. CASE SetsNothing(key)
    <3>1. i \in DOMAIN current[f] /\ current[f][i] = desired[f][i]
      BY <1>1, <2>3, SameEntry
    <3>2. PICK k \in DOMAIN options :
             Claims(f, k) /\ Number(Suffix(f, k)) = i /\ current[f][i] = options[k]
      BY <1>1, <3>1 DEF ReadInv, EntriesRead
    <3>3. k = key
      BY <3>2 DEF EntriesOnce
    <3> HIDE DEF key
    <3> QED
      BY <1>4, <2>3, <3>1, <3>2, <3>3 DEF key
  <2>4. CASE ~SetsNothing(key)
    <3> HIDE DEF key
    <3> QED
      BY <1>3, <2>2, <2>4 DEF key
  <2> QED
    BY <2>3, <2>4
<1>7. \A f : Asked(f)' <=> Asked(f)
  BY <1>1 DEF Asked
<1> QED
  BY <1>1, <1>5, <1>6, <1>7 DEF Settled

LEMMA SettledNeedsNothing ==
    ASSUME CycleInv, AllFaithful, EntriesOnce, Settled, Compare
    PROVE  pc' = "done"
<1>1. /\ ReadInv /\ visiting = {}
      /\ changed' = FilterChangedOptions(Encode(current), Encode(desired))
      /\ pc' = IF DOMAIN changed' = {} THEN "done" ELSE "set"
  BY DEF Compare, CycleInv
<1>2. EntriesWithin(desired) /\ EntriesWithin(current)
  BY <1>1, DesiredMeans DEF ReadInv, EntriesRead, EntriesWithin
<1>3. ASSUME NEW f \in Scalars, Sends(desired, f) PROVE SetsNothing(Name[f])
  <2>1. Asked(f)
    BY <1>3 DEF Asked, Sends, Sent
  <2>2. current[f] = desired[f]
    BY <1>1, <2>1 DEF Settled, ReadInv
  <2>3. Sends(current, f)
    BY <1>3, <2>2 DEF Sends
  <2> QED
    BY <1>2, <1>3, <2>2, <2>3, EncodeMeans DEF SetsNothing
<1>4. ASSUME NEW f \in Families \ ReadOnly, NEW i \in DOMAIN desired[f] PROVE SetsNothing(KeyOf(f, i))
  <2> DEFINE key == KeyOf(f, i)
  <2>1. i \in 0 .. MaxIndex /\ i \in Nat
    BY <1>2, CodecBounds DEF EntriesWithin
  <2>2. key \in DOMAIN options /\ options[key] = desired[f][i]
    BY DEF Settled
  <2>3. Claims(f, key) /\ Number(Suffix(f, key)) = i
    BY <2>1, KeyParts, NumberOfDecimal
  <2>4. i \in DOMAIN current[f]
    BY <1>1, <2>2, <2>3 DEF ReadInv, EntriesRead
  <2>5. PICK k \in DOMAIN options :
           Claims(f, k) /\ Number(Suffix(f, k)) = i /\ current[f][i] = options[k]
    BY <1>1, <2>4 DEF ReadInv, EntriesRead
  <2>6. k = key
    BY <2>5 DEF EntriesOnce
  <2>7. current[f][i] = desired[f][i]
    BY <2>2, <2>5, <2>6
  <2> QED
    BY <1>2, <2>1, <2>4, <2>7, EncodeMeans DEF SetsNothing
<1>5. \A key \in DOMAIN Encode(desired) : SetsNothing(key)
  BY <1>2, <1>3, <1>4, EncodeMeans
<1>6. DOMAIN changed' = {}
  BY <1>1, <1>5 DEF FilterChangedOptions, SetsNothing
<1> QED
  BY <1>1, <1>6

LEMMA OnceGoesOn == CycleInv /\ OnceInv /\ [Next]_vars => OnceInv'
<1> SUFFICES ASSUME CycleInv, OnceInv, [Next]_vars PROVE OnceInv'
  OBVIOUS
<1> USE DEF OnceInv
<1>1. desired' = desired
  BY DEF Next, Read, Fail, Compare, Set, Over, DecodeIndexed, vars
<1>2. AllFaithful' <=> AllFaithful
  BY <1>1 DEF AllFaithful, Asked, Faithful
<1>3. CASE Set
  <2>1. options' = With(options, changed) /\ commands' = commands + 1 /\ pc = "set" /\ pc' = "read"
    BY <1>3 DEF Set
  <2>2. EntriesOnce' => EntriesOnce
    BY <2>1 DEF With, EntriesOnce
  <2>3. AllFaithful' /\ EntriesOnce' => commands = 0 /\ Settled'
    BY <1>2, <1>3, <2>1, <2>2, SetSettles
  <2> QED
    BY <2>1, <2>3
<1>4. CASE options' = options /\ commands' = commands
  <2>1. EntriesOnce' <=> EntriesOnce
    BY <1>4 DEF EntriesOnce
  <2>2. Settled' <=> Settled
    BY <1>1, <1>4 DEF Settled, Asked
  <2>3. AllFaithful /\ EntriesOnce /\ commands > 0 => pc' # "set"
    <3> SUFFICES ASSUME AllFaithful, EntriesOnce, commands > 0 PROVE pc' # "set"
      OBVIOUS
    <3>1. CASE Compare
      BY <3>1, SettledNeedsNothing
    <3>2. CASE ~Compare
      BY <1>4, <3>2 DEF Next, Read, Fail, DecodeIndexed, Set, Over, vars
    <3> QED
      BY <3>1, <3>2
  <2> QED
    BY <1>2, <1>4, <2>1, <2>2, <2>3
<1>5. Set \/ (options' = options /\ commands' = commands)
  BY DEF Next, Read, Fail, Compare, Over, DecodeIndexed, vars
<1> QED
  BY <1>3, <1>4, <1>5

(***************************************************************************)
(* Applying one config twice sets nothing the second time (docs/design.md  *)
(* 2.4, filterChangedOptions in qemu.go and lxc.go), whatever form the     *)
(* texts in the file had.                                                  *)
(***************************************************************************)
THEOREM OneCommandEnough == PSpec => []Idempotent
<1>1. Init => OnceInv
  BY DEF Init, OnceInv
<1>2. OnceInv => Idempotent
  BY DEF OnceInv, Idempotent
<1> QED
  BY <1>1, <1>2, OnceGoesOn, CycleInvariance, ReadsBeside, PTL DEF Spec
=============================================================================
