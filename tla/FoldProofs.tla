----------------------------- MODULE FoldProofs -----------------------------
(***************************************************************************)
(* What the proofs about texts share: numbers, induction on the length of  *)
(* a sequence, and the values that FoldLeft goes through.                  *)
(***************************************************************************)
EXTENDS Integers, Sequences, SequencesExt, SequenceTheorems,
        NaturalsInduction, WellFoundedInduction, TLAPS

-----------------------------------------------------------------------------
(* Numbers.                                                                *)

(***************************************************************************)
(* A set of naturals with an element has a least one.                      *)
(***************************************************************************)
LEMMA LeastNumber ==
    ASSUME NEW S, S \subseteq Nat, S # {}
    PROVE  \E n \in S : \A m \in S : n <= m
<1> DEFINE Less == {ss \in Nat \X Nat : ss[1] < ss[2]}
<1>1. Less = OpToRel(<, Nat)
  BY DEF OpToRel
<1>2. IsWellFoundedOn(Less, Nat)
  BY <1>1, NatLessThanWellFounded
<1> HIDE DEF Less
<1>3. \E n \in S : \A m \in S : ~(<<m, n>> \in Less)
  BY <1>2, WFMin, Zenon
<1>4. PICK n \in S : \A m \in S : ~(<<m, n>> \in Less)
  BY <1>3
<1>5. ASSUME NEW m \in S PROVE n <= m
  <2>1. m \in Nat /\ n \in Nat
    OBVIOUS
  <2>2. ~(m < n)
    BY <2>1, <1>4 DEF Less
  <2> QED
    BY <2>1, <2>2
<1> QED
  BY <1>5

(***************************************************************************)
(* A set with 0 and with the number after each of its numbers has them all.*)
(***************************************************************************)
LEMMA SetInduction ==
    ASSUME NEW S, 0 \in S, \A n \in Nat : n \in S => n + 1 \in S
    PROVE  \A n \in Nat : n \in S
<1> DEFINE Out == {n \in Nat : n \notin S}
<1>1. Out \subseteq Nat
  OBVIOUS
<1>2. ASSUME Out # {} PROVE FALSE
  <2>1. PICK n \in Out : \A m \in Out : n <= m
    BY <1>1, <1>2, LeastNumber
  <2>2. n \in Nat /\ n \notin S /\ n # 0
    BY <2>1
  <2>3. n - 1 \in Nat /\ ~(n <= n - 1)
    BY <2>2
  <2>4. n - 1 \in S
    BY <2>1, <2>3
  <2> QED
    BY <2>2, <2>3, <2>4
<1> QED
  BY <1>2

LEMMA MaxMeans ==
    ASSUME NEW S, S \subseteq Int, NEW n \in S, \A m \in S : m <= n
    PROVE  Max(S) = n
<1>1. \A m \in S : n >= m
  OBVIOUS
<1>2. Max(S) \in S /\ \A m \in S : Max(S) >= m
  BY <1>1 DEF Max
<1>3. Max(S) \in Int /\ n \in Int /\ Max(S) >= n /\ Max(S) <= n
  BY <1>2
<1> QED
  BY <1>3

(***************************************************************************)
(* FoldLeft goes over a sequence from left to right: what it calls iter is *)
(* defined, for a step F from a value and an element to a value.           *)
(***************************************************************************)
FoldsOver(b, F, t, n, iter) ==
    iter = [s \in SUBSET (1 .. n) |->
              IF s = {} THEN b ELSE F[<<iter[s \ {Max(s)}], t[Max(s)]>>]]

LEMMA FoldExists ==
    ASSUME NEW A, NEW E, NEW F \in [A \X E -> A], NEW b \in A, NEW t \in Seq(E)
    PROVE  \E iter \in [SUBSET DOMAIN t -> A] : FoldsOver(b, F, t, Len(t), iter)
<1>1. Len(t) \in Nat /\ DOMAIN t = 1 .. Len(t) /\ \A i \in 1 .. Len(t) : t[i] \in E
  OBVIOUS
<1> DEFINE P(n) == \E iter \in [SUBSET (1 .. n) -> A] : FoldsOver(b, F, t, n, iter)
           S == {n \in Nat : n <= Len(t) => P(n)}
<1>2. P(0)
  <2> DEFINE iter == [s \in SUBSET (1 .. 0) |-> b]
  <2>1. \A s \in SUBSET (1 .. 0) : s = {}
    OBVIOUS
  <2>2. iter \in [SUBSET (1 .. 0) -> A]
    OBVIOUS
  <2>3. FoldsOver(b, F, t, 0, iter)
    BY <2>1 DEF FoldsOver
  <2> QED
    BY <2>2, <2>3
<1>3. ASSUME NEW n \in Nat, n + 1 <= Len(t), P(n) PROVE P(n + 1)
  <2>1. n + 1 \in 1 .. Len(t)
    BY <1>1, <1>3
  <2>2. PICK old \in [SUBSET (1 .. n) -> A] : FoldsOver(b, F, t, n, old)
    BY <1>3
  <2> DEFINE G(s) == IF n + 1 \in s THEN F[<<old[s \ {n + 1}], t[n + 1]>>] ELSE old[s]
             iter == [s \in SUBSET (1 .. n + 1) |-> G(s)]
  <2>3. ASSUME NEW s \in SUBSET (1 .. n + 1)
        PROVE  /\ s \ {n + 1} \in SUBSET (1 .. n)
               /\ n + 1 \notin s => s \in SUBSET (1 .. n)
               /\ n + 1 \in s => Max(s) = n + 1
    <3>1. \A m \in s : m \in Int /\ m <= n + 1
      OBVIOUS
    <3>2. n + 1 \in s => Max(s) = n + 1
      BY <3>1, MaxMeans
    <3>3. \A m \in s : m # n + 1 => m \in 1 .. n
      OBVIOUS
    <3> QED
      BY <3>2, <3>3
  <2>4. iter \in [SUBSET (1 .. n + 1) -> A]
    <3>1. ASSUME NEW s \in SUBSET (1 .. n + 1) PROVE G(s) \in A
      <4>1. CASE n + 1 \in s
        <5>1. old[s \ {n + 1}] \in A /\ t[n + 1] \in E
          BY <2>3, <2>1, <1>1
        <5> QED
          BY <5>1, <4>1
      <4>2. CASE n + 1 \notin s
        BY <4>2, <2>3
      <4> QED
        BY <4>1, <4>2
    <3> HIDE DEF G
    <3> QED
      BY <3>1
  <2>5. ASSUME NEW s \in SUBSET (1 .. n + 1)
        PROVE  iter[s] = IF s = {} THEN b ELSE F[<<iter[s \ {Max(s)}], t[Max(s)]>>]
    <3>1. CASE n + 1 \in s
      <4>1. iter[s \ {n + 1}] = old[s \ {n + 1}]
        BY <2>3
      <4> QED
        BY <3>1, <4>1, <2>3
    <3>2. CASE n + 1 \notin s
      <4>1. s \in SUBSET (1 .. n) /\ iter[s] = old[s]
        BY <3>2, <2>3
      <4>2. old[s] = IF s = {} THEN b ELSE F[<<old[s \ {Max(s)}], t[Max(s)]>>]
        BY <4>1, <2>2 DEF FoldsOver
      <4>3. iter[s \ {Max(s)}] = old[s \ {Max(s)}]
        BY <3>2, <4>1
      <4> QED
        BY <4>1, <4>2, <4>3
    <3> QED
      BY <3>1, <3>2
  <2>6. FoldsOver(b, F, t, n + 1, iter)
    <3> HIDE DEF G
    <3> QED
      BY <2>5 DEF FoldsOver
  <2> QED
    BY <2>4, <2>6
<1> HIDE DEF P
<1>4. \A n \in Nat : n \in S
  <2>1. 0 \in S
    BY <1>2
  <2>2. ASSUME NEW n \in Nat, n \in S PROVE n + 1 \in S
    BY <2>2, <1>1, <1>3
  <2> HIDE DEF S
  <2> QED
    BY <2>1, <2>2, SetInduction
<1>5. P(Len(t))
  BY <1>1, <1>4
<1> QED
  BY <1>1, <1>5 DEF P

LEMMA MaxOfPart ==
    ASSUME NEW N \in Nat, NEW s \in SUBSET (1 .. N), s # {}
    PROVE  Max(s) \in s
<1> DEFINE Below == {d \in Nat : \E m \in s : d = N - m}
<1>1. PICK m \in s : TRUE
  OBVIOUS
<1>2. N - m \in Below
  OBVIOUS
<1>3. PICK d \in Below : \A c \in Below : d <= c
  <2>1. Below \subseteq Nat /\ Below # {}
    BY <1>2
  <2> HIDE DEF Below
  <2> QED
    BY <2>1, LeastNumber
<1>4. PICK n \in s : d = N - n
  BY <1>3
<1>5. ASSUME NEW k \in s PROVE k <= n
  <2>1. N - k \in Below /\ N \in Int /\ k \in Int /\ n \in Int
    OBVIOUS
  <2>2. N - n <= N - k
    BY <1>3, <1>4, <2>1
  <2> QED
    BY <2>1, <2>2
<1>6. s \subseteq Int
  OBVIOUS
<1>7. Max(s) = n
  BY <1>5, <1>6, MaxMeans
<1> QED
  BY <1>7

LEMMA LastOfPart ==
    ASSUME NEW N \in Nat, NEW n \in 1 .. N
    PROVE  /\ 1 .. n \in SUBSET (1 .. N) /\ 1 .. n # {}
           /\ Max(1 .. n) = n /\ (1 .. n) \ {n} = 1 .. n - 1
<1>1. 1 .. n \in SUBSET (1 .. N) /\ n \in 1 .. n /\ n \in Nat
  OBVIOUS
<1>2. (1 .. n) \ {n} = 1 .. n - 1
  BY <1>1
<1>3. 1 .. n \subseteq Int /\ \A m \in 1 .. n : m <= n
  BY <1>1
<1>4. Max(1 .. n) = n
  BY <1>1, <1>3, MaxMeans
<1> QED
  BY <1>1, <1>2, <1>4

(***************************************************************************)
(* The values g that a fold goes through, up to r: as long as they are in  *)
(* A, it takes the step F.                                                 *)
(***************************************************************************)
Through(A, b, F, t, g, r) ==
    /\ g \in [0 .. Len(t) -> A] /\ g[0] = b /\ g[Len(t)] = r
    /\ \A n \in 1 .. Len(t) : g[n] = F[<<g[n - 1], t[n]>>]

Steps(A, b, F, t, iter) ==
    /\ iter[{}] = b
    /\ \A n \in 1 .. Len(t) :
          iter[1 .. n - 1] \in A => iter[1 .. n] = F[<<iter[1 .. n - 1], t[n]>>]

LEMMA FoldSteps ==
    ASSUME NEW A, NEW E, NEW F \in [A \X E -> A], NEW b \in A, NEW t \in Seq(E),
           NEW iter, Steps(A, b, F, t, iter)
    PROVE  \E g : Through(A, b, F, t, g, iter[DOMAIN t])
<1> DEFINE g == [n \in 0 .. Len(t) |-> iter[1 .. n]]
           S == {n \in Nat : n <= Len(t) => iter[1 .. n] \in A}
<1>1. Len(t) \in Nat /\ DOMAIN t = 1 .. Len(t) /\ \A i \in 1 .. Len(t) : t[i] \in E
  OBVIOUS
<1>2. 1 .. 0 = {}
  OBVIOUS
<1>3. \A n \in Nat : n \in S
  <2>1. 0 \in S
    BY <1>2 DEF Steps
  <2>2. ASSUME NEW n \in Nat, n \in S PROVE n + 1 \in S
    <3> SUFFICES ASSUME n + 1 <= Len(t) PROVE iter[1 .. n + 1] \in A
      OBVIOUS
    <3>1. iter[1 .. n] \in A /\ n + 1 \in 1 .. Len(t) /\ (n + 1) - 1 = n
      BY <2>2, <1>1
    <3>2. t[n + 1] \in E /\ iter[1 .. n + 1] = F[<<iter[1 .. n], t[n + 1]>>]
      BY <3>1, <1>1 DEF Steps
    <3> QED
      BY <3>1, <3>2
  <2> HIDE DEF S
  <2> QED
    BY <2>1, <2>2, SetInduction
<1>4. g \in [0 .. Len(t) -> A] /\ g[0] = b
  BY <1>1, <1>2, <1>3 DEF Steps
<1>5. ASSUME NEW n \in 1 .. Len(t) PROVE g[n] = F[<<g[n - 1], t[n]>>]
  <2>1. n - 1 \in 0 .. Len(t) /\ n \in 0 .. Len(t) /\ n - 1 \in Nat
    BY <1>1
  <2>2. iter[1 .. n - 1] \in A
    BY <1>3, <2>1
  <2> QED
    BY <2>1, <2>2 DEF Steps
<1>6. g[Len(t)] = iter[DOMAIN t]
  BY <1>1
<1> QED
  BY <1>4, <1>5, <1>6 DEF Through

-----------------------------------------------------------------------------
(* Sequences.                                                              *)

(***************************************************************************)
(* A set of sequences has them all if it has <<>> and with each sequence   *)
(* those that are longer by one element.                                   *)
(***************************************************************************)
LEMMA TextInduction ==
    ASSUME NEW E, NEW S, <<>> \in S,
           \A t \in Seq(E), e \in E : t \in S => Append(t, e) \in S
    PROVE  \A t \in Seq(E) : t \in S
<1> DEFINE N == {n \in Nat : \A t \in Seq(E) : Len(t) = n => t \in S}
<1>1. 0 \in N
  <2>1. \A t \in Seq(E) : Len(t) = 0 => t = <<>>
    BY EmptySeq
  <2> QED
    BY <2>1
<1>2. ASSUME NEW n \in Nat, n \in N PROVE n + 1 \in N
  <2>1. ASSUME NEW t \in Seq(E), Len(t) = n + 1 PROVE t \in S
    <3>1. t # <<>>
      BY <2>1, EmptySeq
    <3>2. PICK u \in Seq(E), e \in E : t = Append(u, e)
      BY <3>1, SequenceEmptyOrAppend
    <3>3. Len(u) = n
      BY <3>2, <2>1, AppendProperties
    <3> QED
      BY <1>2, <3>2, <3>3
  <2> QED
    BY <2>1
<1> HIDE DEF N
<1>3. \A n \in Nat : n \in N
  BY <1>1, <1>2, SetInduction
<1>4. ASSUME NEW t \in Seq(E) PROVE t \in S
  <2>1. Len(t) \in Nat
    OBVIOUS
  <2> QED
    BY <1>3, <2>1 DEF N
<1> QED
  BY <1>4

(***************************************************************************)
(* Two folds with the same step: where the sequences agree, so do the      *)
(* values.  One more element is one more step.                             *)
(***************************************************************************)
LEMMA FoldEmpty ==
    ASSUME NEW A, NEW b, NEW F, NEW g, NEW r, Through(A, b, F, <<>>, g, r)
    PROVE  r = b
<1>1. Len(<<>>) = 0
  BY EmptySeq
<1> QED
  BY <1>1 DEF Through

LEMMA FoldAppend ==
    ASSUME NEW A, NEW E, NEW b, NEW F, NEW t \in Seq(E), NEW e \in E,
           NEW g, NEW r, Through(A, b, F, t, g, r),
           NEW h, NEW q, Through(A, b, F, Append(t, e), h, q)
    PROVE  r \in A /\ q = F[<<r, e>>]
<1> DEFINE u == Append(t, e)
           S == {n \in Nat : n <= Len(t) => g[n] = h[n]}
<1>1. /\ Len(t) \in Nat /\ Len(u) = Len(t) + 1
      /\ u[Len(t) + 1] = e /\ \A n \in 1 .. Len(t) : u[n] = t[n]
  BY AppendProperties
<1> HIDE DEF u
<1>2. Through(A, b, F, u, h, q)
  BY DEF u
<1>3. 0 \in S
  BY <1>2 DEF Through
<1>4. ASSUME NEW n \in Nat, n \in S PROVE n + 1 \in S
  <2> SUFFICES ASSUME n + 1 <= Len(t) PROVE g[n + 1] = h[n + 1]
    OBVIOUS
  <2>1. n + 1 \in 1 .. Len(t) /\ n + 1 \in 1 .. Len(u) /\ (n + 1) - 1 = n /\ n <= Len(t)
    BY <1>1
  <2>2. g[n + 1] = F[<<g[n], t[n + 1]>>]
    BY <2>1 DEF Through
  <2>3. h[n + 1] = F[<<h[n], u[n + 1]>>]
    BY <2>1, <1>2 DEF Through
  <2> QED
    BY <1>1, <1>4, <2>1, <2>2, <2>3
<1> HIDE DEF S
<1>5. \A n \in Nat : n \in S
  BY <1>3, <1>4, SetInduction
<1>6. h[Len(t)] = r /\ r \in A
  BY <1>1, <1>5 DEF S, Through
<1>7. q = F[<<h[Len(t)], e>>]
  <2>1. Len(u) \in 1 .. Len(u) /\ Len(u) - 1 = Len(t)
    BY <1>1
  <2> QED
    BY <1>1, <1>2, <2>1 DEF Through
<1> QED
  BY <1>6, <1>7
=============================================================================
