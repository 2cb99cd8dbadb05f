---------------------------- MODULE ConfFileProofs ----------------------------
(***************************************************************************)
(* A config file of any length, with any snapshots and keys: Parse reads   *)
(* each section where it is (ConfFile's SectionsRight), what it reads      *)
(* survives Format and Parse (Reparse), a Plain text Parse and Format      *)
(* (RoundTrip), and the fake node's commands set what they say             *)
(* (FakeNode's SetMerges).                                                 *)
(***************************************************************************)
EXTENDS FakeNode, FoldProofs

-----------------------------------------------------------------------------
(* The invariant of the scan, in the text t and the scan's state s.        *)

\* The last header of all, or 0.
LastOfAll(t) == CHOOSE h \in HeadersIn(t) \cup {0} : \A j \in HeadersIn(t) \cup {0} : j <= h

PendingLines(t) ==
    IF LastHeader(t, "PENDING") = 0 THEN {} ELSE Body(t, LastHeader(t, "PENDING"))

\* Lines, sections and states of the scan, for options of the keys K: Parse
\* minds no key, and the fake node writes some that no seed has.
LinesOver(K) ==
    [kind : {"comment"}, text : Texts \cup {NoText}]
    \cup [kind : {"header"}, name : Names \cup {"", "PENDING"}]
    \cup [kind : {"option"}, key : K, value : Values]
    \cup {Junk, Blank, Long}

HashLines(K) == {l \in LinesOver(K) : HasHash(l)}

Distinct(ks) == \A i, j \in DOMAIN ks : ks[i] = ks[j] => i = j

Sections(K) ==
    {sec \in [keys : Seq(K), values : UNION {[ks -> Values] : ks \in SUBSET K}] :
        DOMAIN sec.values = ToSet(sec.keys) /\ Distinct(sec.keys)}

States(K) ==
    [description : Seq(HashLines(K)), inDescription : BOOLEAN,
     current : Sections(K), pending : Sections(K),
     snapshots : UNION {[ns -> Sections(K)] : ns \in SUBSET Names},
     cur : Sections(K), target : {"current", "pending", "none"}, name : Names \cup {""}]

\* The description lasts until a line that is neither '#' nor empty.
Begun(t) == \E j \in DOMAIN t : ~HasHash(t[j]) /\ t[j] # Blank

\* Whose section it is that is being read.
ReadsSection(t, s) ==
    LET h == LastOfAll(t)
    IN  /\ h = 0 => s.name = "" /\ s.target = "current"
        /\ h # 0 /\ t[h].name = "PENDING" => s.name = "" /\ s.target = "pending"
        /\ h # 0 /\ t[h].name # "PENDING" => s.name = t[h].name /\ s.target = "none"

\* It holds what was read of it, and each other section is where it belongs.
SectionsKept(t, s) ==
    /\ Holds(s.cur, t, Body(t, LastOfAll(t)))
    /\ LastOfAll(t) # 0 => Holds(s.current, t, Body(t, 0))
    /\ s.target # "pending" => Holds(s.pending, t, PendingLines(t))
    /\ DOMAIN s.snapshots \cup ({s.name} \ {""}) = {n \in Names : LastHeader(t, n) # 0}
    /\ \A n \in DOMAIN s.snapshots \ {s.name} :
          Holds(s.snapshots[n], t, Body(t, LastHeader(t, n)))

Placed(t, s) == ReadsSection(t, s) /\ SectionsKept(t, s)

-----------------------------------------------------------------------------
(* Numbers of lines.                                                       *)

(***************************************************************************)
(* A set of naturals with a bound has a greatest.                          *)
(***************************************************************************)
LEMMA GreatestLine ==
    ASSUME NEW N \in Nat, NEW S, S \subseteq 0 .. N, S # {}
    PROVE  \E n \in S : \A m \in S : m <= n
<1> DEFINE Below == {d \in Nat : \E n \in S : d = N - n}
<1>1. Below \subseteq Nat /\ Below # {}
  <2>1. PICK n \in S : n \in 0 .. N
    OBVIOUS
  <2>2. N - n \in Below
    BY <2>1
  <2> QED
    BY <2>2
<1>2. PICK d \in Below : \A c \in Below : d <= c
  BY <1>1, LeastNumber
<1>3. PICK n \in S : d = N - n
  BY <1>2
<1>4. ASSUME NEW m \in S PROVE m <= n
  <2>1. m \in 0 .. N /\ n \in 0 .. N /\ N - m \in Below
    OBVIOUS
  <2>2. d <= N - m
    BY <2>1, <1>2
  <2> QED
    BY <2>1, <2>2, <1>3
<1> QED
  BY <1>4

-----------------------------------------------------------------------------
(* Lines and texts.                                                        *)

(***************************************************************************)
(* What there is on a line, by its kind.                                   *)
(***************************************************************************)
LEMMA LineKinds ==
    ASSUME NEW K, NEW l \in LinesOver(K)
    PROVE  /\ l.kind \in {"comment", "header", "option", "junk", "blank", "long"}
           /\ l.kind = "blank" <=> l = Blank
           /\ l.kind = "long" <=> l = Long
           /\ l.kind = "header" => l.name \in Names \cup {"", "PENDING"}
           /\ l.kind = "option" => /\ l.key \in K /\ l.value \in Values
                                   /\ l = Option(l.key, l.value)
<1>1. l = Blank => l.kind = "blank"
  BY DEF Blank
<1>2. l = Long => l.kind = "long"
  BY DEF Long
<1>3. CASE l \in [kind : {"comment"}, text : Texts \cup {NoText}]
  <2>1. l.kind = "comment"
    BY <1>3
  <2> QED
    BY <1>1, <1>2, <2>1
<1>4. CASE l \in [kind : {"header"}, name : Names \cup {"", "PENDING"}]
  <2>1. l.kind = "header" /\ l.name \in Names \cup {"", "PENDING"}
    BY <1>4
  <2> QED
    BY <1>1, <1>2, <2>1
<1>5. CASE l \in [kind : {"option"}, key : K, value : Values]
  <2>1. /\ l.kind = "option" /\ l.key \in K /\ l.value \in Values
        /\ l = Option(l.key, l.value)
    BY <1>5 DEF Option
  <2> QED
    BY <1>1, <1>2, <2>1
<1>6. CASE l \in {Junk, Blank, Long}
  <2>1. Junk.kind = "junk" /\ Blank.kind = "blank" /\ Long.kind = "long"
    BY DEF Junk, Blank, Long
  <2>2. CASE l = Junk
    <3>1. l.kind = "junk"
      BY <2>1, <2>2
    <3> QED
      BY <1>1, <1>2, <3>1
  <2>3. CASE l = Blank
    <3>1. l.kind = "blank"
      BY <2>1, <2>3
    <3> QED
      BY <1>1, <1>2, <2>3, <3>1
  <2>4. CASE l = Long
    <3>1. l.kind = "long"
      BY <2>1, <2>4
    <3> QED
      BY <1>1, <1>2, <2>4, <3>1
  <2> QED
    BY <1>6, <2>2, <2>3, <2>4
<1> QED
  BY <1>3, <1>4, <1>5, <1>6 DEF LinesOver

(***************************************************************************)
(* A text with one line more.                                              *)
(***************************************************************************)
LEMMA OneLineMore ==
    ASSUME NEW K, NEW t \in Seq(LinesOver(K)), NEW l \in LinesOver(K)
    PROVE  /\ Append(t, l) \in Seq(LinesOver(K))
           /\ Len(t) \in Nat /\ Len(Append(t, l)) = Len(t) + 1
           /\ DOMAIN t = 1 .. Len(t)
           /\ DOMAIN Append(t, l) = 1 .. Len(t) + 1
           /\ \A i \in DOMAIN t : Append(t, l)[i] = t[i]
           /\ Append(t, l)[Len(t) + 1] = l
           /\ HeadersIn(Append(t, l))
                  = HeadersIn(t) \cup (IF l.kind = "header" THEN {Len(t) + 1} ELSE {})
<1>1. /\ Append(t, l) \in Seq(LinesOver(K))
      /\ Len(t) \in Nat /\ Len(Append(t, l)) = Len(t) + 1
      /\ DOMAIN t = 1 .. Len(t)
      /\ DOMAIN Append(t, l) = 1 .. Len(t) + 1
      /\ \A i \in DOMAIN t : Append(t, l)[i] = t[i]
      /\ Append(t, l)[Len(t) + 1] = l
  OBVIOUS
<1> DEFINE u == Append(t, l)
<1> HIDE DEF u
<1>2. /\ Len(t) \in Nat /\ DOMAIN t = 1 .. Len(t) /\ DOMAIN u = 1 .. Len(t) + 1
      /\ \A i \in DOMAIN t : u[i] = t[i]
      /\ u[Len(t) + 1] = l
  BY <1>1 DEF u
<1>3. HeadersIn(u) = HeadersIn(t) \cup (IF l.kind = "header" THEN {Len(t) + 1} ELSE {})
  <2>1. DOMAIN u = DOMAIN t \cup {Len(t) + 1}
    BY <1>2
  <2> QED
    BY <1>2, <2>1 DEF HeadersIn
<1> QED
  BY <1>1, <1>3 DEF u

InBody(t, i) == \E j \in DOMAIN t : j <= i /\ ~HasHash(t[j]) /\ t[j] # Blank

(***************************************************************************)
(* The lines from BodyStart on have one that is neither '#' nor empty      *)
(* among themselves and those above.                                       *)
(***************************************************************************)
LEMMA BodyStartMeans ==
    ASSUME NEW K, NEW t \in Seq(LinesOver(K)), NEW i \in DOMAIN t
    PROVE  i >= BodyStart(t) <=> InBody(t, i)
<1> DEFINE body == {j \in DOMAIN t : ~HasHash(t[j]) /\ t[j] # Blank}
<1>1. /\ DOMAIN t = 1 .. Len(t) /\ Len(t) \in Nat /\ body \subseteq DOMAIN t
  OBVIOUS
<1>2. BodyStart(t) = IF body = {} THEN Len(t) + 1
                     ELSE CHOOSE j \in body : \A k \in body : j <= k
  BY DEF BodyStart
<1>3. InBody(t, i) <=> \E j \in body : j <= i
  BY DEF InBody
<1> HIDE DEF body
<1>4. CASE body = {}
  BY <1>1, <1>2, <1>3, <1>4
<1>5. CASE body # {}
  <2>1. \E j \in body : \A k \in body : j <= k
    BY <1>1, <1>5, LeastNumber
  <2>2. BodyStart(t) \in body /\ \A k \in body : BodyStart(t) <= k
    BY <1>2, <1>5, <2>1
  <2> QED
    BY <1>1, <1>3, <2>2
<1> QED
  BY <1>4, <1>5

LEMMA BodyMeans ==
    ASSUME NEW K, NEW t \in Seq(LinesOver(K)), NEW h
    PROVE  Body(t, h) = {i \in DOMAIN t : /\ i > h /\ InBody(t, i) /\ t[i].kind = "option"
                                          /\ \A j \in HeadersIn(t) : j > h => i < j}
BY BodyStartMeans DEF Body

(***************************************************************************)
(* The last header is one of the headers, none is after it, and no other   *)
(* line is so; the same of the headers of one name.                        *)
(***************************************************************************)
LEMMA LastOfAllMeans ==
    ASSUME NEW K, NEW t \in Seq(LinesOver(K))
    PROVE  /\ LastOfAll(t) \in HeadersIn(t) \cup {0}
           /\ LastOfAll(t) \in 0 .. Len(t)
           /\ \A j \in HeadersIn(t) : j <= LastOfAll(t)
           /\ \A h \in HeadersIn(t) \cup {0} :
                 (\A j \in HeadersIn(t) \cup {0} : j <= h) => LastOfAll(t) = h
<1> DEFINE hs == HeadersIn(t) \cup {0}
<1>1. Len(t) \in Nat /\ hs \subseteq 0 .. Len(t) /\ hs # {}
  BY DEF HeadersIn
<1>2. LastOfAll(t) = CHOOSE h \in hs : \A j \in hs : j <= h
  BY DEF LastOfAll
<1>3. HeadersIn(t) \subseteq hs
  OBVIOUS
<1> HIDE DEF hs
<1>4. \E h \in hs : \A j \in hs : j <= h
  BY <1>1, GreatestLine
<1>5. LastOfAll(t) \in hs /\ \A j \in hs : j <= LastOfAll(t)
  BY <1>2, <1>4
<1>6. ASSUME NEW h \in hs, \A j \in hs : j <= h PROVE LastOfAll(t) = h
  <2>1. h \in 0 .. Len(t) /\ LastOfAll(t) \in 0 .. Len(t)
    BY <1>1, <1>5, Zenon
  <2>2. h <= LastOfAll(t) /\ LastOfAll(t) <= h
    BY <1>5, <1>6
  <2> QED
    BY <2>1, <2>2
<1> QED
  BY <1>1, <1>3, <1>5, <1>6 DEF hs

LEMMA LastHeaderMeans ==
    ASSUME NEW K, NEW t \in Seq(LinesOver(K)), NEW n
    PROVE  LET hs == {i \in HeadersIn(t) : t[i].name = n} \cup {0}
           IN  /\ LastHeader(t, n) \in hs
               /\ LastHeader(t, n) \in 0 .. Len(t)
               /\ \A j \in hs : j <= LastHeader(t, n)
               /\ \A h \in hs : (\A j \in hs : j <= h) => LastHeader(t, n) = h
<1> DEFINE hs == {i \in HeadersIn(t) : t[i].name = n} \cup {0}
<1>1. Len(t) \in Nat /\ hs \subseteq 0 .. Len(t) /\ hs # {}
  BY DEF HeadersIn
<1>2. LastHeader(t, n) = CHOOSE h \in hs : \A j \in hs : j <= h
  BY DEF LastHeader
<1> HIDE DEF hs
<1>3. \E h \in hs : \A j \in hs : j <= h
  BY <1>1, GreatestLine
<1>4. LastHeader(t, n) \in hs /\ \A j \in hs : j <= LastHeader(t, n)
  BY <1>2, <1>3
<1>5. ASSUME NEW h \in hs, \A j \in hs : j <= h PROVE LastHeader(t, n) = h
  <2>1. h \in 0 .. Len(t) /\ LastHeader(t, n) \in 0 .. Len(t)
    BY <1>1, <1>4, Zenon
  <2>2. h <= LastHeader(t, n) /\ LastHeader(t, n) <= h
    BY <1>4, <1>5
  <2> QED
    BY <2>1, <2>2
<1> QED
  BY <1>1, <1>4, <1>5 DEF hs

-----------------------------------------------------------------------------
(* What one line more changes.                                             *)

LEMMA InBodyAfter ==
    ASSUME NEW K, NEW t \in Seq(LinesOver(K)), NEW l \in LinesOver(K)
    PROVE  /\ \A i \in DOMAIN t : InBody(Append(t, l), i) <=> InBody(t, i)
           /\ InBody(Append(t, l), Len(t) + 1) <=> Begun(t) \/ (~HasHash(l) /\ l # Blank)
           /\ Begun(Append(t, l)) <=> Begun(t) \/ (~HasHash(l) /\ l # Blank)
<1> DEFINE u == Append(t, l)
<1>1. /\ Len(t) \in Nat /\ DOMAIN t = 1 .. Len(t) /\ DOMAIN u = 1 .. Len(t) + 1
      /\ \A i \in DOMAIN t : u[i] = t[i]
      /\ u[Len(t) + 1] = l
  BY OneLineMore
<1> HIDE DEF u
<1>2. DOMAIN u = DOMAIN t \cup {Len(t) + 1}
  BY <1>1
<1>3. \A i \in DOMAIN t : InBody(u, i) <=> InBody(t, i)
  BY <1>1, <1>2 DEF InBody
<1>4. InBody(u, Len(t) + 1) <=> Begun(t) \/ (~HasHash(l) /\ l # Blank)
  BY <1>1, <1>2 DEF InBody, Begun
<1>5. Begun(u) <=> Begun(t) \/ (~HasHash(l) /\ l # Blank)
  BY <1>1, <1>2 DEF Begun
<1> QED
  BY <1>3, <1>4, <1>5 DEF u

LEMMA LastOfAllAfter ==
    ASSUME NEW K, NEW t \in Seq(LinesOver(K)), NEW l \in LinesOver(K)
    PROVE  LastOfAll(Append(t, l)) = IF l.kind = "header" THEN Len(t) + 1 ELSE LastOfAll(t)
<1> DEFINE u == Append(t, l)
           h == IF l.kind = "header" THEN Len(t) + 1 ELSE LastOfAll(t)
<1>1. /\ u \in Seq(LinesOver(K)) /\ Len(t) \in Nat /\ DOMAIN t = 1 .. Len(t)
      /\ HeadersIn(u) = HeadersIn(t) \cup (IF l.kind = "header" THEN {Len(t) + 1} ELSE {})
      /\ HeadersIn(t) \subseteq DOMAIN t
  BY OneLineMore DEF HeadersIn
<1>2. /\ LastOfAll(t) \in HeadersIn(t) \cup {0} /\ LastOfAll(t) \in 0 .. Len(t)
      /\ \A j \in HeadersIn(t) : j <= LastOfAll(t)
  BY LastOfAllMeans
<1>3. h \in HeadersIn(u) \cup {0} /\ \A j \in HeadersIn(u) \cup {0} : j <= h
  BY <1>1, <1>2
<1> HIDE DEF u, h
<1>4. LastOfAll(u) = h
  BY <1>1, <1>3, LastOfAllMeans
<1> QED
  BY <1>4 DEF u, h

LEMMA LastHeaderAfter ==
    ASSUME NEW K, NEW t \in Seq(LinesOver(K)), NEW l \in LinesOver(K),
           NEW n
    PROVE  LastHeader(Append(t, l), n)
             = IF l.kind = "header" /\ l.name = n THEN Len(t) + 1 ELSE LastHeader(t, n)
<1> DEFINE u == Append(t, l)
           h == IF l.kind = "header" /\ l.name = n THEN Len(t) + 1 ELSE LastHeader(t, n)
           was == {i \in HeadersIn(t) : t[i].name = n} \cup {0}
           is  == {i \in HeadersIn(u) : u[i].name = n} \cup {0}
<1>1. /\ u \in Seq(LinesOver(K)) /\ Len(t) \in Nat /\ DOMAIN t = 1 .. Len(t)
      /\ HeadersIn(u) = HeadersIn(t) \cup (IF l.kind = "header" THEN {Len(t) + 1} ELSE {})
      /\ HeadersIn(t) \subseteq DOMAIN t
      /\ \A i \in DOMAIN t : u[i] = t[i]
      /\ u[Len(t) + 1] = l
  BY OneLineMore DEF HeadersIn
<1> HIDE DEF u
<1>2. is = was \cup (IF l.kind = "header" /\ l.name = n THEN {Len(t) + 1} ELSE {})
  BY <1>1
<1>3. was \subseteq 0 .. Len(t)
  BY <1>1
<1>4. LastHeader(t, n) \in was /\ \A j \in was : j <= LastHeader(t, n)
  BY LastHeaderMeans
<1>5. \A i \in is : (\A j \in is : j <= i) => LastHeader(u, n) = i
  BY <1>1, LastHeaderMeans
<1> HIDE DEF was, is
<1>6. h \in is /\ \A j \in is : j <= h
  BY <1>1, <1>2, <1>3, <1>4
<1> HIDE DEF h
<1>7. LastHeader(u, n) = h
  BY <1>5, <1>6
<1> QED
  BY <1>7 DEF u, h

(***************************************************************************)
(* An option line belongs to the section of the last header, unless it is  *)
(* one of the description; no other line belongs to any.                   *)
(***************************************************************************)
LEMMA BodyAfter ==
    ASSUME NEW K, NEW t \in Seq(LinesOver(K)), NEW l \in LinesOver(K),
           NEW h \in 0 .. Len(t)
    PROVE  Body(Append(t, l), h)
             = IF /\ l.kind = "option" /\ LastOfAll(t) <= h
                  /\ Begun(t) \/ ~HasHash(l)
               THEN Body(t, h) \cup {Len(t) + 1}
               ELSE Body(t, h)
<1> DEFINE u == Append(t, l)
           N == Len(t) + 1
           reads == /\ l.kind = "option" /\ LastOfAll(t) <= h
                    /\ Begun(t) \/ ~HasHash(l)
<1>1. /\ u \in Seq(LinesOver(K)) /\ Len(t) \in Nat /\ DOMAIN t = 1 .. Len(t)
      /\ DOMAIN u = DOMAIN t \cup {N}
      /\ HeadersIn(u) = HeadersIn(t) \cup (IF l.kind = "header" THEN {N} ELSE {})
      /\ HeadersIn(t) \subseteq DOMAIN t
      /\ \A i \in DOMAIN t : u[i] = t[i]
      /\ u[N] = l
  BY OneLineMore DEF HeadersIn
<1>2. /\ \A i \in DOMAIN t : InBody(u, i) <=> InBody(t, i)
      /\ InBody(u, N) <=> Begun(t) \/ (~HasHash(l) /\ l # Blank)
  BY InBodyAfter
<1>3. /\ LastOfAll(t) \in HeadersIn(t) \cup {0} /\ LastOfAll(t) \in 0 .. Len(t)
      /\ \A j \in HeadersIn(t) : j <= LastOfAll(t)
  BY LastOfAllMeans
<1>4. l.kind = "option" => l # Blank
  BY LineKinds
<1> HIDE DEF u, N
<1>5. ASSUME NEW i \in DOMAIN t PROVE i \in Body(u, h) <=> i \in Body(t, h)
  <2>1. i < N
    BY <1>1 DEF N
  <2>2. (\A j \in HeadersIn(u) : j > h => i < j) <=> (\A j \in HeadersIn(t) : j > h => i < j)
    BY <1>1, <2>1
  <2>3. i \in DOMAIN u /\ u[i] = t[i]
    BY <1>1
  <2> QED
    BY <1>1, <1>2, <2>2, <2>3, BodyMeans
<1>6. N \in Body(u, h) <=> reads
  <2>1. N > h /\ N \in DOMAIN u /\ \A j \in DOMAIN t : ~(N < j)
    BY <1>1 DEF N
  <2>2. l.kind = "option" => ((\A j \in HeadersIn(u) : j > h => N < j) <=> LastOfAll(t) <= h)
    <3> SUFFICES ASSUME l.kind = "option"
                 PROVE  (\A j \in HeadersIn(u) : j > h => N < j) <=> LastOfAll(t) <= h
      OBVIOUS
    <3>1. HeadersIn(u) = HeadersIn(t)
      BY <1>1
    <3>2. ASSUME LastOfAll(t) <= h PROVE \A j \in HeadersIn(u) : j > h => N < j
      BY <1>1, <1>3, <3>1, <3>2
    <3>3. ASSUME ~(LastOfAll(t) <= h) PROVE ~\A j \in HeadersIn(u) : j > h => N < j
      <4>1. LastOfAll(t) > h /\ LastOfAll(t) # 0
        BY <1>3, <3>3
      <4>2. LastOfAll(t) \in HeadersIn(u)
        BY <1>3, <3>1, <4>1
      <4>3. ~(N < LastOfAll(t))
        BY <1>1, <2>1, <3>1, <4>2
      <4> QED
        BY <4>1, <4>2, <4>3
    <3> QED
      BY <3>2, <3>3
  <2> QED
    BY <1>1, <1>2, <1>4, <2>1, <2>2, BodyMeans
<1>7. Body(u, h) \subseteq DOMAIN t \cup {N} /\ Body(t, h) \subseteq DOMAIN t
  BY <1>1 DEF Body
<1>8. N \notin DOMAIN t
  BY <1>1 DEF N
<1> HIDE DEF reads
<1>9. Body(u, h) = IF reads THEN Body(t, h) \cup {N} ELSE Body(t, h)
  BY <1>5, <1>6, <1>7, <1>8
<1> QED
  BY <1>9 DEF u, N, reads

LEMMA BodyOfLast ==
    ASSUME NEW K, NEW t \in Seq(LinesOver(K))
    PROVE  Body(t, Len(t)) = {}
BY DEF Body

-----------------------------------------------------------------------------
(* What a section holds.                                                   *)

LeastOf(S)    == CHOOSE i \in S : \A j \in S : i <= j
GreatestOf(S) == CHOOSE i \in S : \A j \in S : i >= j

With(t, ls, k) == {i \in ls : t[i].key = k}

LEMMA HoldsMeans ==
    ASSUME NEW sec, NEW t, NEW ls
    PROVE  Holds(sec, t, ls) <=>
             /\ ToSet(sec.keys) = {t[i].key : i \in ls}
             /\ DOMAIN sec.values = ToSet(sec.keys)
             /\ \A i, j \in DOMAIN sec.keys :
                   i < j => LeastOf(With(t, ls, sec.keys[i])) < LeastOf(With(t, ls, sec.keys[j]))
             /\ \A k \in ToSet(sec.keys) :
                   sec.values[k] = t[GreatestOf(With(t, ls, k))].value
BY DEF Holds, LeastOf, GreatestOf, With

LEMMA LeastOfMeans ==
    ASSUME NEW S, S \subseteq Nat, NEW n \in S, \A m \in S : n <= m
    PROVE  LeastOf(S) = n
<1>1. LeastOf(S) \in S /\ \A m \in S : LeastOf(S) <= m
  BY DEF LeastOf
<1>2. n \in Nat /\ LeastOf(S) \in Nat
  BY <1>1
<1>3. n <= LeastOf(S) /\ LeastOf(S) <= n
  BY <1>1
<1> QED
  BY <1>2, <1>3

LEMMA GreatestOfMeans ==
    ASSUME NEW S, S \subseteq Nat, NEW n \in S, \A m \in S : m <= n
    PROVE  GreatestOf(S) = n
<1>0. \A m \in S : n >= m
  OBVIOUS
<1>1. GreatestOf(S) \in S /\ \A m \in S : GreatestOf(S) >= m
  BY <1>0 DEF GreatestOf
<1>2. n \in Nat /\ GreatestOf(S) \in Nat
  BY <1>1
<1>3. GreatestOf(S) <= n /\ GreatestOf(S) >= n
  BY <1>1
<1> QED
  BY <1>2, <1>3

LEMMA HoldsEmpty ==
    ASSUME NEW t
    PROVE  Holds(EmptySection, t, {})
<1>1. EmptySection.keys = <<>> /\ EmptySection.values = <<>>
  BY DEF EmptySection
<1>2. DOMAIN EmptySection.keys = {} /\ DOMAIN EmptySection.values = {}
  BY <1>1
<1>3. ToSet(EmptySection.keys) = {}
  BY <1>2 DEF ToSet
<1> QED
  BY <1>2, <1>3, HoldsMeans

(***************************************************************************)
(* What a section holds of the lines it has read stays so as the text      *)
(* grows.                                                                  *)
(***************************************************************************)
LEMMA HoldsAfter ==
    ASSUME NEW K, NEW t \in Seq(LinesOver(K)), NEW l \in LinesOver(K),
           NEW ls \in SUBSET DOMAIN t, NEW sec,
           Holds(sec, t, ls)
    PROVE  Holds(sec, Append(t, l), ls)
<1> DEFINE u == Append(t, l)
<1>1. \A i \in ls : u[i] = t[i]
  BY OneLineMore
<1> HIDE DEF u
<1>2. \A k : With(u, ls, k) = With(t, ls, k)
  BY <1>1 DEF With
<1>3. {u[i].key : i \in ls} = {t[i].key : i \in ls}
  BY <1>1
<1>4. ASSUME NEW k \in ToSet(sec.keys)
      PROVE  u[GreatestOf(With(u, ls, k))] = t[GreatestOf(With(t, ls, k))]
  <2>1. DOMAIN t \subseteq 0 .. Len(t) /\ DOMAIN t \subseteq Nat /\ Len(t) \in Nat
    BY OneLineMore
  <2>2. \E i \in ls : t[i].key = k
    BY <1>4, HoldsMeans
  <2>3. With(t, ls, k) # {} /\ With(t, ls, k) \subseteq ls
    BY <2>2 DEF With
  <2>4. PICK n \in With(t, ls, k) : \A m \in With(t, ls, k) : m <= n
    BY <2>1, <2>3, GreatestLine
  <2>5. GreatestOf(With(t, ls, k)) = n
    BY <2>1, <2>3, <2>4, GreatestOfMeans
  <2> QED
    BY <1>1, <1>2, <2>3, <2>5
<1>5. Holds(sec, u, ls)
  <2>1. /\ ToSet(sec.keys) = {u[i].key : i \in ls}
        /\ DOMAIN sec.values = ToSet(sec.keys)
    BY <1>3, HoldsMeans
  <2>2. \A i, j \in DOMAIN sec.keys :
          i < j => LeastOf(With(u, ls, sec.keys[i])) < LeastOf(With(u, ls, sec.keys[j]))
    BY <1>2, HoldsMeans
  <2>3. \A k \in ToSet(sec.keys) : sec.values[k] = u[GreatestOf(With(u, ls, k))].value
    BY <1>4, HoldsMeans
  <2> QED
    BY <2>1, <2>2, <2>3, HoldsMeans
<1> QED
  BY <1>5 DEF u

(***************************************************************************)
(* Section.set: one option line more, in the section it is read into.      *)
(***************************************************************************)
LEMMA HoldsSet ==
    ASSUME NEW K, NEW t \in Seq(LinesOver(K)), NEW l \in LinesOver(K),
           l.kind = "option",
           NEW ls \in SUBSET DOMAIN t, NEW sec \in Sections(K), Holds(sec, t, ls)
    PROVE  Holds(Set(sec, l.key, l.value), Append(t, l), ls \cup {Len(t) + 1})
<1> DEFINE u   == Append(t, l)
           N   == Len(t) + 1
           ms  == ls \cup {N}
           new == Set(sec, l.key, l.value)
<1>1. /\ Len(t) \in Nat /\ N \in Nat /\ ls \subseteq 0 .. Len(t) /\ ls \subseteq Nat
      /\ \A i \in ls : u[i] = t[i] /\ i < N
      /\ u[N] = l
  BY OneLineMore
<1>2. /\ new.keys = IF l.key \in DOMAIN sec.values THEN sec.keys ELSE Append(sec.keys, l.key)
      /\ DOMAIN new.values = DOMAIN sec.values \cup {l.key}
      /\ new.values[l.key] = l.value
      /\ \A k \in DOMAIN sec.values : k # l.key => new.values[k] = sec.values[k]
  BY DEF Set, Value
<1>3. /\ ToSet(sec.keys) = {t[i].key : i \in ls}
      /\ DOMAIN sec.values = ToSet(sec.keys)
      /\ \A i, j \in DOMAIN sec.keys :
            i < j => LeastOf(With(t, ls, sec.keys[i])) < LeastOf(With(t, ls, sec.keys[j]))
      /\ \A k \in ToSet(sec.keys) : sec.values[k] = t[GreatestOf(With(t, ls, k))].value
  BY HoldsMeans
<1>4. sec.keys \in Seq(K)
  BY DEF Sections
<1> HIDE DEF u, N, new
<1>5. N \notin ls
  BY <1>1
<1>6. /\ \A k : k # l.key => With(u, ms, k) = With(t, ls, k)
      /\ With(u, ms, l.key) = With(t, ls, l.key) \cup {N}
      /\ \A k : With(t, ls, k) \subseteq ls
  BY <1>1, <1>5 DEF With
<1>7. {u[i].key : i \in ms} = ToSet(sec.keys) \cup {l.key}
  BY <1>1, <1>3
<1>8. ToSet(new.keys) = ToSet(sec.keys) \cup {l.key}
  <2>1. CASE l.key \in DOMAIN sec.values
    BY <1>2, <1>3, <2>1
  <2>2. CASE l.key \notin DOMAIN sec.values
    <3>1. /\ new.keys = Append(sec.keys, l.key)
          /\ DOMAIN new.keys = DOMAIN sec.keys \cup {Len(sec.keys) + 1}
          /\ \A i \in DOMAIN sec.keys : new.keys[i] = sec.keys[i]
          /\ new.keys[Len(sec.keys) + 1] = l.key
      BY <1>2, <1>4, <2>2
    <3> QED
      BY <3>1 DEF ToSet
  <2> QED
    BY <2>1, <2>2
\* The lines of a key that was there: where the first of them is, and the last.
<1>9. ASSUME NEW k \in ToSet(sec.keys)
      PROVE  /\ LeastOf(With(u, ms, k)) = LeastOf(With(t, ls, k))
             /\ LeastOf(With(u, ms, k)) \in ls
             /\ k # l.key => u[GreatestOf(With(u, ms, k))] = t[GreatestOf(With(t, ls, k))]
  <2>1. With(t, ls, k) # {}
    BY <1>3, <1>9 DEF With
  <2>2. PICK n \in With(t, ls, k) : \A m \in With(t, ls, k) : n <= m
    BY <1>1, <1>6, <2>1, LeastNumber
  <2>3. LeastOf(With(t, ls, k)) = n
    BY <1>1, <1>6, <2>2, LeastOfMeans
  <2>4. LeastOf(With(u, ms, k)) = n
    <3>1. With(u, ms, k) \subseteq Nat /\ n \in With(u, ms, k)
      BY <1>1, <1>6, <2>2
    <3>2. ASSUME NEW m \in With(u, ms, k) PROVE n <= m
      <4>1. n \in ls /\ (m \in With(t, ls, k) \/ m = N)
        BY <1>6, <2>2
      <4> QED
        BY <1>1, <2>2, <4>1
    <3> QED
      BY <3>1, <3>2, LeastOfMeans
  <2>5. ASSUME k # l.key
        PROVE  u[GreatestOf(With(u, ms, k))] = t[GreatestOf(With(t, ls, k))]
    <3>1. PICK m \in With(t, ls, k) : \A i \in With(t, ls, k) : i <= m
      BY <1>1, <1>6, <2>1, GreatestLine
    <3>2. GreatestOf(With(t, ls, k)) = m
      BY <1>1, <1>6, <3>1, GreatestOfMeans
    <3> QED
      BY <1>1, <1>6, <2>5, <3>2
  <2> QED
    BY <1>6, <2>2, <2>3, <2>4, <2>5
<1>10. GreatestOf(With(u, ms, l.key)) = N
  <2>1. With(u, ms, l.key) \subseteq Nat /\ N \in With(u, ms, l.key)
    BY <1>1, <1>6
  <2>2. ASSUME NEW m \in With(u, ms, l.key) PROVE m <= N
    <3>1. m \in ls \/ m = N
      BY <1>6
    <3> QED
      BY <1>1, <3>1
  <2> QED
    BY <2>1, <2>2, GreatestOfMeans
<1>11. l.key \notin ToSet(sec.keys) => LeastOf(With(u, ms, l.key)) = N
  <2> SUFFICES ASSUME l.key \notin ToSet(sec.keys) PROVE LeastOf(With(u, ms, l.key)) = N
    OBVIOUS
  <2>1. With(t, ls, l.key) = {}
    BY <1>3 DEF With
  <2>2. With(u, ms, l.key) = {N}
    BY <1>6, <2>1
  <2>3. {N} \subseteq Nat /\ \A m \in {N} : N <= m
    BY <1>1
  <2> QED
    BY <2>2, <2>3, LeastOfMeans
<1>12. \A i, j \in DOMAIN new.keys :
          i < j => LeastOf(With(u, ms, new.keys[i])) < LeastOf(With(u, ms, new.keys[j]))
  <2> SUFFICES ASSUME NEW i \in DOMAIN new.keys, NEW j \in DOMAIN new.keys, i < j
               PROVE  LeastOf(With(u, ms, new.keys[i])) < LeastOf(With(u, ms, new.keys[j]))
    OBVIOUS
  <2>1. CASE i \in DOMAIN sec.keys /\ j \in DOMAIN sec.keys
    <3>1. new.keys[i] = sec.keys[i] /\ new.keys[j] = sec.keys[j]
      BY <1>2, <1>4, <2>1
    <3>2. sec.keys[i] \in ToSet(sec.keys) /\ sec.keys[j] \in ToSet(sec.keys)
      BY <2>1 DEF ToSet
    <3> QED
      BY <1>3, <1>9, <2>1, <3>1, <3>2
  <2>2. CASE ~(i \in DOMAIN sec.keys /\ j \in DOMAIN sec.keys)
    <3>1. /\ l.key \notin DOMAIN sec.values
          /\ i \in DOMAIN sec.keys /\ new.keys[i] = sec.keys[i] /\ new.keys[j] = l.key
      BY <1>2, <1>4, <2>2
    <3>2. sec.keys[i] \in ToSet(sec.keys)
      BY <3>1 DEF ToSet
    <3>3. LeastOf(With(u, ms, l.key)) = N
      BY <1>3, <1>11, <3>1
    <3> QED
      BY <1>1, <1>9, <3>1, <3>2, <3>3
  <2> QED
    BY <2>1, <2>2
<1>13. \A k \in ToSet(new.keys) : new.values[k] = u[GreatestOf(With(u, ms, k))].value
  <2> SUFFICES ASSUME NEW k \in ToSet(new.keys)
               PROVE  new.values[k] = u[GreatestOf(With(u, ms, k))].value
    OBVIOUS
  <2>1. CASE k = l.key
    BY <1>1, <1>2, <1>10, <2>1
  <2>2. CASE k # l.key
    <3>1. k \in ToSet(sec.keys)
      BY <1>8, <2>2
    <3> QED
      BY <1>2, <1>3, <1>9, <2>2, <3>1
  <2> QED
    BY <2>1, <2>2
<1>14. DOMAIN new.values = ToSet(new.keys)
  BY <1>2, <1>3, <1>8
<1> HIDE DEF ms
<1>15. Holds(new, u, ms)
  BY <1>7, <1>8, <1>12, <1>13, <1>14, HoldsMeans
<1> QED
  BY <1>15 DEF u, N, ms, new

-----------------------------------------------------------------------------
(* The scan's state.                                                       *)

LEMMA EmptyType ==
    ASSUME NEW K
    PROVE  /\ EmptySection \in Sections(K)
           /\ <<>> \in UNION {[ns -> Sections(K)] : ns \in SUBSET Names}
<1>1. ASSUME NEW V PROVE <<>> \in [{} -> V]
  OBVIOUS
<1>2. <<>> \in UNION {[ks -> Values] : ks \in SUBSET K}
  BY <1>1
<1>3. <<>> \in UNION {[ns -> Sections(K)] : ns \in SUBSET Names}
  BY <1>1
<1>4. <<>> \in Seq(K)
  OBVIOUS
<1> DEFINE none == <<>>
<1>5. DOMAIN none = {}
  OBVIOUS
<1> HIDE DEF none
<1>6. ToSet(none) = {} /\ Distinct(none)
  BY <1>5 DEF ToSet, Distinct
<1>7. EmptySection = [keys |-> none, values |-> none]
  BY DEF EmptySection, none
<1>8. none \in Seq(K) /\ none \in UNION {[ks -> Values] : ks \in SUBSET K}
  BY <1>2, <1>4 DEF none
<1>9. EmptySection \in Sections(K)
  BY <1>5, <1>6, <1>7, <1>8 DEF Sections
<1> QED
  BY <1>3, <1>9

(***************************************************************************)
(* Section.set: a key is not there twice.                                  *)
(***************************************************************************)
LEMMA SetType ==
    ASSUME NEW K, NEW sec \in Sections(K), NEW k \in K, NEW w \in Values
    PROVE  Set(sec, k, w) \in Sections(K)
<1>1. PICK ks \in SUBSET K : sec.values \in [ks -> Values]
  BY DEF Sections
<1>2. sec.keys \in Seq(K) /\ DOMAIN sec.values = ToSet(sec.keys) /\ Distinct(sec.keys)
  BY DEF Sections
<1>3. Value(sec, k, w) \in [ks \cup {k} -> Values]
  BY <1>1 DEF Value
<1>4. ks \cup {k} \in SUBSET K
  OBVIOUS
<1>5. Value(sec, k, w) \in UNION {[js -> Values] : js \in SUBSET K}
  BY <1>3, <1>4
<1>6. DOMAIN Value(sec, k, w) = DOMAIN sec.values \cup {k}
  BY DEF Value
<1> DEFINE keys == IF k \in DOMAIN sec.values THEN sec.keys ELSE Append(sec.keys, k)
<1>7. keys \in Seq(K) /\ ToSet(keys) = ToSet(sec.keys) \cup {k} /\ Distinct(keys)
  <2>1. CASE k \in DOMAIN sec.values
    BY <1>2, <2>1
  <2>2. CASE k \notin DOMAIN sec.values
    <3>1. /\ keys = Append(sec.keys, k) /\ keys \in Seq(K)
          /\ Len(sec.keys) \in Nat /\ DOMAIN sec.keys = 1 .. Len(sec.keys)
          /\ DOMAIN keys = DOMAIN sec.keys \cup {Len(sec.keys) + 1}
          /\ \A i \in DOMAIN sec.keys : keys[i] = sec.keys[i]
          /\ keys[Len(sec.keys) + 1] = k
      BY <1>2, <2>2
    <3> HIDE DEF keys
    <3>2. \A i \in DOMAIN sec.keys : sec.keys[i] # k
      BY <1>2, <2>2 DEF ToSet
    <3>3. ToSet(keys) = ToSet(sec.keys) \cup {k}
      BY <3>1 DEF ToSet
    <3>4. Distinct(keys)
      BY <1>2, <3>1, <3>2 DEF Distinct
    <3> QED
      BY <3>1, <3>3, <3>4
  <2> QED
    BY <2>1, <2>2
<1>8. Set(sec, k, w) = [keys |-> keys, values |-> Value(sec, k, w)]
  BY DEF Set
<1> HIDE DEF keys
<1>9. /\ Set(sec, k, w) \in [keys : Seq(K), values : UNION {[js -> Values] : js \in SUBSET K}]
      /\ Set(sec, k, w).keys = keys /\ Set(sec, k, w).values = Value(sec, k, w)
  BY <1>5, <1>7, <1>8
<1> QED
  BY <1>2, <1>6, <1>7, <1>9 DEF Sections

(***************************************************************************)
(* flush: the section that is read goes where it belongs.                  *)
(***************************************************************************)
LEMMA FlushEffect ==
    ASSUME NEW K, NEW s \in States(K)
    PROVE  /\ Flush(s) \in States(K)
           /\ Flush(s).cur = EmptySection
           /\ Flush(s).inDescription = s.inDescription
           /\ Flush(s).current
                = IF s.name = "" /\ s.target = "current" THEN s.cur ELSE s.current
           /\ Flush(s).pending
                = IF s.name = "" /\ s.target = "pending" THEN s.cur ELSE s.pending
           /\ DOMAIN Flush(s).snapshots = DOMAIN s.snapshots \cup ({s.name} \ {""})
           /\ \A n \in DOMAIN s.snapshots \ {s.name} : Flush(s).snapshots[n] = s.snapshots[n]
           /\ s.name # "" => Flush(s).snapshots[s.name] = s.cur
<1> DEFINE held == IF s.name # "" THEN Value([values |-> s.snapshots], s.name, s.cur)
                                  ELSE s.snapshots
<1>1. PICK ns \in SUBSET Names : s.snapshots \in [ns -> Sections(K)]
  BY DEF States
<1>2. /\ s.cur \in Sections(K) /\ s.current \in Sections(K) /\ s.pending \in Sections(K)
      /\ s.name \in Names \cup {""}
  BY DEF States
<1>3. "" \notin Names
  BY SnapshotsAssumption DEF Names
<1>4. /\ held \in UNION {[ks -> Sections(K)] : ks \in SUBSET Names}
      /\ DOMAIN held = DOMAIN s.snapshots \cup ({s.name} \ {""})
      /\ \A n \in DOMAIN s.snapshots \ {s.name} : held[n] = s.snapshots[n]
      /\ s.name # "" => held[s.name] = s.cur
  <2>1. CASE s.name = ""
    <3>1. held = s.snapshots
      BY <2>1
    <3>2. s.snapshots \in UNION {[ks -> Sections(K)] : ks \in SUBSET Names}
      BY DEF States
    <3> QED
      BY <2>1, <3>1, <3>2
  <2>2. CASE s.name # ""
    <3>1. /\ held \in [ns \cup {s.name} -> Sections(K)]
          /\ DOMAIN held = DOMAIN s.snapshots \cup {s.name}
          /\ \A n \in DOMAIN s.snapshots \ {s.name} : held[n] = s.snapshots[n]
          /\ held[s.name] = s.cur
      BY <1>1, <1>2, <2>2 DEF Value
    <3>2. ns \cup {s.name} \in SUBSET Names
      BY <1>2, <2>2
    <3> QED
      BY <2>2, <3>1, <3>2
  <2> QED
    BY <2>1, <2>2
<1>5. /\ Flush(s).snapshots = held
      /\ Flush(s).cur = EmptySection
      /\ Flush(s).inDescription = s.inDescription
      /\ Flush(s).current
           = IF s.name = "" /\ s.target = "current" THEN s.cur ELSE s.current
      /\ Flush(s).pending
           = IF s.name = "" /\ s.target = "pending" THEN s.cur ELSE s.pending
  BY DEF Flush, States
<1>6. Flush(s) = [s EXCEPT !.snapshots = held, !.current = Flush(s).current,
                           !.pending = Flush(s).pending, !.cur = EmptySection]
  BY <1>5 DEF Flush
<1> HIDE DEF held
<1>7. Flush(s).current \in Sections(K) /\ Flush(s).pending \in Sections(K)
  BY <1>2, <1>5
<1>8. Flush(s) \in States(K)
  <2>1. EmptySection \in Sections(K)
    BY EmptyType
  <2> QED
    BY <1>4, <1>6, <1>7, <2>1 DEF States
<1> QED
  BY <1>4, <1>5, <1>8

(***************************************************************************)
(* The last header is the last of its name, and of another name the last   *)
(* is above it.                                                            *)
(***************************************************************************)
LEMMA LastNamed ==
    ASSUME NEW K, NEW t \in Seq(LinesOver(K)), NEW n
    PROVE  /\ LastHeader(t, n) \in 0 .. Len(t) /\ LastOfAll(t) \in 0 .. Len(t)
           /\ LastOfAll(t) # 0 /\ t[LastOfAll(t)].name = n => LastHeader(t, n) = LastOfAll(t)
           /\ LastHeader(t, n) # 0 =>
                 /\ LastHeader(t, n) <= LastOfAll(t)
                 /\ t[LastOfAll(t)].name # n => LastHeader(t, n) < LastOfAll(t)
<1> DEFINE hs == {i \in HeadersIn(t) : t[i].name = n} \cup {0}
<1>1. /\ LastOfAll(t) \in HeadersIn(t) \cup {0}
      /\ LastOfAll(t) \in 0 .. Len(t)
      /\ \A j \in HeadersIn(t) : j <= LastOfAll(t)
  BY LastOfAllMeans
<1>2. /\ LastHeader(t, n) \in hs
      /\ LastHeader(t, n) \in 0 .. Len(t)
      /\ \A h \in hs : (\A j \in hs : j <= h) => LastHeader(t, n) = h
  BY LastHeaderMeans
<1>3. ASSUME LastOfAll(t) # 0, t[LastOfAll(t)].name = n PROVE LastHeader(t, n) = LastOfAll(t)
  <2>1. LastOfAll(t) \in hs
    BY <1>1, <1>3
  <2>2. ASSUME NEW j \in hs PROVE j <= LastOfAll(t)
    BY <1>1, <2>2
  <2> QED
    BY <1>2, <2>1, <2>2
<1>4. ASSUME LastHeader(t, n) # 0
      PROVE  /\ LastHeader(t, n) <= LastOfAll(t)
             /\ t[LastOfAll(t)].name # n => LastHeader(t, n) < LastOfAll(t)
  <2>1. LastHeader(t, n) \in HeadersIn(t) /\ t[LastHeader(t, n)].name = n
    BY <1>2, <1>4
  <2>2. LastHeader(t, n) <= LastOfAll(t)
    BY <1>1, <2>1
  <2>3. t[LastOfAll(t)].name # n => LastHeader(t, n) # LastOfAll(t)
    BY <2>1
  <2> QED
    BY <1>1, <1>2, <2>2, <2>3
<1> QED
  BY <1>1, <1>2, <1>3, <1>4

-----------------------------------------------------------------------------
(* A line is read.                                                         *)

(***************************************************************************)
(* A line that is neither a header nor an option of a section: nothing is  *)
(* read into any section.                                                  *)
(***************************************************************************)
LEMMA QuietLine ==
    ASSUME NEW K, NEW t \in Seq(LinesOver(K)), NEW l \in LinesOver(K),
           l.kind # "header",
           l.kind = "option" => HasHash(l) /\ ~Begun(t),
           NEW s \in States(K), NEW r \in States(K), Placed(t, s),
           /\ r.cur = s.cur /\ r.current = s.current /\ r.pending = s.pending
           /\ r.snapshots = s.snapshots /\ r.target = s.target /\ r.name = s.name
    PROVE  Placed(Append(t, l), r)
<1> DEFINE u == Append(t, l)
           h == LastOfAll(t)
<1>1. /\ h \in 0 .. Len(t) /\ Len(t) \in Nat /\ 0 \in 0 .. Len(t)
      /\ DOMAIN t = 1 .. Len(t)
      /\ \A i \in DOMAIN t : u[i] = t[i]
  BY OneLineMore, LastOfAllMeans
<1>2. LastOfAll(u) = h
  BY LastOfAllAfter
<1>3. \A n : LastHeader(u, n) = LastHeader(t, n) /\ LastHeader(t, n) \in 0 .. Len(t)
  BY LastHeaderAfter, LastHeaderMeans
<1>4. \A x \in 0 .. Len(t) : Body(u, x) = Body(t, x) /\ Body(t, x) \in SUBSET DOMAIN t
  BY BodyAfter DEF Body
<1>5. \A sec : \A ls \in SUBSET DOMAIN t : Holds(sec, t, ls) => Holds(sec, u, ls)
  BY HoldsAfter
<1> HIDE DEF u, h
<1>6. ReadsSection(u, r)
  <2>1. ReadsSection(t, s)
    BY DEF Placed
  <2>2. h # 0 => u[h] = t[h]
    BY <1>1
  <2> QED
    BY <1>2, <2>1, <2>2 DEF ReadsSection, h
<1>7. SectionsKept(u, r)
  <2>1. SectionsKept(t, s)
    BY DEF Placed
  <2>2. Holds(r.cur, u, Body(u, h))
    BY <1>1, <1>4, <1>5, <2>1 DEF SectionsKept, h
  <2>3. h # 0 => Holds(r.current, u, Body(u, 0))
    BY <1>1, <1>4, <1>5, <2>1 DEF SectionsKept, h
  <2>4. r.target # "pending" => Holds(r.pending, u, PendingLines(u))
    <3>1. PendingLines(u) = PendingLines(t) /\ PendingLines(t) \in SUBSET DOMAIN t
      BY <1>3, <1>4 DEF PendingLines
    <3> QED
      BY <1>5, <2>1, <3>1 DEF SectionsKept
  <2>5. DOMAIN r.snapshots \cup ({r.name} \ {""}) = {n \in Names : LastHeader(u, n) # 0}
    BY <1>3, <2>1 DEF SectionsKept
  <2>6. ASSUME NEW n \in DOMAIN r.snapshots \ {r.name}
        PROVE  Holds(r.snapshots[n], u, Body(u, LastHeader(u, n)))
    <3>1. Holds(s.snapshots[n], t, Body(t, LastHeader(t, n)))
      BY <2>1, <2>6 DEF SectionsKept
    <3> QED
      BY <1>3, <1>4, <1>5, <3>1
  <2> QED
    BY <1>2, <2>2, <2>3, <2>4, <2>5, <2>6 DEF SectionsKept
<1> QED
  BY <1>6, <1>7 DEF Placed, u

(***************************************************************************)
(* An option line below the description is read into the section of the    *)
(* last header, and into no other.                                         *)
(***************************************************************************)
LEMMA OptionLine ==
    ASSUME NEW K, NEW t \in Seq(LinesOver(K)), NEW l \in LinesOver(K),
           l.kind = "option",
           Begun(t) \/ ~HasHash(l),
           NEW s \in States(K), NEW r \in States(K), Placed(t, s),
           r.cur = Set(s.cur, l.key, l.value),
           /\ r.current = s.current /\ r.pending = s.pending
           /\ r.snapshots = s.snapshots /\ r.target = s.target /\ r.name = s.name
    PROVE  Placed(Append(t, l), r)
<1> DEFINE u == Append(t, l)
           h == LastOfAll(t)
<1>1. /\ h \in 0 .. Len(t) /\ Len(t) \in Nat /\ 0 \in 0 .. Len(t)
      /\ DOMAIN t = 1 .. Len(t)
      /\ \A i \in DOMAIN t : u[i] = t[i]
  BY OneLineMore, LastOfAllMeans
<1>2. LastOfAll(u) = h
  BY LastOfAllAfter
<1>3. \A n : LastHeader(u, n) = LastHeader(t, n) /\ LastHeader(t, n) \in 0 .. Len(t)
  BY LastHeaderAfter, LastHeaderMeans
<1>4. \A x \in 0 .. Len(t) : x < h => Body(u, x) = Body(t, x)
  BY <1>1, BodyAfter
<1>5. Body(u, h) = Body(t, h) \cup {Len(t) + 1}
  BY <1>1, BodyAfter
<1>6. \A x \in 0 .. Len(t) : Body(t, x) \in SUBSET DOMAIN t
  BY DEF Body
<1>7. \A sec : \A ls \in SUBSET DOMAIN t : Holds(sec, t, ls) => Holds(sec, u, ls)
  BY HoldsAfter
<1>8. s.cur \in Sections(K)
  BY DEF States
<1>9. \A ls \in SUBSET DOMAIN t : Holds(s.cur, t, ls) => Holds(r.cur, u, ls \cup {Len(t) + 1})
  <2> SUFFICES ASSUME NEW ls \in SUBSET DOMAIN t, Holds(s.cur, t, ls)
               PROVE  Holds(Set(s.cur, l.key, l.value), u, ls \cup {Len(t) + 1})
    OBVIOUS
  <2> QED
    BY <1>8, HoldsSet
<1> HIDE DEF u
<1>10. ReadsSection(t, s) /\ SectionsKept(t, s)
  BY DEF Placed
<1>11. ReadsSection(u, r)
  <2>1. h # 0 => u[h] = t[h]
    BY <1>1
  <2> QED
    BY <1>2, <1>10, <2>1 DEF ReadsSection
<1>12. SectionsKept(u, r)
  <2>1. Holds(r.cur, u, Body(u, h))
    BY <1>1, <1>5, <1>6, <1>9, <1>10 DEF SectionsKept
  <2>2. ASSUME h # 0 PROVE Holds(r.current, u, Body(u, 0))
    <3>1. Body(u, 0) = Body(t, 0)
      BY <1>1, <1>4, <2>2
    <3> QED
      BY <1>1, <1>6, <1>7, <1>10, <2>2, <3>1 DEF SectionsKept
  <2>3. ASSUME r.target # "pending" PROVE Holds(r.pending, u, PendingLines(u))
    <3>1. h # 0 => t[h].name # "PENDING"
      BY <1>10, <2>3 DEF ReadsSection
    <3>2. LastHeader(t, "PENDING") # 0 => LastHeader(t, "PENDING") < h
      BY <1>1, <1>3, <3>1, LastNamed
    <3>3. PendingLines(u) = PendingLines(t) /\ PendingLines(t) \in SUBSET DOMAIN t
      BY <1>3, <1>4, <1>6, <3>2 DEF PendingLines
    <3> QED
      BY <1>7, <1>10, <2>3, <3>3 DEF SectionsKept
  <2>4. DOMAIN r.snapshots \cup ({r.name} \ {""}) = {n \in Names : LastHeader(u, n) # 0}
    BY <1>3, <1>10 DEF SectionsKept
  <2>5. ASSUME NEW n \in DOMAIN r.snapshots \ {r.name}
        PROVE  Holds(r.snapshots[n], u, Body(u, LastHeader(u, n)))
    <3>1. /\ Holds(s.snapshots[n], t, Body(t, LastHeader(t, n)))
          /\ n \in Names /\ LastHeader(t, n) # 0
      BY <1>10, <2>5 DEF SectionsKept
    <3>2. n # "PENDING"
      BY <3>1, SnapshotsAssumption DEF Names
    <3>3. h # 0 => t[h].name # n
      BY <1>10, <2>5, <3>2 DEF ReadsSection
    <3>4. LastHeader(t, n) < h
      BY <1>1, <1>3, <3>1, <3>3, LastNamed
    <3> QED
      BY <1>3, <1>4, <1>6, <1>7, <3>1, <3>4
  <2> HIDE DEF h
  <2> QED
    BY <1>2, <2>1, <2>2, <2>3, <2>4, <2>5 DEF SectionsKept
<1> QED
  BY <1>11, <1>12 DEF Placed, u

(***************************************************************************)
(* A header: the section that was read is put where it belongs, and that   *)
(* of the header begins with nothing in it.                                *)
(***************************************************************************)
LEMMA HeaderLine ==
    ASSUME NEW K, NEW t \in Seq(LinesOver(K)), NEW l \in LinesOver(K),
           l.kind = "header",
           NEW s \in States(K), Placed(t, s)
    PROVE  Placed(Append(t, l), Enter(s, l.name)) /\ Enter(s, l.name) \in States(K)
<1> DEFINE u == Append(t, l)
           h == LastOfAll(t)
           f == Flush(s)
           r == Enter(s, l.name)
<1>1. /\ h \in 0 .. Len(t) /\ Len(t) \in Nat /\ 0 \in 0 .. Len(t)
      /\ u \in Seq(LinesOver(K)) /\ Len(u) = Len(t) + 1 /\ u[Len(t) + 1] = l
  BY OneLineMore, LastOfAllMeans
<1>2. LastOfAll(u) = Len(t) + 1
  BY LastOfAllAfter
<1>3. \A n : /\ LastHeader(u, n) = IF l.name = n THEN Len(t) + 1 ELSE LastHeader(t, n)
             /\ LastHeader(t, n) \in 0 .. Len(t)
  BY LastHeaderAfter, LastHeaderMeans
<1>4. \A x \in 0 .. Len(t) : Body(u, x) = Body(t, x) /\ Body(t, x) \in SUBSET DOMAIN t
  BY BodyAfter DEF Body
<1>5. Body(u, Len(t) + 1) = {}
  BY <1>1, BodyOfLast
<1>6. \A sec : \A ls \in SUBSET DOMAIN t : Holds(sec, t, ls) => Holds(sec, u, ls)
  BY HoldsAfter
<1>7. l.name \in Names \cup {"", "PENDING"} /\ Names \cap {"", "PENDING"} = {}
  BY LineKinds, SnapshotsAssumption DEF Names
<1>8. /\ f \in States(K) /\ f.cur = EmptySection
      /\ f.current = IF s.name = "" /\ s.target = "current" THEN s.cur ELSE s.current
      /\ f.pending = IF s.name = "" /\ s.target = "pending" THEN s.cur ELSE s.pending
      /\ DOMAIN f.snapshots = DOMAIN s.snapshots \cup ({s.name} \ {""})
      /\ \A n \in DOMAIN s.snapshots \ {s.name} : f.snapshots[n] = s.snapshots[n]
      /\ s.name # "" => f.snapshots[s.name] = s.cur
  BY FlushEffect
<1>9. r = [f EXCEPT !.target = IF l.name = "PENDING" THEN "pending" ELSE "none",
                    !.name = IF l.name = "PENDING" THEN "" ELSE l.name]
  BY DEF Enter
<1> HIDE DEF f, r, u
<1>10. /\ r \in States(K) /\ r.cur = EmptySection /\ r.current = f.current
       /\ r.pending = f.pending /\ r.snapshots = f.snapshots
       /\ r.target = IF l.name = "PENDING" THEN "pending" ELSE "none"
       /\ r.name = IF l.name = "PENDING" THEN "" ELSE l.name
  BY <1>7, <1>8, <1>9 DEF States
<1>11. ReadsSection(t, s) /\ SectionsKept(t, s)
  BY DEF Placed
<1>12. ReadsSection(u, r)
  <2>1. Len(t) + 1 # 0 /\ u[LastOfAll(u)] = l
    BY <1>1, <1>2
  <2>2. /\ l.name = "PENDING" => r.name = "" /\ r.target = "pending"
        /\ l.name # "PENDING" => r.name = l.name /\ r.target = "none"
    BY <1>10
  <2> QED
    BY <1>2, <2>1, <2>2 DEF ReadsSection
<1>13. SectionsKept(u, r)
  <2>1. Holds(r.cur, u, Body(u, Len(t) + 1))
    BY <1>5, <1>10, HoldsEmpty
  <2>2. Holds(r.current, u, Body(u, 0))
    <3>1. h = 0 <=> s.name = "" /\ s.target = "current"
      BY <1>11 DEF ReadsSection
    <3>2. Holds(r.current, t, Body(t, 0))
      BY <1>8, <1>10, <1>11, <3>1 DEF SectionsKept
    <3> QED
      BY <1>1, <1>4, <1>6, <3>2
  <2>3. ASSUME r.target # "pending" PROVE Holds(r.pending, u, PendingLines(u))
    <3>1. l.name # "PENDING" /\ LastHeader(u, "PENDING") = LastHeader(t, "PENDING")
      BY <1>3, <1>10, <2>3
    <3>2. PendingLines(u) = PendingLines(t) /\ PendingLines(t) \in SUBSET DOMAIN t
      BY <1>3, <1>4, <3>1 DEF PendingLines
    <3>3. Holds(r.pending, t, PendingLines(t))
      <4>1. CASE s.target = "pending"
        <5>1. h # 0 /\ t[h].name = "PENDING" /\ s.name = ""
          BY <1>11, <4>1 DEF ReadsSection
        <5>2. LastHeader(t, "PENDING") = h
          BY <5>1, LastNamed
        <5>3. PendingLines(t) = Body(t, h)
          BY <5>1, <5>2 DEF PendingLines
        <5> QED
          BY <1>8, <1>10, <1>11, <4>1, <5>1, <5>3 DEF SectionsKept
      <4>2. CASE s.target # "pending"
        BY <1>8, <1>10, <1>11, <4>2 DEF SectionsKept
      <4> QED
        BY <4>1, <4>2
    <3> QED
      BY <1>6, <3>2, <3>3
  <2>4. DOMAIN r.snapshots \cup ({r.name} \ {""}) = {n \in Names : LastHeader(u, n) # 0}
    <3>1. DOMAIN r.snapshots = {n \in Names : LastHeader(t, n) # 0}
      BY <1>8, <1>10, <1>11 DEF SectionsKept
    <3>2. \A n \in Names : LastHeader(u, n) # 0 <=> LastHeader(t, n) # 0 \/ l.name = n
      BY <1>1, <1>3
    <3>3. {r.name} \ {""} = {l.name} \cap Names
      BY <1>7, <1>10
    <3> QED
      BY <3>1, <3>2, <3>3
  <2>5. ASSUME NEW n \in DOMAIN r.snapshots \ {r.name}
        PROVE  Holds(r.snapshots[n], u, Body(u, LastHeader(u, n)))
    <3>1. n \in Names /\ n # l.name /\ n # "PENDING" /\ n # ""
      <4>1. n \in Names
        BY <1>8, <1>10, <1>11, <2>5 DEF SectionsKept
      <4> QED
        BY <1>7, <1>10, <2>5, <4>1
    <3>2. LastHeader(u, n) = LastHeader(t, n)
      BY <1>3, <3>1
    <3>3. Holds(r.snapshots[n], t, Body(t, LastHeader(t, n)))
      <4>1. CASE n = s.name
        <5>1. h # 0 /\ t[h].name = n
          BY <1>11, <3>1, <4>1 DEF ReadsSection
        <5>2. LastHeader(t, n) = h
          BY <5>1, LastNamed
        <5>3. r.snapshots[n] = s.cur
          BY <1>8, <1>10, <3>1, <4>1
        <5> QED
          BY <1>11, <5>2, <5>3 DEF SectionsKept
      <4>2. CASE n # s.name
        <5>1. n \in DOMAIN s.snapshots \ {s.name} /\ r.snapshots[n] = s.snapshots[n]
          BY <1>8, <1>10, <2>5, <4>2
        <5> QED
          BY <1>11, <5>1 DEF SectionsKept
      <4> QED
        BY <4>1, <4>2
    <3> QED
      BY <1>3, <1>4, <1>6, <3>2, <3>3
  <2> QED
    BY <1>2, <2>1, <2>2, <2>3, <2>4, <2>5 DEF SectionsKept
<1> QED
  BY <1>10, <1>12, <1>13 DEF Placed, u, r

(***************************************************************************)
(* Whatever the line, the sections are as they should be after it, and the *)
(* description ends where it should.                                       *)
(***************************************************************************)
LEMMA AnyLine ==
    ASSUME NEW K, NEW t \in Seq(LinesOver(K)), NEW l \in LinesOver(K),
           NEW s \in States(K), Placed(t, s),
           s.inDescription <=> ~Begun(t)
    PROVE  /\ Placed(Append(t, l), ReadLine(s, l))
           /\ ReadLine(s, l) \in States(K)
           /\ ReadLine(s, l).inDescription <=> ~Begun(Append(t, l))
<1> DEFINE past == [s EXCEPT !.inDescription = FALSE]
           r == ReadLine(s, l)
<1>1. Begun(Append(t, l)) <=> Begun(t) \/ (~HasHash(l) /\ l # Blank)
  BY InBodyAfter
<1>2. /\ l.kind = "header" => l # Blank /\ ~HasHash(l)
      /\ l.kind = "option" => l # Blank
  BY LineKinds DEF HasHash
<1>3. /\ past \in States(K) /\ past.inDescription = FALSE
      /\ past.cur = s.cur /\ past.current = s.current /\ past.pending = s.pending
      /\ past.snapshots = s.snapshots /\ past.target = s.target /\ past.name = s.name
  BY DEF States
<1>4. Placed(t, past)
  BY <1>3 DEF Placed, ReadsSection, SectionsKept
<1>5. CASE l = Blank
  <2>1. r = s
    BY <1>5 DEF ReadLine
  <2>2. l.kind # "header" /\ l.kind # "option"
    BY <1>2, <1>5
  <2>3. Placed(Append(t, l), s)
    BY <2>2, QuietLine
  <2> QED
    BY <1>1, <1>5, <2>1, <2>3
<1>6. CASE l # Blank /\ s.inDescription /\ HasHash(l)
  <2>1. r = [s EXCEPT !.description = Append(@, l)]
    BY <1>6 DEF ReadLine
  <2> HIDE DEF r
  <2>2. /\ r \in States(K) /\ r.inDescription = s.inDescription
        /\ r.cur = s.cur /\ r.current = s.current /\ r.pending = s.pending
        /\ r.snapshots = s.snapshots /\ r.target = s.target /\ r.name = s.name
    <3>1. Append(s.description, l) \in Seq(HashLines(K))
      <4>1. s.description \in Seq(HashLines(K)) /\ l \in HashLines(K)
        BY <1>6 DEF States, HashLines
      <4> QED
        BY <4>1
    <3> QED
      BY <2>1, <3>1 DEF States
  <2>3. Placed(Append(t, l), r)
    BY <1>2, <1>6, <2>2, QuietLine
  <2> QED
    BY <1>1, <1>6, <2>2, <2>3 DEF r
<1>7. CASE l # Blank /\ ~(s.inDescription /\ HasHash(l))
  <2> HIDE DEF past
  <2>1. r = CASE l.kind = "header" -> Enter(past, l.name)
              [] l.kind = "option" -> [past EXCEPT !.cur = Set(@, l.key, l.value)]
              [] OTHER -> past
    BY <1>7 DEF ReadLine, past
  <2>2. Begun(t) \/ ~HasHash(l)
    BY <1>7
  <2>3. Begun(Append(t, l))
    BY <1>1, <1>7, <2>2
  <2> HIDE DEF r
  <2>4. CASE l.kind = "header"
    <3>1. r = Enter(past, l.name)
      BY <2>1, <2>4
    <3>2. Placed(Append(t, l), r) /\ r \in States(K)
      BY <1>3, <1>4, <2>4, <3>1, HeaderLine
    <3>3. r.inDescription = FALSE
      <4>1. Flush(past) \in States(K) /\ Flush(past).inDescription = FALSE
        BY <1>3, FlushEffect
      <4> QED
        BY <3>1, <4>1 DEF Enter, States
    <3> QED
      BY <2>3, <3>2, <3>3 DEF r
  <2>5. CASE l.kind = "option"
    <3>1. r = [past EXCEPT !.cur = Set(@, l.key, l.value)]
      BY <2>1, <2>5
    <3>2. Set(past.cur, l.key, l.value) \in Sections(K)
      <4>1. l.key \in K /\ l.value \in Values
        BY <2>5, LineKinds
      <4>2. past.cur \in Sections(K)
        BY <1>3 DEF States
      <4> QED
        BY <4>1, <4>2, SetType
    <3>3. /\ r \in States(K) /\ r.inDescription = FALSE
          /\ r.cur = Set(past.cur, l.key, l.value)
          /\ r.current = past.current /\ r.pending = past.pending
          /\ r.snapshots = past.snapshots /\ r.target = past.target /\ r.name = past.name
      BY <1>3, <3>1, <3>2 DEF States
    <3>4. Placed(Append(t, l), r)
      BY <1>3, <1>4, <2>2, <2>5, <3>3, OptionLine
    <3> QED
      BY <2>3, <3>3, <3>4 DEF r
  <2>6. CASE l.kind # "header" /\ l.kind # "option"
    <3>1. r = past
      BY <2>1, <2>6
    <3>2. Placed(Append(t, l), past)
      BY <1>3, <1>4, <2>6, QuietLine
    <3> QED
      BY <1>3, <2>3, <3>1, <3>2 DEF r
  <2> QED
    BY <2>4, <2>5, <2>6
<1> QED
  BY <1>5, <1>6, <1>7

-----------------------------------------------------------------------------
(* A text is read after another.                                           *)

LEMMA ReadLineType ==
    ASSUME NEW K, NEW s \in States(K), NEW l \in LinesOver(K)
    PROVE  ReadLine(s, l) \in States(K)
<1> DEFINE past == [s EXCEPT !.inDescription = FALSE]
           r == ReadLine(s, l)
<1>1. past \in States(K)
  BY DEF States
<1>2. CASE l = Blank
  BY <1>2 DEF ReadLine
<1>3. CASE l # Blank /\ s.inDescription /\ HasHash(l)
  <2>1. r = [s EXCEPT !.description = Append(@, l)]
    BY <1>3 DEF ReadLine
  <2>2. s.description \in Seq(HashLines(K)) /\ l \in HashLines(K)
    BY <1>3 DEF States, HashLines
  <2>3. Append(s.description, l) \in Seq(HashLines(K))
    BY <2>2
  <2> HIDE DEF r
  <2>4. r \in States(K)
    BY <2>1, <2>3 DEF States
  <2> QED
    BY <2>4 DEF r
<1>4. CASE l # Blank /\ ~(s.inDescription /\ HasHash(l))
  <2> HIDE DEF past
  <2>1. r = CASE l.kind = "header" -> Enter(past, l.name)
              [] l.kind = "option" -> [past EXCEPT !.cur = Set(@, l.key, l.value)]
              [] OTHER -> past
    BY <1>4 DEF ReadLine, past
  <2> HIDE DEF r
  <2>2. CASE l.kind = "header"
    <3>1. Flush(past) \in States(K)
      BY <1>1, FlushEffect
    <3>2. l.name \in Names \cup {"", "PENDING"}
      BY <2>2, LineKinds
    <3>3. r = Enter(past, l.name)
      BY <2>1, <2>2
    <3> DEFINE f == Flush(past)
    <3>4. r = [f EXCEPT !.target = IF l.name = "PENDING" THEN "pending" ELSE "none",
                        !.name = IF l.name = "PENDING" THEN "" ELSE l.name]
      BY <3>3 DEF Enter
    <3> HIDE DEF f
    <3>5. f \in States(K)
      BY <3>1 DEF f
    <3>6. r \in States(K)
      BY <3>2, <3>4, <3>5 DEF States
    <3> QED
      BY <3>6 DEF r
  <2>3. CASE l.kind = "option"
    <3>1. l.key \in K /\ l.value \in Values
      BY <2>3, LineKinds
    <3>2. past.cur \in Sections(K)
      BY <1>1 DEF States
    <3>3. Set(past.cur, l.key, l.value) \in Sections(K)
      BY <3>1, <3>2, SetType
    <3>4. r = [past EXCEPT !.cur = Set(past.cur, l.key, l.value)]
      BY <2>1, <2>3
    <3>5. r \in States(K)
      BY <1>1, <3>3, <3>4 DEF States
    <3> QED
      BY <3>5 DEF r
  <2>4. CASE l.kind # "header" /\ l.kind # "option"
    BY <1>1, <2>1, <2>4 DEF r
  <2> QED
    BY <2>2, <2>3, <2>4
<1> QED
  BY <1>2, <1>3, <1>4

NextState(K) == [p \in States(K) \X LinesOver(K) |-> ReadLine(p[1], p[2])]

Scanned(s, t) == FoldLeft(ReadLine, s, t)

LEMMA ScanSteps ==
    ASSUME NEW K, NEW b \in States(K), NEW t \in Seq(LinesOver(K))
    PROVE  \E g : Through(States(K), b, NextState(K), t, g, Scanned(b, t))
<1> DEFINE A == States(K)
           E == LinesOver(K)
           F == NextState(K)
           Body1(iter, s) == ReadLine(iter[s \ {Max(s)}], t[Max(s)])
           Eq(iter) == iter = [s \in SUBSET DOMAIN t |-> IF s = {} THEN b ELSE Body1(iter, s)]
           It == CHOOSE iter : Eq(iter)
<1>1. Scanned(b, t) = It[DOMAIN t]
  BY DEF Scanned, FoldLeft, MapThenFoldSet
<1>2. /\ Len(t) \in Nat /\ DOMAIN t = 1 .. Len(t) /\ t \in Seq(E)
      /\ \A i \in 1 .. Len(t) : t[i] \in E
  OBVIOUS
<1>3. F \in [A \X E -> A] /\ b \in A
  BY ReadLineType DEF NextState
<1>4. \A l \in A, s \in E : F[<<l, s>>] = ReadLine(l, s)
  BY DEF NextState
<1> HIDE DEF A, E, F
<1>5. \E iter : Eq(iter)
  <2>1. PICK iter \in [SUBSET DOMAIN t -> A] : FoldsOver(b, F, t, Len(t), iter)
    BY <1>2, <1>3, FoldExists
  <2>2. ASSUME NEW s \in SUBSET DOMAIN t, s # {}
        PROVE  F[<<iter[s \ {Max(s)}], t[Max(s)]>>] = Body1(iter, s)
    <3>1. iter[s \ {Max(s)}] \in A
      OBVIOUS
    <3>2. Max(s) \in DOMAIN t
      BY <1>2, <2>2, MaxOfPart
    <3> QED
      BY <3>1, <3>2, <1>2, <1>4
  <2>3. Eq(iter)
    BY <2>1, <2>2, <1>2 DEF FoldsOver
  <2> QED
    BY <2>3
<1>6. Eq(It)
  BY <1>5
<1> HIDE DEF It
<1>7. It[{}] = b
  BY <1>6
<1>8. ASSUME NEW n \in 1 .. Len(t), It[1 .. n - 1] \in A
      PROVE  It[1 .. n] = F[<<It[1 .. n - 1], t[n]>>]
  <2> DEFINE s == 1 .. n
  <2>1. s \in SUBSET DOMAIN t /\ s # {} /\ Max(s) = n /\ s \ {n} = 1 .. n - 1
    BY <1>2, LastOfPart
  <2> HIDE DEF s
  <2>2. It[s] = ReadLine(It[s \ {Max(s)}], t[Max(s)])
    BY <1>6, <2>1
  <2>3. It[1 .. n] = ReadLine(It[1 .. n - 1], t[n])
    BY <2>1, <2>2 DEF s
  <2> QED
    BY <2>3, <1>8, <1>2, <1>4
<1>9. PICK g : Through(A, b, F, t, g, It[DOMAIN t])
  <2>1. Steps(A, b, F, t, It)
    BY <1>7, <1>8 DEF Steps
  <2> QED
    BY <2>1, <1>2, <1>3, FoldSteps
<1> QED
  BY <1>1, <1>9 DEF It, A, F

(***************************************************************************)
(* Reading a text is reading its lines one after the other, and a text     *)
(* that follows another is read on from where that ends.                   *)
(***************************************************************************)
LEMMA ReadNothing ==
    ASSUME NEW K, NEW s \in States(K)
    PROVE  Scanned(s, <<>>) = s
<1> DEFINE t == <<>>
<1>1. t \in Seq(LinesOver(K))
  OBVIOUS
<1> HIDE DEF t
<1>2. PICK g : Through(States(K), s, NextState(K), t, g, Scanned(s, t))
  BY <1>1, ScanSteps
<1> QED
  BY <1>2, FoldEmpty DEF t

LEMMA ReadOneMore ==
    ASSUME NEW K, NEW s \in States(K), NEW t \in Seq(LinesOver(K)), NEW l \in LinesOver(K)
    PROVE  /\ Scanned(s, t) \in States(K)
           /\ Scanned(s, Append(t, l)) = ReadLine(Scanned(s, t), l)
<1>1. Append(t, l) \in Seq(LinesOver(K))
  BY AppendProperties
<1>2. PICK g : Through(States(K), s, NextState(K), t, g, Scanned(s, t))
  BY ScanSteps
<1>3. PICK h : Through(States(K), s, NextState(K), Append(t, l), h, Scanned(s, Append(t, l)))
  BY <1>1, ScanSteps
<1>4. /\ Scanned(s, t) \in States(K)
      /\ Scanned(s, Append(t, l)) = NextState(K)[<<Scanned(s, t), l>>]
  BY <1>2, <1>3, FoldAppend
<1> QED
  BY <1>4 DEF NextState

LEMMA ScannedType ==
    ASSUME NEW K, NEW s \in States(K), NEW t \in Seq(LinesOver(K))
    PROVE  Scanned(s, t) \in States(K)
<1>1. PICK g : Through(States(K), s, NextState(K), t, g, Scanned(s, t))
  BY ScanSteps
<1>2. Len(t) \in 0 .. Len(t)
  OBVIOUS
<1> QED
  BY <1>1, <1>2 DEF Through

LEMMA ReadOn ==
    ASSUME NEW K, NEW s \in States(K), NEW t \in Seq(LinesOver(K)),
           NEW u \in Seq(LinesOver(K))
    PROVE  Scanned(s, t \o u) = Scanned(Scanned(s, t), u)
<1> DEFINE E == LinesOver(K)
           S == {v \in Seq(E) : Scanned(s, t \o v) = Scanned(Scanned(s, t), v)}
<1>1. Scanned(s, t) \in States(K)
  BY ScannedType
<1>2. <<>> \in S
  <2>1. t \o <<>> = t /\ <<>> \in Seq(E)
    BY ConcatEmptySeq
  <2> QED
    BY <1>1, <2>1, ReadNothing
<1>3. ASSUME NEW v \in Seq(E), NEW l \in E, v \in S PROVE Append(v, l) \in S
  <2>1. t \o Append(v, l) = Append(t \o v, l)
    OBVIOUS
  <2>2. t \o v \in Seq(E) /\ Append(v, l) \in Seq(E)
    OBVIOUS
  <2>3. Scanned(s, Append(t \o v, l)) = ReadLine(Scanned(s, t \o v), l)
    BY <2>2, ReadOneMore
  <2>4. Scanned(Scanned(s, t), Append(v, l)) = ReadLine(Scanned(Scanned(s, t), v), l)
    BY <1>1, ReadOneMore
  <2> QED
    BY <1>3, <2>1, <2>2, <2>3, <2>4
<1> HIDE DEF S
<1>4. \A v \in Seq(E) : v \in S
  BY <1>2, <1>3, TextInduction
<1> QED
  BY <1>4 DEF S

-----------------------------------------------------------------------------
(* A section that is written is read again.                                *)

\* All but the section that is being read is the same; a description that is
\* over does not go on.
OnlyCur(r, s) ==
    /\ r.description = s.description
    /\ r.inDescription => s.inDescription
    /\ r.current = s.current /\ r.pending = s.pending /\ r.snapshots = s.snapshots
    /\ r.target = s.target /\ r.name = s.name

LEMMA OptionKinds ==
    ASSUME NEW K, NEW k \in K, NEW w \in Values
    PROVE  /\ Option(k, w) \in LinesOver(K) /\ Option(k, w) # Blank
           /\ Option(k, w).kind = "option" /\ Option(k, w).key = k /\ Option(k, w).value = w
           /\ HasHash(Option(k, w)) <=> k \in HashKeys
<1>1. Option(k, w).kind = "option" /\ Option(k, w).key = k /\ Option(k, w).value = w
  BY DEF Option
<1>2. Option(k, w) \in LinesOver(K)
  BY DEF Option, LinesOver
<1>3. Blank.kind = "blank"
  BY DEF Blank
<1> QED
  BY <1>1, <1>2, <1>3 DEF HasHash

LEMMA ReadOption ==
    ASSUME NEW K, NEW s \in States(K), NEW k \in K, NEW w \in Values,
           s.inDescription => k \notin HashKeys
    PROVE  LET r == ReadLine(s, Option(k, w))
           IN  r \in States(K) /\ OnlyCur(r, s) /\ r.cur = Set(s.cur, k, w) /\ ~r.inDescription
<1> DEFINE l == Option(k, w)
           r == ReadLine(s, l)
           past == [s EXCEPT !.inDescription = FALSE]
<1>1. l \in LinesOver(K) /\ l # Blank /\ l.kind = "option" /\ l.key = k /\ l.value = w
      /\ (HasHash(l) <=> k \in HashKeys)
  BY OptionKinds
<1> HIDE DEF l
<1>2. r \in States(K)
  BY <1>1, ReadLineType
<1>3. r = [past EXCEPT !.cur = Set(@, k, w)]
  BY <1>1 DEF ReadLine
<1> HIDE DEF r
<1>4. /\ past.cur = s.cur /\ ~past.inDescription /\ past \in States(K)
      /\ OnlyCur(past, s)
  BY DEF States, OnlyCur
<1> HIDE DEF past
<1>5. r.cur = Set(s.cur, k, w) /\ ~r.inDescription /\ OnlyCur(r, s)
  BY <1>3, <1>4 DEF States, OnlyCur
<1> QED
  BY <1>2, <1>5 DEF r, l

\* The first n options of a section.
FirstOptions(sec, n) ==
    [keys   |-> [i \in 1 .. n |-> sec.keys[i]],
     values |-> [k \in {sec.keys[i] : i \in 1 .. n} |-> sec.values[k]]]

LEMMA NextOption ==
    ASSUME NEW K, NEW sec \in Sections(K)
    PROVE  /\ Len(sec.keys) \in Nat /\ FirstOptions(sec, 0) = EmptySection
           /\ FirstOptions(sec, Len(sec.keys)) = sec
           /\ \A n \in Nat : n + 1 <= Len(sec.keys) =>
                 FirstOptions(sec, n + 1)
                   = Set(FirstOptions(sec, n), sec.keys[n + 1], sec.values[sec.keys[n + 1]])
<1> DEFINE ks == sec.keys
           vs == sec.values
<1>1. /\ ks \in Seq(K) /\ Len(ks) \in Nat /\ DOMAIN ks = 1 .. Len(ks)
      /\ DOMAIN vs = ToSet(ks) /\ Distinct(ks) /\ sec = [keys |-> ks, values |-> vs]
      /\ ks = [i \in DOMAIN ks |-> ks[i]] /\ vs = [k \in DOMAIN vs |-> vs[k]]
  <2>1. PICK js \in SUBSET K : vs \in [js -> Values]
    BY DEF Sections
  <2> QED
    BY <2>1 DEF Sections
<1> HIDE DEF ks, vs
<1>2. FirstOptions(sec, 0) = EmptySection
  <2>1. 1 .. 0 = {} /\ {ks[i] : i \in 1 .. 0} = {}
    OBVIOUS
  <2>2. [i \in {} |-> ks[i]] = <<>> /\ [k \in {} |-> vs[k]] = <<>>
    OBVIOUS
  <2>3. [i \in 1 .. 0 |-> ks[i]] = <<>> /\ [k \in {ks[i] : i \in 1 .. 0} |-> vs[k]] = <<>>
    BY <2>1, <2>2
  <2> QED
    BY <2>3 DEF FirstOptions, EmptySection, ks, vs
<1>3. FirstOptions(sec, Len(ks)) = sec
  <2>1. {ks[i] : i \in 1 .. Len(ks)} = DOMAIN vs
    BY <1>1 DEF ToSet
  <2>2. FirstOptions(sec, Len(ks))
          = [keys |-> [i \in 1 .. Len(ks) |-> ks[i]],
             values |-> [k \in {ks[i] : i \in 1 .. Len(ks)} |-> vs[k]]]
    BY DEF FirstOptions, ks, vs
  <2> QED
    BY <1>1, <2>1, <2>2
<1>4. ASSUME NEW n \in Nat, n + 1 <= Len(ks)
      PROVE  FirstOptions(sec, n + 1) = Set(FirstOptions(sec, n), ks[n + 1], vs[ks[n + 1]])
  <2> DEFINE ks0 == [i \in 1 .. n |-> ks[i]]
             ks1 == [i \in 1 .. n + 1 |-> ks[i]]
             vs0 == [k \in {ks[i] : i \in 1 .. n} |-> vs[k]]
             vs1 == [k \in {ks[i] : i \in 1 .. n + 1} |-> vs[k]]
             k1 == ks[n + 1]
  <2>1. 1 .. n + 1 = 1 .. n \cup {n + 1} /\ n + 1 \in DOMAIN ks /\ 1 .. n \subseteq DOMAIN ks
        /\ n + 1 \notin 1 .. n
    BY <1>1, <1>4
  <2>2. k1 \notin DOMAIN vs0
    BY <1>1, <2>1 DEF Distinct
  <2>3. ks1 = Append(ks0, k1)
    <3>1. ks0 \in Seq(K) /\ Len(ks0) = n /\ ks1 \in Seq(K) /\ Len(ks1) = n + 1 /\ k1 \in K
      <4>1. \A i \in 1 .. Len(ks) : ks[i] \in K
        BY <1>1
      <4>2. (\A i \in 1 .. n : ks[i] \in K) /\ \A i \in 1 .. n + 1 : ks[i] \in K
        BY <1>1, <2>1, <4>1
      <4>3. n \in Nat /\ n + 1 \in Nat /\ n + 1 \in 1 .. n + 1
        OBVIOUS
      <4> QED
        BY <4>2, <4>3
    <3>2. /\ Append(ks0, k1) \in Seq(K) /\ Len(Append(ks0, k1)) = n + 1
          /\ \A i \in 1 .. n : Append(ks0, k1)[i] = ks0[i]
          /\ Append(ks0, k1)[n + 1] = k1
      BY <3>1, AppendProperties
    <3>3. \A i \in 1 .. n + 1 : Append(ks0, k1)[i] = ks1[i]
      BY <2>1, <3>2
    <3> QED
      BY <3>1, <3>2, <3>3, SeqEqual
  <2>4. {ks[i] : i \in 1 .. n + 1} = {ks[i] : i \in 1 .. n} \cup {k1}
    BY <2>1
  <2>5. vs1 = [j \in DOMAIN vs0 \cup {k1} |-> IF j = k1 THEN vs[k1] ELSE vs0[j]]
    BY <2>4
  <2>6. FirstOptions(sec, n) = [keys |-> ks0, values |-> vs0]
        /\ FirstOptions(sec, n + 1) = [keys |-> ks1, values |-> vs1]
    BY DEF FirstOptions, ks, vs
  <2> HIDE DEF ks0, ks1, vs0, vs1, k1
  <2> DEFINE fo == FirstOptions(sec, n)
  <2>7. fo.keys = ks0 /\ fo.values = vs0
    BY <2>6
  <2> HIDE DEF fo
  <2>8. Value(fo, k1, vs[k1]) = vs1
    BY <2>5, <2>7 DEF Value
  <2>9. Set(fo, k1, vs[k1]) = [keys |-> ks1, values |-> vs1]
    BY <2>2, <2>3, <2>7, <2>8 DEF Set
  <2> QED
    BY <2>6, <2>9 DEF fo, k1
<1> QED
  BY <1>1, <1>2, <1>3, <1>4 DEF ks, vs

LEMMA SectionLines ==
    ASSUME NEW K, NEW sec \in Sections(K)
    PROVE  /\ WriteSection(sec) \in Seq(LinesOver(K))
           /\ Len(WriteSection(sec)) = Len(sec.keys)
           /\ \A i \in 1 .. Len(sec.keys) :
                 /\ sec.keys[i] \in K /\ sec.values[sec.keys[i]] \in Values
                 /\ sec.keys[i] \in ToSet(sec.keys)
                 /\ WriteSection(sec)[i] = Option(sec.keys[i], sec.values[sec.keys[i]])
<1>1. /\ sec.keys \in Seq(K) /\ Len(sec.keys) \in Nat /\ DOMAIN sec.keys = 1 .. Len(sec.keys)
      /\ DOMAIN sec.values = ToSet(sec.keys)
  BY DEF Sections
<1>2. PICK js \in SUBSET K : sec.values \in [js -> Values]
  BY DEF Sections
<1>3. ASSUME NEW i \in 1 .. Len(sec.keys)
      PROVE  /\ sec.keys[i] \in K /\ sec.values[sec.keys[i]] \in Values
             /\ sec.keys[i] \in ToSet(sec.keys)
             /\ WriteSection(sec)[i] = Option(sec.keys[i], sec.values[sec.keys[i]])
             /\ WriteSection(sec)[i] \in LinesOver(K)
  <2>1. sec.keys[i] \in K /\ sec.keys[i] \in ToSet(sec.keys)
    BY <1>1 DEF ToSet
  <2>2. sec.values[sec.keys[i]] \in Values
    BY <1>1, <1>2, <2>1
  <2>3. Option(sec.keys[i], sec.values[sec.keys[i]]) \in LinesOver(K)
    BY <2>1, <2>2, OptionKinds
  <2> QED
    BY <1>1, <2>1, <2>2, <2>3 DEF WriteSection
<1>4. DOMAIN WriteSection(sec) = 1 .. Len(sec.keys)
      /\ WriteSection(sec) = [i \in 1 .. Len(sec.keys) |-> WriteSection(sec)[i]]
  BY <1>1 DEF WriteSection
<1> DEFINE t == WriteSection(sec)
<1> HIDE DEF t
<1>5. /\ Len(sec.keys) \in Nat /\ t = [i \in 1 .. Len(sec.keys) |-> t[i]]
      /\ \A i \in 1 .. Len(sec.keys) : t[i] \in LinesOver(K)
  BY <1>1, <1>3, <1>4 DEF t
<1>6. t \in Seq(LinesOver(K)) /\ Len(t) = Len(sec.keys)
  BY <1>5
<1> QED
  BY <1>3, <1>6 DEF t

LEMMA ReadOptions ==
    ASSUME NEW K, NEW s \in States(K), NEW sec \in Sections(K), s.cur = EmptySection,
           s.inDescription => ToSet(sec.keys) \cap HashKeys = {}
    PROVE  LET r == Scanned(s, WriteSection(sec))
           IN  r \in States(K) /\ OnlyCur(r, s) /\ r.cur = sec
<1> DEFINE t == WriteSection(sec)
           N == Len(sec.keys)
<1>1. /\ t \in Seq(LinesOver(K)) /\ Len(t) = N /\ N \in Nat
      /\ \A i \in 1 .. N :
            /\ sec.keys[i] \in K /\ sec.values[sec.keys[i]] \in Values
            /\ sec.keys[i] \in ToSet(sec.keys)
            /\ t[i] = Option(sec.keys[i], sec.values[sec.keys[i]])
  BY SectionLines, NextOption
<1>2. PICK g : Through(States(K), s, NextState(K), t, g, Scanned(s, t))
  BY <1>1, ScanSteps
<1> HIDE DEF t, N
<1>3. /\ g[0] = s /\ g[N] = Scanned(s, t)
      /\ \A n \in 0 .. N : g[n] \in States(K)
      /\ \A n \in 1 .. N : g[n] = NextState(K)[<<g[n - 1], t[n]>>]
  BY <1>1, <1>2 DEF Through
<1> DEFINE S == {n \in Nat : n <= N => OnlyCur(g[n], s) /\ g[n].cur = FirstOptions(sec, n)}
<1>4. 0 \in S
  <2>1. OnlyCur(s, s)
    BY DEF OnlyCur
  <2> QED
    BY <1>3, <2>1, NextOption
<1>5. ASSUME NEW n \in Nat, n \in S PROVE n + 1 \in S
  <2> SUFFICES ASSUME n + 1 <= N
               PROVE  OnlyCur(g[n + 1], s) /\ g[n + 1].cur = FirstOptions(sec, n + 1)
    OBVIOUS
  <2> DEFINE k == sec.keys[n + 1]
             w == sec.values[k]
  <2>1. n + 1 \in 1 .. N /\ n \in 0 .. N /\ (n + 1) - 1 = n /\ n <= N
    BY <1>1
  <2>2. k \in K /\ w \in Values /\ k \in ToSet(sec.keys) /\ t[n + 1] = Option(k, w)
    BY <1>1, <2>1
  <2>3. FirstOptions(sec, n + 1) = Set(FirstOptions(sec, n), k, w)
    BY NextOption DEF N
  <2> HIDE DEF k, w
  <2>4. OnlyCur(g[n], s) /\ g[n].cur = FirstOptions(sec, n) /\ g[n] \in States(K)
    BY <1>3, <1>5, <2>1
  <2>5. g[n].inDescription => k \notin HashKeys
    BY <2>2, <2>4 DEF OnlyCur
  <2>6. Option(k, w) \in LinesOver(K)
    BY <2>2, OptionKinds
  <2>7. g[n + 1] = ReadLine(g[n], Option(k, w))
    <3>1. g[n + 1] = NextState(K)[<<g[n], t[n + 1]>>]
      BY <1>3, <2>1
    <3> QED
      BY <2>2, <2>4, <2>6, <3>1 DEF NextState
  <2>8. /\ OnlyCur(g[n + 1], g[n])
        /\ g[n + 1].cur = Set(g[n].cur, k, w)
    BY <2>2, <2>4, <2>5, <2>7, ReadOption
  <2>9. OnlyCur(g[n + 1], s)
    BY <2>4, <2>8 DEF OnlyCur
  <2> QED
    BY <2>3, <2>4, <2>8, <2>9
<1> HIDE DEF S
<1>6. \A n \in Nat : n \in S
  BY <1>4, <1>5, SetInduction
<1>7. N \in S /\ N \in Nat /\ N \in 0 .. N /\ FirstOptions(sec, N) = sec
  BY <1>1, <1>6, NextOption DEF N
<1> QED
  BY <1>3, <1>7 DEF S, t

(***************************************************************************)
(* The description at the top of a file is what is read first.             *)
(***************************************************************************)
LEMMA StartType == ASSUME NEW K PROVE Start \in States(K)
<1>1. /\ EmptySection \in Sections(K)
      /\ <<>> \in UNION {[ns -> Sections(K)] : ns \in SUBSET Names}
  BY EmptyType
<1>2. <<>> \in Seq(HashLines(K))
  OBVIOUS
<1> QED
  BY <1>1, <1>2 DEF Start, States

LEMMA ReadDescription ==
    ASSUME NEW K, NEW d \in Seq(HashLines(K))
    PROVE  d \in Seq(LinesOver(K)) /\ Scanned(Start, d) = [Start EXCEPT !.description = d]
<1> DEFINE S == {u \in Seq(HashLines(K)) :
                   /\ u \in Seq(LinesOver(K))
                   /\ Scanned(Start, u) = [Start EXCEPT !.description = u]}
<1>1. Start \in States(K) /\ Start.description = <<>>
  BY StartType DEF Start
<1>2. <<>> \in S
  <2>1. <<>> \in Seq(HashLines(K)) /\ <<>> \in Seq(LinesOver(K))
    OBVIOUS
  <2>2. Start = [Start EXCEPT !.description = <<>>]
    BY <1>1 DEF Start
  <2> QED
    BY <1>1, <2>1, <2>2, ReadNothing
<1>3. ASSUME NEW u \in Seq(HashLines(K)), NEW l \in HashLines(K), u \in S
      PROVE  Append(u, l) \in S
  <2> DEFINE s == [Start EXCEPT !.description = u]
  <2>1. u \in Seq(LinesOver(K)) /\ Scanned(Start, u) = s /\ l \in LinesOver(K) /\ HasHash(l)
    BY <1>3 DEF HashLines
  <2>2. Append(u, l) \in Seq(LinesOver(K)) /\ Append(u, l) \in Seq(HashLines(K))
    BY <1>3, <2>1
  <2>3. Scanned(Start, Append(u, l)) = ReadLine(s, l)
    BY <1>1, <2>1, ReadOneMore
  <2>4. l # Blank
    <3>1. Blank.kind = "blank"
      BY DEF Blank
    <3> QED
      BY <2>1, <3>1 DEF HasHash
  <2>5. s.inDescription /\ s.description = u
    BY DEF Start
  <2>6. ReadLine(s, l) = [s EXCEPT !.description = Append(@, l)]
    BY <2>1, <2>4, <2>5 DEF ReadLine
  <2>7. ReadLine(s, l) = [Start EXCEPT !.description = Append(u, l)]
    BY <2>5, <2>6 DEF Start
  <2> QED
    BY <2>2, <2>3, <2>7
<1> HIDE DEF S
<1>4. \A u \in Seq(HashLines(K)) : u \in S
  BY <1>2, <1>3, TextInduction
<1> QED
  BY <1>4 DEF S

-----------------------------------------------------------------------------
(* A File that is written is read again.                                   *)

Files(K) ==
    [description : Seq(HashLines(K)), current : Sections(K), pending : Sections(K),
     snapshots : UNION {[ns -> Sections(K)] : ns \in SUBSET Names}]

LEMMA OneLine ==
    ASSUME NEW S, NEW e \in S
    PROVE  <<>> \in Seq(S) /\ <<e>> \in Seq(S) /\ Append(<<>>, e) = <<e>>
OBVIOUS

LEMMA FileType ==
    ASSUME NEW K, NEW s \in States(K)
    PROVE  /\ File(s) \in Files(K) /\ File(s).description # <<Comment(NoText)>>
           /\ File(s).current = Flush(s).current /\ File(s).pending = Flush(s).pending
           /\ File(s).snapshots = Flush(s).snapshots
           /\ Flush(s).description = s.description
           /\ s.description # <<Comment(NoText)>> => File(s).description = s.description
<1> DEFINE e == Flush(s)
           d == IF e.description = <<Comment(NoText)>> THEN <<>> ELSE e.description
<1>1. e \in States(K)
  BY FlushEffect
<1>2. Flush(s).description = s.description
  BY DEF Flush, States
<1>3. File(s) = [description |-> d, current |-> e.current, pending |-> e.pending,
                 snapshots |-> e.snapshots]
  BY DEF File
<1>4. d # <<Comment(NoText)>>
  <2>1. <<>> # <<Comment(NoText)>>
    OBVIOUS
  <2> QED
    BY <2>1
<1>5. d \in Seq(HashLines(K))
  <2>1. <<>> \in Seq(HashLines(K))
    OBVIOUS
  <2>2. e.description \in Seq(HashLines(K))
    BY <1>1 DEF States
  <2> QED
    BY <2>1, <2>2
<1>6. s.description # <<Comment(NoText)>> => d = s.description
  BY <1>2
<1> HIDE DEF d, e
<1>7. File(s) \in Files(K)
  <2>1. /\ e.current \in Sections(K) /\ e.pending \in Sections(K)
        /\ e.snapshots \in UNION {[ns -> Sections(K)] : ns \in SUBSET Names}
    BY <1>1 DEF States
  <2> QED
    BY <1>3, <1>5, <2>1 DEF Files
<1>8. /\ File(s).description = d /\ File(s).current = e.current
      /\ File(s).pending = e.pending /\ File(s).snapshots = e.snapshots
  BY <1>3
<1> QED
  BY <1>2, <1>4, <1>6, <1>7, <1>8 DEF e

LEMMA HeaderKinds ==
    ASSUME NEW K, NEW n \in Names \cup {"", "PENDING"}
    PROVE  /\ Header(n) \in LinesOver(K) /\ <<Header(n)>> \in Seq(LinesOver(K))
           /\ Header(n) # Blank /\ ~HasHash(Header(n))
           /\ Header(n).kind = "header" /\ Header(n).name = n
<1>1. Header(n).kind = "header" /\ Header(n).name = n
  BY DEF Header
<1>2. Header(n) \in LinesOver(K)
  BY DEF Header, LinesOver
<1>3. Blank.kind = "blank"
  BY DEF Blank
<1>4. <<Header(n)>> \in Seq(LinesOver(K))
  BY <1>2, OneLine
<1> QED
  BY <1>1, <1>2, <1>3, <1>4 DEF HasHash

(***************************************************************************)
(* A header puts what was read before it where it belongs.                 *)
(***************************************************************************)
LEMMA ReadHeader ==
    ASSUME NEW K, NEW s \in States(K), NEW n \in Names \cup {"", "PENDING"}
    PROVE  LET r == ReadLine(s, Header(n))
           IN  /\ Scanned(s, <<Header(n)>>) = r
               /\ r \in States(K) /\ ~r.inDescription
               /\ r.cur = EmptySection /\ r.description = s.description
               /\ r.current = Flush(s).current /\ r.pending = Flush(s).pending
               /\ r.snapshots = Flush(s).snapshots
               /\ r.target = IF n = "PENDING" THEN "pending" ELSE "none"
               /\ r.name = IF n = "PENDING" THEN "" ELSE n
<1> DEFINE l == Header(n)
           r == ReadLine(s, l)
           past == [s EXCEPT !.inDescription = FALSE]
           f == Flush(past)
<1>1. l \in LinesOver(K) /\ l # Blank /\ ~HasHash(l) /\ l.kind = "header" /\ l.name = n
  BY HeaderKinds
<1>2. Scanned(s, <<l>>) = r
  <2> HIDE DEF l
  <2>1. <<>> \in Seq(LinesOver(K)) /\ Append(<<>>, l) = <<l>>
    BY <1>1, OneLine
  <2>2. Scanned(s, Append(<<>>, l)) = ReadLine(Scanned(s, <<>>), l)
    BY <1>1, <2>1, ReadOneMore
  <2>3. Scanned(s, <<>>) = s
    BY ReadNothing
  <2> QED
    BY <2>1, <2>2, <2>3
<1> HIDE DEF l
<1>3. r \in States(K)
  BY <1>1, ReadLineType
<1>4. r = Enter(past, n)
  BY <1>1 DEF ReadLine
<1> HIDE DEF r
<1>5. /\ past \in States(K) /\ ~past.inDescription
      /\ past.description = s.description
  BY DEF States
<1>6. /\ f.current = Flush(s).current /\ f.pending = Flush(s).pending
      /\ f.snapshots = Flush(s).snapshots
  BY DEF Flush, States
<1> HIDE DEF past
<1>7. /\ f \in States(K) /\ f.cur = EmptySection /\ ~f.inDescription
      /\ f.description = s.description
  BY <1>5, FlushEffect, FileType
<1>8. r = [f EXCEPT !.target = IF n = "PENDING" THEN "pending" ELSE "none",
                    !.name = IF n = "PENDING" THEN "" ELSE n]
  BY <1>4 DEF Enter
<1> HIDE DEF f
<1>9. /\ ~r.inDescription /\ r.cur = EmptySection /\ r.description = s.description
      /\ r.current = f.current /\ r.pending = f.pending /\ r.snapshots = f.snapshots
      /\ r.target = IF n = "PENDING" THEN "pending" ELSE "none"
      /\ r.name = IF n = "PENDING" THEN "" ELSE n
  BY <1>7, <1>8 DEF States
<1> QED
  BY <1>2, <1>3, <1>6, <1>9 DEF l, r

WithHeader(n, sec) == <<Header(n)>> \o WriteSection(sec)

Headed(r, s, n, sec) ==
    /\ r.cur = sec /\ r.description = s.description
    /\ r.current = Flush(s).current /\ r.pending = Flush(s).pending
    /\ r.snapshots = Flush(s).snapshots
    /\ r.target = IF n = "PENDING" THEN "pending" ELSE "none"
    /\ r.name = IF n = "PENDING" THEN "" ELSE n

LEMMA ReadHeaderAndOptions ==
    ASSUME NEW K, NEW s \in States(K), NEW n \in Names \cup {"PENDING"},
           NEW sec \in Sections(K)
    PROVE  /\ WithHeader(n, sec) \in Seq(LinesOver(K))
           /\ Scanned(s, WithHeader(n, sec)) \in States(K)
           /\ Headed(Scanned(s, WithHeader(n, sec)), s, n, sec)
<1> DEFINE h == <<Header(n)>>
           o == WriteSection(sec)
           q == Scanned(s, h)
           r == Scanned(s, h \o o)
<1>1. h \in Seq(LinesOver(K)) /\ o \in Seq(LinesOver(K))
  BY HeaderKinds, SectionLines
<1>2. h \o o \in Seq(LinesOver(K))
  BY <1>1, ConcatProperties
<1>3. r = Scanned(q, o)
  <2> HIDE DEF h, o
  <2> QED
    BY <1>1, ReadOn
<1>4. /\ q \in States(K) /\ ~q.inDescription
      /\ q.cur = EmptySection /\ q.description = s.description
      /\ q.current = Flush(s).current /\ q.pending = Flush(s).pending
      /\ q.snapshots = Flush(s).snapshots
      /\ q.target = IF n = "PENDING" THEN "pending" ELSE "none"
      /\ q.name = IF n = "PENDING" THEN "" ELSE n
  <2>1. n \in Names \cup {"", "PENDING"}
    OBVIOUS
  <2>2. q = ReadLine(s, Header(n))
    BY <2>1, ReadHeader
  <2> HIDE DEF q
  <2> QED
    BY <2>1, <2>2, ReadHeader
<1> HIDE DEF q, h
<1>5. Scanned(q, o) \in States(K) /\ OnlyCur(Scanned(q, o), q) /\ Scanned(q, o).cur = sec
  BY <1>4, ReadOptions
<1> HIDE DEF o, r
<1>6. r \in States(K) /\ OnlyCur(r, q) /\ r.cur = sec
  BY <1>3, <1>5
<1>7. /\ r.description = s.description
      /\ r.current = Flush(s).current /\ r.pending = Flush(s).pending
      /\ r.snapshots = Flush(s).snapshots
      /\ r.target = IF n = "PENDING" THEN "pending" ELSE "none"
      /\ r.name = IF n = "PENDING" THEN "" ELSE n
  BY <1>4, <1>6 DEF OnlyCur
<1> QED
  BY <1>2, <1>6, <1>7 DEF h, o, r, WithHeader, Headed

\* What has been read of a File f: the snapshots ns of those it has.
Shows(s, f, ns) ==
    LET end == Flush(s)
    IN  /\ s.description = f.description
        /\ end.current = f.current /\ end.pending = f.pending
        /\ end.snapshots = [n \in DOMAIN f.snapshots \cap ns |-> f.snapshots[n]]

\* What comes before the snapshots.
Top(f) == f.description \o WriteSection(f.current) \o WritePending(f)

LEMMA NoOptions ==
    ASSUME NEW K, NEW sec \in Sections(K), sec.keys = <<>>
    PROVE  sec = EmptySection
<1>1. DOMAIN sec.values = ToSet(sec.keys) /\ sec = [keys |-> sec.keys, values |-> sec.values]
  BY DEF Sections
<1>2. PICK ks \in SUBSET K : sec.values \in [ks -> Values]
  BY DEF Sections
<1>3. ToSet(sec.keys) = {}
  BY DEF ToSet
<1>4. sec.values = <<>>
  <2>1. ks = {}
    BY <1>1, <1>2, <1>3
  <2>2. \A v \in [{} -> Values] : v = <<>>
    OBVIOUS
  <2> QED
    BY <1>2, <2>1, <2>2
<1> QED
  BY <1>1, <1>4 DEF EmptySection

LEMMA ReadTop ==
    ASSUME NEW K, NEW f \in Files(K), ToSet(f.current.keys) \cap HashKeys = {}
    PROVE  /\ Top(f) \in Seq(LinesOver(K))
           /\ Scanned(Start, Top(f)) \in States(K)
           /\ Shows(Scanned(Start, Top(f)), f, {})
<1> DEFINE E == LinesOver(K)
           d == f.description
           o == WriteSection(f.current)
           p == WritePending(f)
           a == Scanned(Start, d)
           b == Scanned(a, o)
           r == Scanned(b, p)
<1>1. /\ d \in Seq(HashLines(K)) /\ f.current \in Sections(K) /\ f.pending \in Sections(K)
  BY DEF Files
<1>2. Start \in States(K)
  BY StartType
<1>3. d \in Seq(E) /\ a = [Start EXCEPT !.description = d] /\ a \in States(K)
  BY <1>1, <1>2, ReadDescription, ScannedType
<1>4. o \in Seq(E)
  BY <1>1, SectionLines
<1> HIDE DEF a
<1>5. /\ a.description = d /\ a.cur = EmptySection /\ a.pending = EmptySection
      /\ a.snapshots = <<>> /\ a.target = "current" /\ a.name = ""
  BY <1>3 DEF Start
<1>6. b \in States(K) /\ OnlyCur(b, a) /\ b.cur = f.current
  <2> DEFINE sec == f.current
  <2>1. /\ sec \in Sections(K) /\ a \in States(K) /\ a.cur = EmptySection
        /\ a.inDescription => ToSet(sec.keys) \cap HashKeys = {}
    BY <1>1, <1>3, <1>5
  <2> HIDE DEF sec
  <2>2. LET q == Scanned(a, WriteSection(sec))
        IN  q \in States(K) /\ OnlyCur(q, a) /\ q.cur = sec
    BY <2>1, ReadOptions
  <2> QED
    BY <2>2 DEF sec
<1>7. d \o o \in Seq(E) /\ Scanned(Start, d \o o) = b
  BY <1>2, <1>3, <1>4, ReadOn DEF a
<1> HIDE DEF b, d, o
<1>8. /\ b.description = d /\ b.target = "current" /\ b.name = ""
      /\ Flush(b).current = f.current /\ Flush(b).pending = EmptySection
      /\ Flush(b).snapshots = <<>>
  <2>1. /\ b.description = d /\ b.target = "current" /\ b.name = ""
        /\ b.pending = EmptySection /\ b.snapshots = <<>>
    BY <1>5, <1>6 DEF OnlyCur
  <2>2. b.name # "" \/ Flush(b).snapshots = b.snapshots
    BY <1>6 DEF Flush, States
  <2> QED
    BY <1>6, <2>1, <2>2, FlushEffect
<1>9. \A x : [n \in DOMAIN f.snapshots \cap {} |-> f.snapshots[n]] = <<>>
  OBVIOUS
<1>10. CASE f.pending.keys = <<>>
  <2>1. p = <<>> /\ f.pending = EmptySection
    BY <1>1, <1>10, NoOptions DEF WritePending
  <2>2. p \in Seq(E) /\ r = b
    BY <1>6, <2>1, ReadNothing
  <2>3. Top(f) = (d \o o) \o p
    BY DEF Top, d, o
  <2>4. Top(f) \in Seq(E) /\ Scanned(Start, Top(f)) = b
    <3>1. (d \o o) \o <<>> = d \o o
      BY <1>7, ConcatEmptySeq
    <3> QED
      BY <1>7, <2>1, <2>3, <3>1
  <2>5. Shows(b, f, {})
    BY <1>8, <1>9, <2>1 DEF Shows, d
  <2> QED
    BY <1>6, <2>4, <2>5
<1>11. CASE f.pending.keys # <<>>
  <2>1. p = <<Header("PENDING")>> \o WriteSection(f.pending)
    BY <1>11 DEF WritePending
  <2>2. /\ p \in Seq(E) /\ r \in States(K)
        /\ r.cur = f.pending /\ r.description = b.description
        /\ r.current = Flush(b).current
        /\ r.snapshots = Flush(b).snapshots
        /\ r.target = "pending" /\ r.name = ""
    <3> DEFINE sec == f.pending
               t == WithHeader("PENDING", sec)
               q == Scanned(b, t)
    <3>1. "PENDING" \in Names \cup {"PENDING"} /\ sec \in Sections(K)
      BY <1>1
    <3> HIDE DEF sec
    <3>2. t \in Seq(E) /\ q \in States(K) /\ Headed(q, b, "PENDING", sec)
      BY <1>6, <3>1, ReadHeaderAndOptions
    <3>3. t = p
      BY <2>1 DEF WithHeader, sec
    <3> HIDE DEF t
    <3> QED
      BY <3>2, <3>3 DEF Headed, sec
  <2> HIDE DEF p
  <2>3. Top(f) = (d \o o) \o p
    BY DEF Top, d, o, p
  <2>4. Top(f) \in Seq(E) /\ Scanned(Start, Top(f)) = r
    <3> DEFINE u == d \o o
    <3>1. u \in Seq(E) /\ p \in Seq(E) /\ Scanned(Start, u) = b /\ Top(f) = u \o p
      BY <1>7, <2>2, <2>3
    <3> HIDE DEF u, r
    <3>2. u \o p \in Seq(E)
      BY <3>1, ConcatProperties
    <3>3. Scanned(Start, u \o p) = Scanned(Scanned(Start, u), p)
      BY <1>2, <3>1, ReadOn
    <3> QED
      BY <3>1, <3>2, <3>3 DEF r
  <2> HIDE DEF r
  <2>5. Shows(r, f, {})
    <3>1. r.name # "" \/ Flush(r).snapshots = r.snapshots
      BY <2>2 DEF Flush, States
    <3>2. /\ Flush(r).current = r.current /\ Flush(r).pending = f.pending
          /\ Flush(r).snapshots = r.snapshots
      BY <2>2, <3>1, FlushEffect
    <3> QED
      BY <1>8, <1>9, <2>2, <3>2 DEF Shows, d
  <2> QED
    BY <2>2, <2>4, <2>5
<1> QED
  BY <1>10, <1>11

LEMMA SnapshotLines ==
    ASSUME NEW K, NEW f \in Files(K), NEW n
    PROVE  WriteSnapshot(f, n) \in Seq(LinesOver(K))
<1>1. PICK ns \in SUBSET Names : f.snapshots \in [ns -> Sections(K)]
  BY DEF Files
<1>2. CASE n \in DOMAIN f.snapshots
  <2>1. n \in Names /\ f.snapshots[n] \in Sections(K)
    BY <1>1, <1>2
  <2>2. Start \in States(K)
    BY StartType
  <2>3. \A sec \in Sections(K) : WithHeader(n, sec) \in Seq(LinesOver(K))
    <3>1. n \in Names \cup {"PENDING"}
      BY <2>1
    <3> QED
      BY <2>2, <3>1, ReadHeaderAndOptions
  <2> QED
    BY <1>2, <2>1, <2>3 DEF WriteSnapshot, WithHeader
<1>3. CASE n \notin DOMAIN f.snapshots
  <2>1. <<>> \in Seq(LinesOver(K))
    OBVIOUS
  <2> QED
    BY <1>3, <2>1 DEF WriteSnapshot
<1> QED
  BY <1>2, <1>3

LEMMA ReadSnapshot ==
    ASSUME NEW K, NEW f \in Files(K), NEW s \in States(K), NEW ns, Shows(s, f, ns), NEW n \in Names
    PROVE  /\ Scanned(s, WriteSnapshot(f, n)) \in States(K)
           /\ Shows(Scanned(s, WriteSnapshot(f, n)), f, ns \cup {n})
<1>1. PICK ms \in SUBSET Names : f.snapshots \in [ms -> Sections(K)]
  BY DEF Files
<1> DEFINE t == WriteSnapshot(f, n)
           r == Scanned(s, t)
<1>2. CASE n \in DOMAIN f.snapshots
  <2>1. f.snapshots[n] \in Sections(K) /\ n \in Names \cup {"PENDING"}
        /\ n # "" /\ n # "PENDING"
    BY <1>1, <1>2, SnapshotsAssumption DEF Names
  <2>2. t = <<Header(n)>> \o WriteSection(f.snapshots[n])
    BY <1>2 DEF WriteSnapshot
  <2>3. /\ r \in States(K)
        /\ r.cur = f.snapshots[n] /\ r.description = s.description
        /\ r.current = Flush(s).current /\ r.pending = Flush(s).pending
        /\ r.snapshots = Flush(s).snapshots
        /\ r.target = "none" /\ r.name = n
    <3> DEFINE sec == f.snapshots[n]
               u == WithHeader(n, sec)
               q == Scanned(s, u)
    <3>1. sec \in Sections(K) /\ n \in Names \cup {"PENDING"} /\ n # "PENDING"
      BY <2>1
    <3> HIDE DEF sec
    <3>2. q \in States(K) /\ Headed(q, s, n, sec)
      BY <3>1, ReadHeaderAndOptions
    <3>3. u = t
      BY <2>2 DEF WithHeader, sec
    <3> HIDE DEF u, t
    <3> QED
      BY <3>1, <3>2, <3>3 DEF Headed, sec
  <2> HIDE DEF r
  <2>4. /\ Flush(r).current = r.current /\ Flush(r).pending = r.pending
    BY <2>1, <2>3, FlushEffect
  <2>5. Flush(r).snapshots = Value([values |-> r.snapshots], n, r.cur)
    BY <2>1, <2>3 DEF Flush, States
  <2>6. r.snapshots = [m \in DOMAIN f.snapshots \cap ns |-> f.snapshots[m]]
    BY <2>3 DEF Shows
  <2>7. Flush(r).snapshots = [m \in DOMAIN f.snapshots \cap (ns \cup {n}) |-> f.snapshots[m]]
    <3>1. DOMAIN f.snapshots \cap (ns \cup {n}) = (DOMAIN f.snapshots \cap ns) \cup {n}
      BY <1>2
    <3> DEFINE q == r.snapshots
    <3>2. DOMAIN q = DOMAIN f.snapshots \cap ns /\ \A m \in DOMAIN q : q[m] = f.snapshots[m]
      BY <2>6
    <3>3. Flush(r).snapshots = [m \in DOMAIN q \cup {n} |-> IF m = n THEN r.cur ELSE q[m]]
      BY <2>5 DEF Value
    <3> HIDE DEF q
    <3> QED
      BY <2>3, <3>1, <3>2, <3>3
  <2> QED
    BY <2>3, <2>4, <2>7 DEF Shows, r
<1>3. CASE n \notin DOMAIN f.snapshots
  <2>1. t = <<>>
    BY <1>3 DEF WriteSnapshot
  <2>2. r = s
    BY <2>1, ReadNothing
  <2>3. DOMAIN f.snapshots \cap (ns \cup {n}) = DOMAIN f.snapshots \cap ns
    BY <1>3
  <2> QED
    BY <2>2, <2>3 DEF Shows
<1> QED
  BY <1>2, <1>3

\* A snapshot more is written.
NextSnapshot(K, f) ==
    [p \in Seq(LinesOver(K)) \X Names |-> p[1] \o WriteSnapshot(f, p[2])]

LEMMA TopType ==
    ASSUME NEW K, NEW f \in Files(K)
    PROVE  Top(f) \in Seq(LinesOver(K))
<1>1. f.description \in Seq(HashLines(K)) /\ f.current \in Sections(K) /\ f.pending \in Sections(K)
  BY DEF Files
<1>2. f.description \in Seq(LinesOver(K)) /\ WriteSection(f.current) \in Seq(LinesOver(K))
  BY <1>1, ReadDescription, SectionLines
<1>3. WritePending(f) \in Seq(LinesOver(K))
  <2>1. <<>> \in Seq(LinesOver(K))
    OBVIOUS
  <2>2. WithHeader("PENDING", f.pending) \in Seq(LinesOver(K))
    BY <1>1, StartType, ReadHeaderAndOptions
  <2> QED
    BY <2>1, <2>2 DEF WritePending, WithHeader
<1> DEFINE d == f.description
           o == WriteSection(f.current)
           p == WritePending(f)
<1> HIDE DEF d, o, p
<1>4. (d \o o) \o p \in Seq(LinesOver(K))
  BY <1>2, <1>3, ConcatProperties DEF d, o, p
<1> QED
  BY <1>4 DEF Top, d, o, p

LEMMA FormatSteps ==
    ASSUME NEW K, NEW f \in Files(K)
    PROVE  /\ Snapshots \in Seq(Names)
           /\ \E g : Through(Seq(LinesOver(K)), Top(f), NextSnapshot(K, f), Snapshots, g, Format(f))
<1> DEFINE A == Seq(LinesOver(K))
           E == Names
           F == NextSnapshot(K, f)
           b == Top(f)
           t == Snapshots
           Op(out, n) == out \o WriteSnapshot(f, n)
           Body1(iter, s) == Op(iter[s \ {Max(s)}], t[Max(s)])
           Eq(iter) == iter = [s \in SUBSET DOMAIN t |-> IF s = {} THEN b ELSE Body1(iter, s)]
           It == CHOOSE iter : Eq(iter)
<1>1. Format(f) = It[DOMAIN t]
  BY DEF Format, FoldLeft, MapThenFoldSet, Top
<1>2. /\ t \in Seq(E) /\ Len(t) \in Nat /\ DOMAIN t = 1 .. Len(t)
      /\ \A i \in 1 .. Len(t) : t[i] \in E
  <2>1. t = [i \in 1 .. Len(t) |-> t[i]] /\ Len(t) \in Nat /\ DOMAIN t = 1 .. Len(t)
    <3> HIDE DEF t
    <3>1. t \in Seq(ToSet(t))
      BY SnapshotsAssumption DEF t
    <3>2. \A S : t \in Seq(S) =>
              t = [i \in 1 .. Len(t) |-> t[i]] /\ Len(t) \in Nat /\ DOMAIN t = 1 .. Len(t)
      OBVIOUS
    <3> QED
      BY <3>1, <3>2
  <2>2. \A i \in 1 .. Len(t) : t[i] \in E
    BY <2>1 DEF Names, ToSet
  <2> QED
    BY <2>1, <2>2
<1>3. F \in [A \X E -> A] /\ b \in A
  <2>1. ASSUME NEW p \in A \X E PROVE p[1] \o WriteSnapshot(f, p[2]) \in A
    <3>1. p[1] \in A /\ WriteSnapshot(f, p[2]) \in A
      BY SnapshotLines
    <3> QED
      BY <3>1, ConcatProperties
  <2>2. b \in A
    BY TopType
  <2> QED
    BY <2>1, <2>2 DEF NextSnapshot
<1>4. \A l \in A, s \in E : F[<<l, s>>] = Op(l, s)
  BY DEF NextSnapshot
<1> HIDE DEF A, E, F, b, Op, t
<1>5. \E iter : Eq(iter)
  <2>1. PICK iter \in [SUBSET DOMAIN t -> A] : FoldsOver(b, F, t, Len(t), iter)
    BY <1>2, <1>3, FoldExists
  <2>2. ASSUME NEW s \in SUBSET DOMAIN t, s # {}
        PROVE  F[<<iter[s \ {Max(s)}], t[Max(s)]>>] = Body1(iter, s)
    <3>1. iter[s \ {Max(s)}] \in A
      OBVIOUS
    <3>2. Max(s) \in DOMAIN t
      BY <1>2, <2>2, MaxOfPart
    <3> QED
      BY <3>1, <3>2, <1>2, <1>4
  <2>3. Eq(iter)
    BY <2>1, <2>2, <1>2 DEF FoldsOver
  <2> QED
    BY <2>3
<1>6. Eq(It)
  BY <1>5
<1> HIDE DEF It
<1>7. It[{}] = b
  BY <1>6
<1>8. ASSUME NEW n \in 1 .. Len(t), It[1 .. n - 1] \in A
      PROVE  It[1 .. n] = F[<<It[1 .. n - 1], t[n]>>]
  <2> DEFINE s == 1 .. n
  <2>1. s \in SUBSET DOMAIN t /\ s # {} /\ Max(s) = n /\ s \ {n} = 1 .. n - 1
    BY <1>2, LastOfPart
  <2> HIDE DEF s
  <2>2. It[s] = Op(It[s \ {Max(s)}], t[Max(s)])
    BY <1>6, <2>1
  <2>3. It[1 .. n] = Op(It[1 .. n - 1], t[n])
    BY <2>1, <2>2 DEF s
  <2> QED
    BY <2>3, <1>8, <1>2, <1>4
<1>9. PICK g : Through(A, b, F, t, g, It[DOMAIN t])
  <2>1. Steps(A, b, F, t, It)
    BY <1>7, <1>8 DEF Steps
  <2> QED
    BY <2>1, <1>2, <1>3, FoldSteps
<1> QED
  BY <1>1, <1>2, <1>9 DEF It, A, F, b, t, E

(***************************************************************************)
(* What is read of a written File is the File.                             *)
(***************************************************************************)
LEMMA FileRereads ==
    ASSUME NEW K, NEW f \in Files(K), f.description # <<Comment(NoText)>>,
           ToSet(f.current.keys) \cap HashKeys = {}
    PROVE  Parse(Format(f)) = f
<1> DEFINE A == Seq(LinesOver(K))
           N == Len(Snapshots)
           read(i) == {Snapshots[j] : j \in 1 .. i}
<1>1. PICK g : Through(A, Top(f), NextSnapshot(K, f), Snapshots, g, Format(f))
  BY FormatSteps
<1>2. /\ g[0] = Top(f) /\ g[N] = Format(f) /\ N \in Nat
      /\ \A n \in 0 .. N : g[n] \in A
      /\ \A n \in 1 .. N : g[n] = NextSnapshot(K, f)[<<g[n - 1], Snapshots[n]>>]
      /\ Snapshots \in Seq(Names) /\ DOMAIN Snapshots = 1 .. N
  BY <1>1, FormatSteps DEF Through
<1> HIDE DEF N
<1> DEFINE S == {n \in Nat : n <= N =>
                    /\ Scanned(Start, g[n]) \in States(K)
                    /\ Shows(Scanned(Start, g[n]), f, read(n))}
<1>3. 0 \in S
  <2>1. read(0) = {}
    OBVIOUS
  <2> QED
    BY <1>2, <2>1, ReadTop
<1>4. ASSUME NEW n \in Nat, n \in S PROVE n + 1 \in S
  <2> SUFFICES ASSUME n + 1 <= N
               PROVE  /\ Scanned(Start, g[n + 1]) \in States(K)
                      /\ Shows(Scanned(Start, g[n + 1]), f, read(n + 1))
    OBVIOUS
  <2>1. n \in 0 .. N /\ n + 1 \in 1 .. N /\ (n + 1) - 1 = n
    BY <1>2
  <2> DEFINE m == Snapshots[n + 1]
             w == WriteSnapshot(f, m)
  <2>2. m \in Names /\ w \in A /\ g[n] \in A
    BY <1>2, <2>1, SnapshotLines
  <2>3. read(n + 1) = read(n) \cup {m}
    <3>1. 1 .. n + 1 = 1 .. n \cup {n + 1}
      OBVIOUS
    <3> QED
      BY <3>1
  <2>4. g[n + 1] = g[n] \o w
    BY <1>2, <2>1, <2>2 DEF NextSnapshot
  <2> HIDE DEF m, w, read
  <2>5. Scanned(Start, g[n + 1]) = Scanned(Scanned(Start, g[n]), w)
    <3> DEFINE u == g[n]
    <3>1. u \in A /\ w \in A /\ g[n + 1] = u \o w /\ Start \in States(K)
      BY <2>2, <2>4, StartType
    <3> HIDE DEF u
    <3>2. Scanned(Start, u \o w) = Scanned(Scanned(Start, u), w)
      BY <3>1, ReadOn
    <3> QED
      BY <3>1, <3>2 DEF u
  <2>6. Scanned(Start, g[n]) \in States(K) /\ Shows(Scanned(Start, g[n]), f, read(n))
    BY <1>4, <2>1
  <2> QED
    BY <2>2, <2>3, <2>5, <2>6, ReadSnapshot DEF w
<1> HIDE DEF S
<1>5. \A n \in Nat : n \in S
  BY <1>3, <1>4, SetInduction
<1> DEFINE s == Scanned(Start, Format(f))
<1>6. s \in States(K) /\ Shows(s, f, read(N))
  <2>1. N \in S /\ N <= N
    BY <1>2, <1>5
  <2> QED
    BY <1>2, <2>1 DEF S
<1>7. PICK ns \in SUBSET Names : f.snapshots \in [ns -> Sections(K)]
  BY DEF Files
<1>8. read(N) = Names
  BY <1>2 DEF Names, ToSet
<1>9. [n \in DOMAIN f.snapshots \cap read(N) |-> f.snapshots[n]] = f.snapshots
  BY <1>7, <1>8
<1> HIDE DEF s, read
<1>10. /\ s.description = f.description /\ Flush(s).current = f.current
       /\ Flush(s).pending = f.pending /\ Flush(s).snapshots = f.snapshots
  BY <1>6, <1>9 DEF Shows
<1>11. File(s) \in Files(K) /\ File(s).description = f.description
       /\ File(s).current = f.current /\ File(s).pending = f.pending
       /\ File(s).snapshots = f.snapshots
  BY <1>6, <1>10, FileType
<1>12. \A u \in Files(K) : u = [description |-> u.description, current |-> u.current,
                               pending |-> u.pending, snapshots |-> u.snapshots]
  BY DEF Files
<1>13. File(s) = f
  BY <1>11, <1>12
<1> QED
  BY <1>13 DEF Parse, s, Scanned

-----------------------------------------------------------------------------
(* A plain text is what is written of what is read of it.                  *)

Rank(n) == IF n = "PENDING" THEN 0 ELSE CHOOSE i \in DOMAIN Snapshots : Snapshots[i] = n

\* Plain, but for what is still to come in the section that is being read.
Tidy(t) ==
    /\ \A i \in DOMAIN t :
          /\ t[i].kind \in {"comment", "header", "option"}
          /\ HasHash(t[i]) <=> ~InBody(t, i)
          /\ t[i].kind = "header" => t[i].name # ""
    /\ \A h \in HeadersIn(t) \cup {0} : \A i, j \in Body(t, h) : t[i].key = t[j].key => i = j
    /\ \A h \in HeadersIn(t) : t[h].name = "PENDING" /\ h # LastOfAll(t) => Body(t, h) # {}
    /\ \A h, j \in HeadersIn(t) : h < j => Rank(t[h].name) < Rank(t[j].name)

LEMMA RankMeans ==
    /\ Rank("PENDING") = 0 /\ Len(Snapshots) \in Nat /\ DOMAIN Snapshots = 1 .. Len(Snapshots)
    /\ \A n \in Names : /\ Rank(n) \in 1 .. Len(Snapshots) /\ Snapshots[Rank(n)] = n
                        /\ n # "" /\ n # "PENDING"
    /\ \A i \in 1 .. Len(Snapshots) : Snapshots[i] \in Names /\ Rank(Snapshots[i]) = i
<1>1. Len(Snapshots) \in Nat /\ DOMAIN Snapshots = 1 .. Len(Snapshots)
  <2>1. \A S : \A t \in Seq(S) : Len(t) \in Nat /\ DOMAIN t = 1 .. Len(t)
    OBVIOUS
  <2>2. Snapshots \in Seq(ToSet(Snapshots))
    BY SnapshotsAssumption
  <2> QED
    BY <2>1, <2>2
<1>2. \A i, j \in DOMAIN Snapshots : Snapshots[i] = Snapshots[j] => i = j
  BY SnapshotsAssumption
<1>3. \A n \in Names : n # "" /\ n # "PENDING" /\ \E i \in DOMAIN Snapshots : Snapshots[i] = n
  BY SnapshotsAssumption DEF Names, ToSet
<1>4. \A i \in DOMAIN Snapshots : Snapshots[i] \in Names
  BY DEF Names, ToSet
<1>5. \A n \in Names : Rank(n) \in DOMAIN Snapshots /\ Snapshots[Rank(n)] = n
  BY <1>3 DEF Rank
<1>6. \A i \in DOMAIN Snapshots : Rank(Snapshots[i]) = i
  BY <1>2, <1>4, <1>5
<1>7. Rank("PENDING") = 0
  BY DEF Rank
<1> QED
  BY <1>1, <1>3, <1>4, <1>5, <1>6, <1>7

\* The section being read sets another key than this line does.
KeyIsNew(t, l) == \A i \in Body(t, LastOfAll(t)) : t[i].key # l.key

(***************************************************************************)
(* The lines above another are tidy if it and they are, and what is tidy   *)
(* of the line itself.                                                     *)
(***************************************************************************)
LEMMA TidyLine ==
    ASSUME NEW K, NEW t \in Seq(LinesOver(K)), NEW l \in LinesOver(K),
           Tidy(Append(t, l))
    PROVE  /\ Tidy(t) /\ l.kind \in {"comment", "header", "option"}
           /\ HasHash(l) => ~Begun(t)
           /\ l.kind = "header" =>
                 /\ l.name # ""
                 /\ \A h \in HeadersIn(t) : Rank(t[h].name) < Rank(l.name)
                 /\ LET h == LastOfAll(t)
                    IN  h # 0 /\ t[h].name = "PENDING" => Body(t, h) # {}
           /\ l.kind = "option" /\ ~HasHash(l) => KeyIsNew(t, l)
<1> DEFINE u == Append(t, l)
           N == Len(t) + 1
           last == LastOfAll(t)
<1>1. /\ u \in Seq(LinesOver(K)) /\ Len(t) \in Nat /\ DOMAIN t = 1 .. Len(t)
      /\ DOMAIN u = 1 .. N
      /\ \A i \in DOMAIN t : u[i] = t[i]
      /\ u[N] = l
      /\ HeadersIn(u) = HeadersIn(t) \cup (IF l.kind = "header" THEN {N} ELSE {})
  BY OneLineMore
<1>2. /\ \A i \in DOMAIN t : InBody(u, i) <=> InBody(t, i)
      /\ InBody(u, N) <=> Begun(t) \/ (~HasHash(l) /\ l # Blank)
  BY InBodyAfter
<1>3. LastOfAll(u) = IF l.kind = "header" THEN N ELSE last
  BY LastOfAllAfter
<1>4. \A h \in 0 .. Len(t) :
         Body(u, h) = IF l.kind = "option" /\ last <= h /\ (Begun(t) \/ ~HasHash(l))
                      THEN Body(t, h) \cup {N} ELSE Body(t, h)
  BY BodyAfter
<1>5. last \in HeadersIn(t) \cup {0} /\ last \in 0 .. Len(t)
      /\ \A j \in HeadersIn(t) : j <= last
  BY LastOfAllMeans
<1>6. HeadersIn(t) \subseteq DOMAIN t /\ \A h : Body(t, h) \subseteq DOMAIN t
  BY DEF HeadersIn, Body
<1>7. Tidy(u)
  OBVIOUS
<1> HIDE DEF u, N, last
<1>8. N \in Nat /\ N \notin DOMAIN t /\ DOMAIN t \subseteq DOMAIN u /\ N \in DOMAIN u
  BY <1>1 DEF N
<1>9. /\ l.kind \in {"comment", "header", "option"}
      /\ HasHash(l) <=> ~InBody(u, N)
      /\ l.kind = "header" => l.name # ""
  BY <1>1, <1>7, <1>8 DEF Tidy
<1>10. HasHash(l) => ~Begun(t)
  BY <1>2, <1>9
<1>11. ASSUME l.kind = "header" PROVE \A h \in HeadersIn(t) : Rank(t[h].name) < Rank(l.name)
  <2> SUFFICES ASSUME NEW h \in HeadersIn(t) PROVE Rank(t[h].name) < Rank(l.name)
    OBVIOUS
  <2>1. h \in HeadersIn(u) /\ N \in HeadersIn(u) /\ h < N /\ u[h] = t[h] /\ u[N] = l
    BY <1>1, <1>6, <1>11 DEF N
  <2>2. Rank(u[h].name) < Rank(u[N].name)
    BY <1>7, <2>1 DEF Tidy
  <2> QED
    BY <2>1, <2>2
<1>12. ASSUME l.kind = "header", last # 0, t[last].name = "PENDING" PROVE Body(t, last) # {}
  <2>1. last \in HeadersIn(u) /\ last # LastOfAll(u) /\ u[last] = t[last]
    BY <1>1, <1>3, <1>5, <1>6, <1>8, <1>12
  <2>2. Body(u, last) # {}
    BY <1>7, <1>12, <2>1 DEF Tidy
  <2> QED
    BY <1>4, <1>5, <1>12, <2>2
<1>13. ASSUME l.kind = "option", ~HasHash(l), NEW i \in Body(t, last) PROVE t[i].key # l.key
  <2>1. last \in HeadersIn(u) \cup {0} /\ Body(u, last) = Body(t, last) \cup {N}
    BY <1>1, <1>4, <1>5, <1>13
  <2>2. i \in DOMAIN t /\ u[i] = t[i] /\ i # N
    BY <1>1, <1>6, <1>8, <1>13
  <2>3. u[i].key = u[N].key => i = N
    BY <1>7, <1>13, <2>1 DEF Tidy
  <2> QED
    BY <1>1, <2>2, <2>3
<1>14. Tidy(t)
  <2>1. ASSUME NEW i \in DOMAIN t
        PROVE  /\ t[i].kind \in {"comment", "header", "option"}
               /\ HasHash(t[i]) <=> ~InBody(t, i)
               /\ t[i].kind = "header" => t[i].name # ""
    <3>1. i \in DOMAIN u /\ u[i] = t[i]
      BY <1>1, <1>8
    <3> QED
      BY <1>2, <1>7, <3>1 DEF Tidy
  <2>2. ASSUME NEW h \in HeadersIn(t) \cup {0}, NEW i \in Body(t, h), NEW j \in Body(t, h),
               t[i].key = t[j].key
        PROVE  i = j
    <3>1. h \in 0 .. Len(t) /\ h \in HeadersIn(u) \cup {0}
      BY <1>1, <1>6
    <3>2. i \in Body(u, h) /\ j \in Body(u, h) /\ u[i] = t[i] /\ u[j] = t[j]
      BY <1>1, <1>4, <1>6, <3>1
    <3> QED
      BY <1>7, <2>2, <3>1, <3>2 DEF Tidy
  <2>3. ASSUME NEW h \in HeadersIn(t), t[h].name = "PENDING", h # last PROVE Body(t, h) # {}
    <3>1. h \in 0 .. Len(t) /\ h \in HeadersIn(u) /\ u[h] = t[h] /\ h < last /\ h # N
      BY <1>1, <1>5, <1>6, <1>8, <2>3
    <3>2. h # LastOfAll(u)
      BY <1>3, <2>3, <3>1
    <3>3. Body(u, h) # {}
      BY <1>7, <2>3, <3>1, <3>2 DEF Tidy
    <3>4. ~(last <= h)
      BY <1>5, <3>1
    <3> QED
      BY <1>4, <3>1, <3>3, <3>4
  <2>4. ASSUME NEW h \in HeadersIn(t), NEW j \in HeadersIn(t), h < j
        PROVE  Rank(t[h].name) < Rank(t[j].name)
    <3>1. h \in HeadersIn(u) /\ j \in HeadersIn(u) /\ u[h] = t[h] /\ u[j] = t[j]
      BY <1>1, <1>6
    <3>2. Rank(u[h].name) < Rank(u[j].name)
      BY <1>7, <2>4, <3>1 DEF Tidy
    <3> QED
      BY <3>1, <3>2
  <2> QED
    BY <2>1, <2>2, <2>3, <2>4 DEF Tidy, last
<1> QED
  BY <1>9, <1>10, <1>11, <1>12, <1>13, <1>14 DEF last, KeyIsNew

(***************************************************************************)
(* Which sections there can be, by the one that is being read.             *)
(***************************************************************************)
LEMMA TidyState ==
    ASSUME NEW K, NEW t \in Seq(LinesOver(K)), NEW s \in States(K), Placed(t, s), Tidy(t)
    PROVE  /\ s.name # "" \/ s.target \in {"current", "pending"}
           /\ s.name = "" => DOMAIN s.snapshots = {}
           /\ s.name = "" /\ s.target = "current" => s.pending = EmptySection /\ HeadersIn(t) = {}
           /\ s.name # "" =>
                 /\ s.target = "none" /\ s.name \in Names
                 /\ \A m \in DOMAIN s.snapshots \ {s.name} :
                       m \in Names /\ Rank(m) < Rank(s.name)
           /\ s.target = "pending" => s.name = ""
<1> DEFINE h == LastOfAll(t)
<1>1. ReadsSection(t, s) /\ SectionsKept(t, s)
  BY DEF Placed
<1>2. h \in HeadersIn(t) \cup {0} /\ h \in 0 .. Len(t) /\ \A j \in HeadersIn(t) : j <= h
  BY LastOfAllMeans
<1>3. HeadersIn(t) \subseteq DOMAIN t /\ DOMAIN t = 1 .. Len(t) /\ Len(t) \in Nat
  BY DEF HeadersIn
<1>4. \A j \in HeadersIn(t) : t[j].name \in Names \cup {"PENDING"}
  <2> SUFFICES ASSUME NEW j \in HeadersIn(t) PROVE t[j].name \in Names \cup {"PENDING"}
    OBVIOUS
  <2>1. j \in DOMAIN t /\ t[j].kind = "header" /\ t[j] \in LinesOver(K)
    BY DEF HeadersIn
  <2>2. t[j].name # ""
    BY <2>1 DEF Tidy
  <2> QED
    BY <2>1, <2>2, LineKinds
<1>5. DOMAIN s.snapshots \cup ({s.name} \ {""}) = {n \in Names : LastHeader(t, n) # 0}
  BY <1>1 DEF SectionsKept
<1>6. \A n : LastHeader(t, n) \in {i \in HeadersIn(t) : t[i].name = n} \cup {0}
  BY LastHeaderMeans
<1> HIDE DEF h
<1>7. CASE h = 0
  <2>1. HeadersIn(t) = {}
    BY <1>2, <1>3, <1>7
  <2>2. s.name = "" /\ s.target = "current"
    BY <1>1, <1>7 DEF ReadsSection, h
  <2>3. \A n : LastHeader(t, n) = 0
    BY <1>6, <2>1
  <2>4. DOMAIN s.snapshots = {}
    <3>1. {n \in Names : LastHeader(t, n) # 0} = {}
      BY <2>3
    <3> QED
      BY <1>5, <3>1
  <2>5. s.pending = EmptySection
    <3>1. Holds(s.pending, t, {})
      BY <1>1, <2>2, <2>3 DEF SectionsKept, PendingLines
    <3>2. ToSet(s.pending.keys) = {}
      BY <3>1, HoldsMeans
    <3>3. s.pending \in Sections(K)
      BY DEF States
    <3>4. s.pending.keys = <<>>
      <4>1. s.pending.keys \in Seq(K)
        BY <3>3 DEF Sections
      <4>2. \A q \in Seq(K) : q # <<>> => q[1] \in ToSet(q)
        BY DEF ToSet
      <4> QED
        BY <3>2, <4>1, <4>2
    <3> QED
      BY <3>3, <3>4, NoOptions
  <2> QED
    BY <2>1, <2>2, <2>4, <2>5
<1>8. CASE h # 0 /\ t[h].name = "PENDING"
  <2>1. s.name = "" /\ s.target = "pending"
    BY <1>1, <1>8 DEF ReadsSection, h
  <2>2. ASSUME NEW j \in HeadersIn(t), t[j].name # "PENDING" PROVE FALSE
    <3>1. h \in HeadersIn(t) /\ j < h
      BY <1>2, <1>3, <1>8, <2>2
    <3>2. Rank(t[j].name) < Rank(t[h].name)
      BY <2>2, <3>1 DEF Tidy
    <3>3. Rank(t[j].name) \in Nat /\ Rank(t[h].name) = 0
      <4>1. t[j].name \in Names
        BY <1>4, <2>2
      <4>2. Rank(t[j].name) \in 1 .. Len(Snapshots) /\ Len(Snapshots) \in Nat
        BY <4>1, RankMeans
      <4>3. Rank(t[h].name) = 0
        <5>1. Rank(t[h].name) = Rank("PENDING")
          BY <1>8
        <5> QED
          BY <5>1, RankMeans
      <4>4. \A r, n : n \in Nat /\ r \in 1 .. n => r \in Nat
        OBVIOUS
      <4> QED
        BY <4>2, <4>3, <4>4
    <3> QED
      BY <3>2, <3>3
  <2>3. \A n \in Names : LastHeader(t, n) = 0
    BY <1>6, <2>2, RankMeans
  <2>4. DOMAIN s.snapshots = {}
    BY <1>5, <2>3
  <2> QED
    BY <2>1, <2>4
<1>9. CASE h # 0 /\ t[h].name # "PENDING"
  <2>1. s.name = t[h].name /\ s.target = "none" /\ s.name \in Names /\ s.name # ""
    BY <1>1, <1>2, <1>4, <1>9, RankMeans DEF ReadsSection, h
  <2>2. ASSUME NEW m \in DOMAIN s.snapshots \ {s.name}
        PROVE  m \in Names /\ Rank(m) < Rank(s.name)
    <3>1. m \in Names /\ LastHeader(t, m) # 0
      BY <1>5
    <3> DEFINE j == LastHeader(t, m)
    <3>2. j \in HeadersIn(t) /\ t[j].name = m
      BY <1>6, <3>1
    <3>3. h \in HeadersIn(t) /\ j < h
      <4>1. h \in HeadersIn(t) /\ j <= h
        BY <1>2, <1>9, <3>2
      <4>2. j # h
        BY <2>1, <2>2, <3>2
      <4>3. j \in Int /\ h \in Int
        BY <1>3, <3>2, <4>1
      <4> HIDE DEF j
      <4> QED
        BY <4>1, <4>2, <4>3
    <3> HIDE DEF j
    <3>4. Rank(t[j].name) < Rank(t[h].name)
      BY <3>2, <3>3 DEF Tidy
    <3> QED
      BY <2>1, <3>1, <3>2, <3>4
  <2> QED
    BY <2>1, <2>2
<1> QED
  BY <1>7, <1>8, <1>9

-----------------------------------------------------------------------------
(* What Format writes, a section at a time.                                *)

Without(f, n) ==
    [description |-> f.description, current |-> f.current, pending |-> f.pending,
     snapshots |-> [m \in DOMAIN f.snapshots \ {n} |-> f.snapshots[m]]]

LEMMA WithoutType ==
    ASSUME NEW K, NEW f \in Files(K), NEW n
    PROVE  Without(f, n) \in Files(K)
<1>1. PICK ns \in SUBSET Names : f.snapshots \in [ns -> Sections(K)]
  BY DEF Files
<1>2. [m \in DOMAIN f.snapshots \ {n} |-> f.snapshots[m]] \in [ns \ {n} -> Sections(K)]
  BY <1>1
<1>3. ns \ {n} \in SUBSET Names
  OBVIOUS
<1>4. [m \in DOMAIN f.snapshots \ {n} |-> f.snapshots[m]]
        \in UNION {[ms -> Sections(K)] : ms \in SUBSET Names}
  BY <1>2, <1>3
<1>5. /\ f.description \in Seq(HashLines(K)) /\ f.current \in Sections(K)
      /\ f.pending \in Sections(K)
  BY DEF Files
<1> QED
  BY <1>4, <1>5 DEF Without, Files

(***************************************************************************)
(* The snapshot that is last in the order is written last,                 *)
(***************************************************************************)
LEMMA FormatLast ==
    ASSUME NEW K, NEW f \in Files(K), NEW n \in DOMAIN f.snapshots,
           \A m \in DOMAIN f.snapshots \ {n} : Rank(m) < Rank(n)
    PROVE  Format(f) = Format(Without(f, n)) \o WithHeader(n, f.snapshots[n])
<1> DEFINE A == Seq(LinesOver(K))
           N == Len(Snapshots)
           f0 == Without(f, n)
           w == WithHeader(n, f.snapshots[n])
           k == Rank(n)
<1>1. PICK ns \in SUBSET Names : f.snapshots \in [ns -> Sections(K)]
  BY DEF Files
<1>2. n \in Names /\ f.snapshots[n] \in Sections(K)
  BY <1>1
<1>3. /\ f0 \in Files(K) /\ DOMAIN f0.snapshots = DOMAIN f.snapshots \ {n}
      /\ \A m \in DOMAIN f0.snapshots : f0.snapshots[m] = f.snapshots[m]
      /\ Top(f0) = Top(f)
  BY WithoutType DEF Without, Top, WritePending
<1>4. N \in Nat /\ k \in 1 .. N /\ Snapshots[k] = n
      /\ \A i \in 1 .. N : Snapshots[i] \in Names /\ Rank(Snapshots[i]) = i
  BY <1>2, RankMeans
<1>5. w \in A /\ WriteSnapshot(f, n) = w /\ WriteSnapshot(f0, n) = <<>>
  <2>1. w = WriteSnapshot(f, n)
    BY DEF WithHeader, WriteSnapshot
  <2>2. WriteSnapshot(f0, n) = <<>>
    BY <1>3 DEF WriteSnapshot
  <2> QED
    BY <2>1, <2>2, SnapshotLines
<1>6. PICK g : Through(A, Top(f), NextSnapshot(K, f), Snapshots, g, Format(f))
  BY FormatSteps
<1>7. PICK g0 : Through(A, Top(f), NextSnapshot(K, f0), Snapshots, g0, Format(f0))
  <2> HIDE DEF f0
  <2> QED
    BY <1>3, FormatSteps
<1> HIDE DEF f0, w, k, N
<1>8. /\ g[0] = Top(f) /\ g[N] = Format(f)
      /\ \A i \in 0 .. N : g[i] \in A
      /\ \A i \in 1 .. N : g[i] = NextSnapshot(K, f)[<<g[i - 1], Snapshots[i]>>]
  BY <1>6 DEF Through, N
<1>9. /\ g0[0] = Top(f) /\ g0[N] = Format(f0)
      /\ \A i \in 0 .. N : g0[i] \in A
      /\ \A i \in 1 .. N : g0[i] = NextSnapshot(K, f0)[<<g0[i - 1], Snapshots[i]>>]
  BY <1>7 DEF Through, N
<1>10. ASSUME NEW i \in 1 .. N
       PROVE  /\ i - 1 \in 0 .. N /\ i \in 0 .. N
              /\ g[i] = g[i - 1] \o WriteSnapshot(f, Snapshots[i])
              /\ g0[i] = g0[i - 1] \o WriteSnapshot(f0, Snapshots[i])
  <2>1. i - 1 \in 0 .. N /\ i \in 0 .. N
    BY <1>4
  <2> QED
    BY <1>4, <1>8, <1>9, <2>1 DEF NextSnapshot
<1> DEFINE S == {i \in Nat : i <= N => g[i] = IF i < k THEN g0[i] ELSE g0[i] \o w}
<1>11. 0 \in S
  BY <1>4, <1>8, <1>9
<1>12. ASSUME NEW j \in Nat, j \in S PROVE j + 1 \in S
  <2> DEFINE i == j + 1
             x == g0[j]
             m == Snapshots[i]
  <2> SUFFICES ASSUME i <= N PROVE g[i] = IF i < k THEN g0[i] ELSE g0[i] \o w
    OBVIOUS
  <2>1. i \in 1 .. N /\ i - 1 = j /\ j \in 0 .. N
    BY <1>4
  <2>2. /\ g[i] = g[j] \o WriteSnapshot(f, m) /\ g0[i] = x \o WriteSnapshot(f0, m)
        /\ x \in A /\ g[j] = IF j < k THEN x ELSE x \o w
    <3>1. j <= N
      BY <1>4, <2>1
    <3>2. x \in A /\ g[j] = IF j < k THEN x ELSE x \o w
      BY <1>9, <1>12, <2>1, <3>1
    <3>3. /\ g[i] = g[i - 1] \o WriteSnapshot(f, m)
          /\ g0[i] = g0[i - 1] \o WriteSnapshot(f0, m)
      BY <1>10, <2>1
    <3> QED
      BY <2>1, <3>2, <3>3
  <2>3. Rank(m) = i /\ m \in Names
    BY <1>4, <2>1
  <2>4. CASE i < k
    <3>1. m # n
      BY <1>4, <2>3, <2>4 DEF k
    <3>2. WriteSnapshot(f, m) = WriteSnapshot(f0, m)
      BY <1>3, <3>1 DEF WriteSnapshot
    <3>3. j < k
      BY <1>4, <2>4
    <3> QED
      BY <2>2, <2>4, <3>2, <3>3
  <2>5. CASE i = k
    <3>1. m = n /\ j < k
      BY <1>4, <2>5
    <3>2. g[i] = x \o w /\ g0[i] = x \o <<>>
      BY <1>5, <2>2, <3>1
    <3>3. x \o <<>> = x
      BY <2>2, ConcatEmptySeq
    <3>4. ~(i < k)
      BY <1>4, <2>5
    <3> QED
      BY <3>2, <3>3, <3>4
  <2>6. CASE i > k
    <3>1. m # n /\ ~(j < k) /\ ~(i < k)
      BY <1>4, <2>3, <2>6 DEF k
    <3>2. m \notin DOMAIN f.snapshots
      <4>1. m \in DOMAIN f.snapshots => i < k
        BY <2>3, <3>1 DEF k
      <4> QED
        BY <3>1, <4>1
    <3>3. WriteSnapshot(f, m) = <<>> /\ WriteSnapshot(f0, m) = <<>>
      BY <1>3, <3>2 DEF WriteSnapshot
    <3> HIDE DEF i, m, x
    <3>4. g[i] = (x \o w) \o <<>> /\ g0[i] = x \o <<>>
      BY <2>2, <3>1, <3>3
    <3>5. (x \o w) \o <<>> = x \o w /\ x \o <<>> = x
      <4>1. x \o w \in A
        BY <1>5, <2>2, ConcatProperties
      <4> QED
        BY <2>2, <4>1, ConcatEmptySeq
    <3> QED
      BY <3>1, <3>4, <3>5 DEF i
  <2> QED
    BY <1>4, <2>1, <2>4, <2>5, <2>6
<1> HIDE DEF S
<1>13. \A i \in Nat : i \in S
  BY <1>11, <1>12, SetInduction
<1>14. N \in S /\ N <= N /\ ~(N < k)
  BY <1>4, <1>13
<1> QED
  BY <1>4, <1>8, <1>9, <1>14 DEF S, f0, w

(***************************************************************************)
(* and nothing follows the rest if there is none.                          *)
(***************************************************************************)
LEMMA FormatTop ==
    ASSUME NEW K, NEW f \in Files(K), DOMAIN f.snapshots = {}
    PROVE  Format(f) = Top(f)
<1> DEFINE A == Seq(LinesOver(K))
           N == Len(Snapshots)
<1>1. PICK g : Through(A, Top(f), NextSnapshot(K, f), Snapshots, g, Format(f))
  BY FormatSteps
<1>2. /\ g[0] = Top(f) /\ g[N] = Format(f) /\ N \in Nat
      /\ \A i \in 0 .. N : g[i] \in A
      /\ \A i \in 1 .. N : g[i] = NextSnapshot(K, f)[<<g[i - 1], Snapshots[i]>>]
      /\ \A i \in 1 .. N : Snapshots[i] \in Names
  BY <1>1, RankMeans DEF Through
<1> HIDE DEF N
<1> DEFINE S == {i \in Nat : i <= N => g[i] = Top(f)}
<1>3. 0 \in S
  BY <1>2
<1>4. ASSUME NEW j \in Nat, j \in S PROVE j + 1 \in S
  <2> SUFFICES ASSUME j + 1 <= N PROVE g[j + 1] = Top(f)
    OBVIOUS
  <2>1. j + 1 \in 1 .. N /\ (j + 1) - 1 = j /\ j \in 0 .. N /\ j <= N
    BY <1>2
  <2>2. g[j + 1] = g[j] \o WriteSnapshot(f, Snapshots[j + 1]) /\ g[j] \in A /\ g[j] = Top(f)
    BY <1>2, <1>4, <2>1 DEF NextSnapshot
  <2>3. WriteSnapshot(f, Snapshots[j + 1]) = <<>>
    BY DEF WriteSnapshot
  <2> QED
    BY <2>2, <2>3, ConcatEmptySeq
<1> HIDE DEF S
<1>5. N \in S /\ N <= N
  <2>1. \A i \in Nat : i \in S
    BY <1>3, <1>4, SetInduction
  <2> QED
    BY <1>2, <2>1
<1> QED
  BY <1>2, <1>5 DEF S

(***************************************************************************)
(* The File that the scan has read so far, and the File of what it has     *)
(* read above the section it is in.                                        *)
(***************************************************************************)
FlushedFile(s) ==
    [description |-> s.description, current |-> Flush(s).current,
     pending |-> Flush(s).pending, snapshots |-> Flush(s).snapshots]

Before(s) ==
    [description |-> s.description, current |-> s.current,
     pending |-> IF s.target = "pending" THEN EmptySection ELSE s.pending,
     snapshots |-> [m \in DOMAIN s.snapshots \ {s.name} |-> s.snapshots[m]]]

\* What is written so far, also of a [PENDING] that has no options yet.
Written(s) ==
    IF s.name # "" THEN Format(Before(s)) \o WithHeader(s.name, s.cur)
    ELSE IF s.target = "pending" THEN Format(Before(s)) \o WithHeader("PENDING", s.cur)
    ELSE s.description \o WriteSection(s.cur)

\* The description is the lines above the body.
Described(t, s) ==
    /\ DOMAIN s.description = {i \in DOMAIN t : ~InBody(t, i)}
    /\ \A i \in DOMAIN s.description : s.description[i] = t[i]

LEMMA HoldsNothing ==
    ASSUME NEW K, NEW sec \in Sections(K), NEW t, Holds(sec, t, {})
    PROVE  sec = EmptySection
<1>1. ToSet(sec.keys) = {}
  BY HoldsMeans
<1>2. sec.keys \in Seq(K)
  BY DEF Sections
<1>3. \A q \in Seq(K) : q # <<>> => q[1] \in ToSet(q)
  BY DEF ToSet
<1> QED
  BY <1>1, <1>2, <1>3, NoOptions

LEMMA NothingWritten == WriteSection(EmptySection) = <<>>
<1>1. EmptySection.keys = <<>>
  BY DEF EmptySection
<1>2. \A k : DOMAIN <<>> = {} /\ [i \in {} |-> k] = <<>>
  OBVIOUS
<1>3. DOMAIN EmptySection.keys = {}
  BY <1>1
<1>4. WriteSection(EmptySection)
        = [i \in {} |-> Option(EmptySection.keys[i], EmptySection.values[EmptySection.keys[i]])]
  BY <1>3 DEF WriteSection
<1> QED
  BY <1>4

LEMMA FormatType ==
    ASSUME NEW K, NEW f \in Files(K)
    PROVE  Format(f) \in Seq(LinesOver(K))
<1>1. PICK g : Through(Seq(LinesOver(K)), Top(f), NextSnapshot(K, f), Snapshots, g, Format(f))
  BY FormatSteps
<1>2. Len(Snapshots) \in Nat
  BY RankMeans
<1> QED
  BY <1>1, <1>2 DEF Through

LEMMA PartFiles ==
    ASSUME NEW K, NEW s \in States(K)
    PROVE  /\ FlushedFile(s) \in Files(K) /\ Before(s) \in Files(K)
           /\ s.description \in Seq(LinesOver(K))
<1>1. /\ s.description \in Seq(HashLines(K)) /\ s.current \in Sections(K)
      /\ s.pending \in Sections(K)
  BY DEF States
<1>2. PICK ns \in SUBSET Names : s.snapshots \in [ns -> Sections(K)]
  BY DEF States
<1>3. FlushedFile(s) \in Files(K)
  <2>1. Flush(s) \in States(K)
    BY FlushEffect
  <2> DEFINE e == Flush(s)
  <2> HIDE DEF e
  <2>2. /\ e.current \in Sections(K) /\ e.pending \in Sections(K)
        /\ e.snapshots \in UNION {[ms -> Sections(K)] : ms \in SUBSET Names}
    BY <2>1 DEF States, e
  <2> QED
    BY <1>1, <2>2 DEF FlushedFile, Files, e
<1>4. Before(s) \in Files(K)
  <2> DEFINE q == [m \in DOMAIN s.snapshots \ {s.name} |-> s.snapshots[m]]
             p == IF s.target = "pending" THEN EmptySection ELSE s.pending
  <2>1. q \in [ns \ {s.name} -> Sections(K)] /\ ns \ {s.name} \in SUBSET Names
    BY <1>2
  <2>2. p \in Sections(K)
    BY <1>1, EmptyType
  <2>3. Before(s) = [description |-> s.description, current |-> s.current,
                     pending |-> p, snapshots |-> q]
    BY DEF Before
  <2> HIDE DEF q, p
  <2>4. q \in UNION {[ms -> Sections(K)] : ms \in SUBSET Names}
    BY <2>1
  <2> QED
    BY <1>1, <2>2, <2>3, <2>4 DEF Files
<1>5. s.description \in Seq(LinesOver(K))
  <2>1. \A d \in Seq(HashLines(K)) : d \in Seq(LinesOver(K))
    BY ReadDescription
  <2> QED
    BY <1>1, <2>1
<1> QED
  BY <1>3, <1>4, <1>5

(***************************************************************************)
(* Of a tidy text, what is written so far is what Format writes of what    *)
(* has been read so far.                                                   *)
(***************************************************************************)
LEMMA WrittenFlushed ==
    ASSUME NEW K, NEW t \in Seq(LinesOver(K)), NEW s \in States(K), Placed(t, s), Tidy(t),
           s.target = "pending" => s.cur.keys # <<>>
    PROVE  Format(FlushedFile(s)) = Written(s)
<1> DEFINE f == FlushedFile(s)
           b == Before(s)
           d == s.description
           E == LinesOver(K)
<1>1. f \in Files(K) /\ b \in Files(K) /\ d \in Seq(E)
  BY PartFiles
<1>2. /\ s.name # "" \/ s.target \in {"current", "pending"}
      /\ s.name = "" => DOMAIN s.snapshots = {}
      /\ s.name = "" /\ s.target = "current" => s.pending = EmptySection /\ HeadersIn(t) = {}
      /\ s.name # "" =>
            /\ s.target = "none" /\ s.name \in Names
            /\ \A m \in DOMAIN s.snapshots \ {s.name} : m \in Names /\ Rank(m) < Rank(s.name)
      /\ s.target = "pending" => s.name = ""
  BY TidyState
<1>3. /\ f.description = d /\ f.current = Flush(s).current /\ f.pending = Flush(s).pending
      /\ f.snapshots = Flush(s).snapshots
      /\ b.description = d /\ b.current = s.current
      /\ b.pending = IF s.target = "pending" THEN EmptySection ELSE s.pending
      /\ b.snapshots = [m \in DOMAIN s.snapshots \ {s.name} |-> s.snapshots[m]]
  BY DEF FlushedFile, Before
<1>4. /\ Flush(s).current = IF s.name = "" /\ s.target = "current" THEN s.cur ELSE s.current
      /\ Flush(s).pending = IF s.name = "" /\ s.target = "pending" THEN s.cur ELSE s.pending
      /\ DOMAIN Flush(s).snapshots = DOMAIN s.snapshots \cup ({s.name} \ {""})
      /\ \A n \in DOMAIN s.snapshots \ {s.name} : Flush(s).snapshots[n] = s.snapshots[n]
      /\ s.name # "" => Flush(s).snapshots[s.name] = s.cur
  BY FlushEffect
<1>5. /\ s.cur \in Sections(K) /\ s.current \in Sections(K)
      /\ WriteSection(s.cur) \in Seq(E) /\ WriteSection(s.current) \in Seq(E)
  <2>1. s.cur \in Sections(K) /\ s.current \in Sections(K)
    BY DEF States
  <2> QED
    BY <2>1, SectionLines
<1> HIDE DEF f, b, d
<1>6. EmptySection.keys = <<>>
  BY DEF EmptySection
<1>7. CASE s.name = "" /\ s.target = "current"
  <2>1. DOMAIN f.snapshots = {} /\ f.current = s.cur /\ f.pending = EmptySection
    BY <1>2, <1>3, <1>4, <1>7
  <2>2. Format(f) = Top(f)
    BY <1>1, <2>1, FormatTop
  <2>3. WritePending(f) = <<>>
    BY <1>6, <2>1 DEF WritePending
  <2> DEFINE o == WriteSection(s.cur)
  <2>4. d \o o \in Seq(E)
    BY <1>1, <1>5, ConcatProperties
  <2>5. Top(f) = (d \o o) \o <<>>
    BY <1>3, <2>1, <2>3 DEF Top
  <2>6. Written(s) = d \o o
    BY <1>7 DEF Written, d
  <2> HIDE DEF o
  <2>7. (d \o o) \o <<>> = d \o o
    BY <2>4, ConcatEmptySeq
  <2> QED
    BY <2>2, <2>5, <2>6, <2>7 DEF f
<1>8. CASE s.name = "" /\ s.target = "pending"
  <2>1. /\ DOMAIN f.snapshots = {} /\ f.current = s.current /\ f.pending = s.cur
        /\ DOMAIN b.snapshots = {} /\ b.current = s.current /\ b.pending = EmptySection
    BY <1>2, <1>3, <1>4, <1>8
  <2>2. Format(f) = Top(f) /\ Format(b) = Top(b)
    BY <1>1, <2>1, FormatTop
  <2>3. WritePending(b) = <<>> /\ WritePending(f) = WithHeader("PENDING", s.cur)
    BY <1>6, <1>8, <2>1 DEF WritePending, WithHeader
  <2> DEFINE o == WriteSection(s.current)
             w == WithHeader("PENDING", s.cur)
  <2>4. d \o o \in Seq(E)
    BY <1>1, <1>5, ConcatProperties
  <2>5. Top(f) = (d \o o) \o w /\ Top(b) = (d \o o) \o <<>>
    BY <1>3, <2>1, <2>3 DEF Top
  <2>6. Written(s) = Format(b) \o w
    BY <1>8 DEF Written, b
  <2> HIDE DEF o, w
  <2>7. (d \o o) \o <<>> = d \o o
    BY <2>4, ConcatEmptySeq
  <2> QED
    BY <2>2, <2>5, <2>6, <2>7 DEF f
<1>9. CASE s.name # ""
  <2> DEFINE n == s.name
  <2>1. /\ n \in DOMAIN f.snapshots /\ f.snapshots[n] = s.cur
        /\ DOMAIN f.snapshots \ {n} = DOMAIN s.snapshots \ {n}
        /\ \A m \in DOMAIN f.snapshots \ {n} : Rank(m) < Rank(n) /\ f.snapshots[m] = s.snapshots[m]
        /\ s.target = "none"
    BY <1>2, <1>3, <1>4, <1>9
  <2> HIDE DEF n
  <2>2. Format(f) = Format(Without(f, n)) \o WithHeader(n, f.snapshots[n])
    BY <1>1, <2>1, FormatLast
  <2>3. b.snapshots = [m \in DOMAIN f.snapshots \ {n} |-> f.snapshots[m]]
    BY <1>3, <2>1 DEF n
  <2>4. b = [description |-> b.description, current |-> b.current,
             pending |-> b.pending, snapshots |-> b.snapshots]
    BY DEF b, Before
  <2>5. b.description = f.description /\ b.current = f.current /\ b.pending = f.pending
    BY <1>3, <1>4, <1>9, <2>1
  <2>6. Without(f, n) = b
    BY <2>3, <2>4, <2>5 DEF Without
  <2>7. Written(s) = Format(b) \o WithHeader(n, s.cur)
    BY <1>9 DEF Written, b, n
  <2> QED
    BY <2>1, <2>2, <2>6, <2>7 DEF f
<1> QED
  BY <1>2, <1>7, <1>8, <1>9

LEMMA AppendOfConcat ==
    ASSUME NEW S, NEW t \in Seq(S), NEW v \in Seq(S), NEW e \in S
    PROVE  t \o Append(v, e) = Append(t \o v, e) /\ t \o v \in Seq(S)
<1>1. t \o Append(v, e) = Append(t \o v, e)
  OBVIOUS
<1>2. t \o v \in Seq(S)
  OBVIOUS
<1> QED
  BY <1>1, <1>2

LEMMA WriteOneMore ==
    ASSUME NEW K, NEW sec \in Sections(K), NEW k \in K, NEW w \in Values, k \notin ToSet(sec.keys)
    PROVE  WriteSection(Set(sec, k, w)) = Append(WriteSection(sec), Option(k, w))
<1> DEFINE N == Len(sec.keys)
           new == Set(sec, k, w)
           a == WriteSection(sec)
           o == Option(k, w)
<1>1. /\ sec.keys \in Seq(K) /\ N \in Nat /\ DOMAIN sec.keys = 1 .. N
      /\ DOMAIN sec.values = ToSet(sec.keys)
      /\ \A i \in 1 .. N : sec.keys[i] \in ToSet(sec.keys)
  BY DEF Sections, ToSet
<1>2. new.keys = Append(sec.keys, k) /\ new.values = Value(sec, k, w)
  BY <1>1 DEF Set
<1>3. /\ new.values[k] = w
      /\ \A j \in ToSet(sec.keys) : new.values[j] = sec.values[j]
  BY <1>1, <1>2 DEF Value
<1>4. /\ DOMAIN new.keys = 1 .. N + 1 /\ new.keys[N + 1] = k
      /\ \A i \in 1 .. N : new.keys[i] = sec.keys[i]
  BY <1>1, <1>2
<1>5. /\ a \in Seq(LinesOver(K)) /\ Len(a) = N
      /\ \A i \in 1 .. N : a[i] = Option(sec.keys[i], sec.values[sec.keys[i]])
  BY SectionLines
<1>6. o \in LinesOver(K)
  BY OptionKinds
<1> HIDE DEF new, a, o, N
<1>7. WriteSection(new) = [i \in 1 .. N + 1 |-> Option(new.keys[i], new.values[new.keys[i]])]
  BY <1>4 DEF WriteSection
<1>8. Append(a, o) = [i \in 1 .. N + 1 |-> IF i <= N THEN a[i] ELSE o]
  <2> DEFINE c == Append(a, o)
  <2>1. /\ c \in Seq(LinesOver(K)) /\ Len(c) = N + 1 /\ c[N + 1] = o
        /\ \A i \in 1 .. N : c[i] = a[i]
    BY <1>5, <1>6, AppendProperties
  <2> HIDE DEF c
  <2>2. c = [i \in 1 .. N + 1 |-> c[i]]
    <3>1. \A S : c \in Seq(S) => c = [i \in 1 .. Len(c) |-> c[i]]
      OBVIOUS
    <3> QED
      BY <2>1, <3>1
  <2>3. \A i \in 1 .. N + 1 : c[i] = IF i <= N THEN a[i] ELSE o
    BY <1>1, <2>1
  <2> QED
    BY <2>2, <2>3 DEF c
<1>9. ASSUME NEW i \in 1 .. N + 1
      PROVE  Option(new.keys[i], new.values[new.keys[i]]) = IF i <= N THEN a[i] ELSE o
  <2>1. CASE i <= N
    <3>1. i \in 1 .. N
      BY <1>1, <2>1
    <3>2. new.keys[i] = sec.keys[i] /\ new.values[sec.keys[i]] = sec.values[sec.keys[i]]
      BY <1>1, <1>3, <1>4, <3>1
    <3> QED
      BY <1>5, <2>1, <3>1, <3>2
  <2>2. CASE ~(i <= N)
    <3>1. i = N + 1
      BY <1>1, <2>2
    <3> QED
      BY <1>3, <1>4, <2>2, <3>1 DEF o
  <2> QED
    BY <2>1, <2>2
<1> QED
  BY <1>7, <1>8, <1>9 DEF new, a, o

(***************************************************************************)
(* A '#' line goes on with the description;                                *)
(***************************************************************************)
LEMMA WriteComment ==
    ASSUME NEW K, NEW t \in Seq(LinesOver(K)), NEW l \in LinesOver(K),
           NEW s \in States(K), Placed(t, s),
           s.inDescription, ~Begun(t), HasHash(l), t = Written(s), Described(t, s)
    PROVE  Append(t, l) = Written(ReadLine(s, l)) /\ Described(Append(t, l), ReadLine(s, l))
<1> DEFINE r == ReadLine(s, l)
           u == Append(t, l)
           d == s.description
           N == Len(t) + 1
           E == LinesOver(K)
<1>1. l # Blank
  <2>1. l = Blank => l.kind = "blank"
    BY DEF Blank
  <2> QED
    BY <2>1 DEF HasHash
<1>2. r = [s EXCEPT !.description = Append(d, l)]
  BY <1>1 DEF ReadLine
<1> HIDE DEF r
<1>3. /\ r.description = Append(d, l) /\ r.cur = s.cur /\ r.target = s.target
      /\ r.name = s.name
  BY <1>2 DEF States
<1>4. /\ u \in Seq(LinesOver(K)) /\ Len(t) \in Nat /\ DOMAIN t = 1 .. Len(t)
      /\ DOMAIN u = 1 .. N /\ \A i \in DOMAIN t : u[i] = t[i]
      /\ u[N] = l
  BY OneLineMore
<1>5. \A i \in DOMAIN t : ~InBody(t, i)
  BY DEF InBody, Begun
<1>6. HeadersIn(t) = {} /\ Body(t, 0) = {}
  <2>1. ASSUME NEW j \in HeadersIn(t) PROVE FALSE
    <3>1. j \in DOMAIN t /\ t[j].kind = "header" /\ t[j] \in LinesOver(K)
      BY <1>4 DEF HeadersIn
    <3>2. ~HasHash(t[j]) /\ t[j] # Blank
      <4>1. t[j] = Blank => t[j].kind = "blank"
        BY DEF Blank
      <4> QED
        BY <3>1, <4>1 DEF HasHash
    <3> QED
      BY <3>1, <3>2 DEF Begun
  <2>2. Body(t, 0) = {}
    BY <1>5, BodyMeans
  <2> QED
    BY <2>1, <2>2
<1>7. LastOfAll(t) = 0
  BY <1>6, LastOfAllMeans
<1>8. s.name = "" /\ s.target = "current" /\ s.cur = EmptySection
  <2>1. s.name = "" /\ s.target = "current" /\ Holds(s.cur, t, {})
    BY <1>6, <1>7 DEF Placed, ReadsSection, SectionsKept
  <2>2. s.cur \in Sections(K)
    BY DEF States
  <2> QED
    BY <2>1, <2>2, HoldsNothing
<1>9. d \in Seq(E) /\ Append(d, l) \in Seq(E)
  <2>1. d \in Seq(E) /\ l \in E
    BY PartFiles
  <2> HIDE DEF d, E
  <2> QED
    BY <2>1
<1>10. t = d
  <2>1. t = d \o <<>>
    BY <1>8, NothingWritten DEF Written
  <2> HIDE DEF d
  <2> QED
    BY <1>9, <2>1, ConcatEmptySeq
<1>11. Written(r) = u
  <2> DEFINE q == Append(d, l)
  <2>1. Written(r) = q \o <<>>
    BY <1>3, <1>8, NothingWritten DEF Written
  <2>2. q \in Seq(E) /\ q = u
    BY <1>9, <1>10
  <2> HIDE DEF q, u
  <2> QED
    BY <2>1, <2>2, ConcatEmptySeq
<1>12. Described(u, r)
  <2>1. r.description = u
    BY <1>3, <1>10
  <2>2. /\ \A i \in DOMAIN t : InBody(u, i) <=> InBody(t, i)
        /\ InBody(u, N) <=> Begun(t) \/ (~HasHash(l) /\ l # Blank)
    BY InBodyAfter
  <2> HIDE DEF u
  <2>3. \A i \in DOMAIN u : ~InBody(u, i)
    BY <1>4, <1>5, <2>2
  <2> QED
    BY <2>1, <2>3 DEF Described
<1> QED
  BY <1>11, <1>12 DEF r, u

(***************************************************************************)
(* an option goes on with its section;                                     *)
(***************************************************************************)
LEMMA WriteOption ==
    ASSUME NEW K, NEW t \in Seq(LinesOver(K)), NEW l \in LinesOver(K),
           NEW s \in States(K), Placed(t, s),
           l.kind = "option", ~HasHash(l), t = Written(s),
           \A i \in Body(t, LastOfAll(t)) : t[i].key # l.key
    PROVE  /\ Append(t, l) = Written(ReadLine(s, l))
           /\ ReadLine(s, l).description = s.description
<1> DEFINE r == ReadLine(s, l)
           k == l.key
           w == l.value
           E == LinesOver(K)
           a == WriteSection(s.cur)
           d == s.description
           b == Format(Before(s))
<1>1. l \in E /\ k \in K /\ w \in Values /\ l = Option(k, w)
  BY LineKinds
<1>2. k \notin HashKeys
  BY DEF HasHash
<1>3. OnlyCur(r, s) /\ r.cur = Set(s.cur, k, w)
  <2> HIDE DEF k, w
  <2> QED
    BY <1>1, <1>2, ReadOption
<1> HIDE DEF r
<1>4. k \notin ToSet(s.cur.keys)
  <2>1. ToSet(s.cur.keys) = {t[i].key : i \in Body(t, LastOfAll(t))}
    <3>1. Holds(s.cur, t, Body(t, LastOfAll(t)))
      BY DEF Placed, SectionsKept
    <3> QED
      BY <3>1, HoldsMeans
  <2> QED
    BY <2>1
<1>5. s.cur \in Sections(K) /\ a \in Seq(E)
  <2>1. s.cur \in Sections(K)
    BY DEF States
  <2> QED
    BY <2>1, SectionLines
<1>6. WriteSection(r.cur) = Append(a, l)
  <2> HIDE DEF k, w
  <2> QED
    BY <1>1, <1>3, <1>4, <1>5, WriteOneMore
<1>7. Before(r) = Before(s) /\ r.description = d /\ r.name = s.name /\ r.target = s.target
  BY <1>3 DEF Before, OnlyCur
<1>8. d \in Seq(E) /\ b \in Seq(E)
  BY PartFiles, FormatType
<1> HIDE DEF a, b, d, E, k, w
<1>9. l \in E /\ a \in Seq(E) /\ b \in Seq(E) /\ d \in Seq(E)
  BY <1>1, <1>5, <1>8
<1>10. ASSUME NEW y \in Seq(E) PROVE b \o (y \o Append(a, l)) = Append(b \o (y \o a), l)
  <2> DEFINE x == y \o a
  <2>1. y \o Append(a, l) = Append(x, l)
    BY <1>9, AppendOfConcat
  <2>2. x \in Seq(E)
    BY <1>9, AppendOfConcat
  <2> HIDE DEF x
  <2>3. b \o Append(x, l) = Append(b \o x, l)
    BY <1>9, <2>2, AppendOfConcat
  <2> QED
    BY <2>1, <2>3 DEF x
<1>11. CASE s.name = "" /\ s.target # "pending"
  <2>1. Written(r) = d \o Append(a, l) /\ t = d \o a
    BY <1>6, <1>7, <1>11 DEF Written, d, a
  <2>2. d \o Append(a, l) = Append(d \o a, l)
    BY <1>9, AppendOfConcat
  <2> QED
    BY <1>7, <2>1, <2>2 DEF r, d
<1>12. ASSUME NEW n \in Names \cup {"", "PENDING"},
              Written(r) = b \o WithHeader(n, r.cur), t = b \o WithHeader(n, s.cur)
       PROVE  Append(t, l) = Written(r)
  <2> DEFINE h == <<Header(n)>>
  <2>1. h \in Seq(E)
    BY HeaderKinds DEF E
  <2> HIDE DEF h
  <2>2. WithHeader(n, s.cur) = h \o a /\ WithHeader(n, r.cur) = h \o Append(a, l)
    BY <1>6 DEF WithHeader, h, a
  <2>3. b \o (h \o Append(a, l)) = Append(b \o (h \o a), l)
    BY <1>10, <2>1
  <2> QED
    BY <1>12, <2>2, <2>3
<1>13. CASE s.name # ""
  <2>1. s.name \in Names \cup {"", "PENDING"}
    BY DEF States
  <2>2. Written(r) = b \o WithHeader(s.name, r.cur) /\ t = b \o WithHeader(s.name, s.cur)
    BY <1>7, <1>13 DEF Written, b
  <2> QED
    BY <1>7, <1>12, <2>1, <2>2 DEF r, d
<1>14. CASE s.name = "" /\ s.target = "pending"
  <2>1. Written(r) = b \o WithHeader("PENDING", r.cur) /\ t = b \o WithHeader("PENDING", s.cur)
    BY <1>7, <1>14 DEF Written, b
  <2> QED
    BY <1>7, <1>12, <2>1 DEF r, d
<1> QED
  BY <1>11, <1>13, <1>14

LEMMA HeaderIs ==
    ASSUME NEW K, NEW l \in LinesOver(K), l.kind = "header"
    PROVE  l = Header(l.name) /\ l.name \in Names \cup {"", "PENDING"}
<1>1. l \notin [kind : {"comment"}, text : Texts \cup {NoText}]
  OBVIOUS
<1>2. l \notin [kind : {"option"}, key : K, value : Values]
  OBVIOUS
<1>3. l \notin {Junk, Blank, Long}
  <2>1. Junk.kind = "junk" /\ Blank.kind = "blank" /\ Long.kind = "long"
    BY DEF Junk, Blank, Long
  <2> QED
    BY <2>1
<1>4. l \in [kind : {"header"}, name : Names \cup {"", "PENDING"}]
  BY <1>1, <1>2, <1>3 DEF LinesOver
<1> QED
  BY <1>4 DEF Header

(***************************************************************************)
(* and a header, with nothing under it yet, follows the File so far.       *)
(***************************************************************************)
LEMMA WriteHeader ==
    ASSUME NEW K, NEW t \in Seq(LinesOver(K)), NEW l \in LinesOver(K),
           NEW s \in States(K), Placed(t, s),
           l.kind = "header", Tidy(Append(t, l)), t = Written(s)
    PROVE  /\ Append(t, l) = Written(ReadLine(s, l))
           /\ ReadLine(s, l).description = s.description
<1> DEFINE r == ReadLine(s, l)
           n == l.name
           f == FlushedFile(s)
           b == Before(r)
           h == LastOfAll(t)
           e == Flush(s)
           E == LinesOver(K)
<1>1. l = Header(n) /\ n \in Names \cup {"PENDING"} /\ n # ""
  BY HeaderIs, TidyLine
<1>2. /\ Tidy(t)
      /\ \A j \in HeadersIn(t) : Rank(t[j].name) < Rank(n)
      /\ h # 0 /\ t[h].name = "PENDING" => Body(t, h) # {}
  BY TidyLine
<1>3. /\ r.cur = EmptySection /\ r.description = s.description
      /\ r.current = e.current /\ r.pending = e.pending
      /\ r.snapshots = e.snapshots
      /\ r.target = IF n = "PENDING" THEN "pending" ELSE "none"
      /\ r.name = IF n = "PENDING" THEN "" ELSE n
  <2> HIDE DEF n
  <2>1. n \in Names \cup {"", "PENDING"}
    BY <1>1
  <2>2. r = ReadLine(s, Header(n))
    BY <1>1
  <2> HIDE DEF r
  <2> QED
    BY <2>1, <2>2, ReadHeader DEF e
<1>4. e \in States(K)
  BY FlushEffect
<1>5. /\ e.pending = IF s.name = "" /\ s.target = "pending" THEN s.cur ELSE s.pending
      /\ DOMAIN e.snapshots = DOMAIN s.snapshots \cup ({s.name} \ {""})
  BY FlushEffect
<1> HIDE DEF r, n, e, h
<1>6. ReadsSection(t, s) /\ SectionsKept(t, s)
  BY DEF Placed
<1>7. ASSUME s.target = "pending" PROVE s.cur.keys # <<>>
  <2>1. h # 0 /\ t[h].name = "PENDING"
    BY <1>6, <1>7 DEF ReadsSection, h
  <2>2. ToSet(s.cur.keys) = {t[i].key : i \in Body(t, h)}
    <3>1. Holds(s.cur, t, Body(t, h))
      BY <1>6 DEF SectionsKept, h
    <3> QED
      BY <3>1, HoldsMeans
  <2>3. ToSet(s.cur.keys) # {}
    BY <1>2, <2>1, <2>2
  <2>4. ToSet(<<>>) = {}
    BY DEF ToSet
  <2> QED
    BY <2>3, <2>4
<1>8. t = Format(f)
  BY <1>2, <1>7, WrittenFlushed
<1>9. b = [description |-> r.description, current |-> r.current,
           pending |-> IF r.target = "pending" THEN EmptySection ELSE r.pending,
           snapshots |-> [m \in DOMAIN r.snapshots \ {r.name} |-> r.snapshots[m]]]
  BY DEF Before
<1>10. f = [description |-> s.description, current |-> e.current,
            pending |-> e.pending, snapshots |-> e.snapshots]
  BY DEF FlushedFile, e
<1> HIDE DEF b, f
<1>11. PICK ns \in SUBSET Names : e.snapshots \in [ns -> Sections(K)]
  BY <1>4 DEF States
<1>12. r.name \notin DOMAIN r.snapshots
  <2>1. CASE n = "PENDING"
    <3>1. "" \notin Names
      BY SnapshotsAssumption DEF Names
    <3> QED
      BY <1>3, <1>11, <2>1, <3>1
  <2>2. CASE n # "PENDING"
    <3> SUFFICES ASSUME n \in DOMAIN e.snapshots PROVE FALSE
      BY <1>3, <2>2
    <3> DEFINE j == LastHeader(t, n)
    <3>1. j # 0
      BY <1>5, <1>6 DEF SectionsKept
    <3>2. j \in HeadersIn(t) /\ t[j].name = n
      BY <3>1, LastHeaderMeans
    <3>3. Rank(n) < Rank(n)
      BY <1>2, <3>2
    <3>4. Rank(n) \in Int
      <4>1. n \in Names
        BY <1>1, <2>2
      <4>2. Rank(n) \in 1 .. Len(Snapshots) /\ Len(Snapshots) \in Nat
        BY <4>1, RankMeans
      <4> DEFINE x == Rank(n)
      <4> HIDE DEF x
      <4> QED
        BY <4>2
    <3> QED
      BY <3>3, <3>4
  <2> QED
    BY <2>1, <2>2
<1>13. [m \in DOMAIN r.snapshots \ {r.name} |-> r.snapshots[m]] = e.snapshots
  <2>1. DOMAIN r.snapshots \ {r.name} = ns /\ r.snapshots = e.snapshots
    BY <1>3, <1>11, <1>12
  <2> QED
    BY <1>11, <2>1
<1>14. n = "PENDING" => e.pending = EmptySection
  <2> SUFFICES ASSUME n = "PENDING" PROVE e.pending = EmptySection
    OBVIOUS
  <2>1. HeadersIn(t) = {}
    <3> SUFFICES ASSUME NEW j \in HeadersIn(t) PROVE FALSE
      OBVIOUS
    <3>1. t[j].name \in Names \cup {"PENDING"}
      <4>1. j \in DOMAIN t /\ t[j].kind = "header" /\ t[j] \in LinesOver(K)
        BY DEF HeadersIn
      <4>2. t[j].name # ""
        BY <1>2, <4>1 DEF Tidy
      <4> QED
        BY <4>1, <4>2, HeaderIs
    <3> DEFINE x == Rank(t[j].name)
    <3>2. x < 0
      BY <1>2, RankMeans
    <3>3. x = 0 \/ x \in 1 .. Len(Snapshots)
      BY <3>1, RankMeans
    <3>4. Len(Snapshots) \in Nat
      BY RankMeans
    <3> HIDE DEF x
    <3> QED
      BY <3>2, <3>3, <3>4
  <2>2. h = 0
    BY <2>1, LastOfAllMeans DEF h
  <2>3. s.name = "" /\ s.target = "current"
    BY <1>6, <2>2 DEF ReadsSection, h
  <2>4. s.pending = EmptySection
    BY <1>2, <2>3, TidyState
  <2> QED
    BY <1>5, <2>3, <2>4
<1>15. b = f
  <2>1. (IF r.target = "pending" THEN EmptySection ELSE r.pending) = e.pending
    BY <1>3, <1>14
  <2> QED
    BY <1>3, <1>9, <1>10, <1>13, <2>1
<1>16. WithHeader(n, r.cur) = <<l>>
  <2> DEFINE q == <<Header(n)>>
  <2>1. q \in Seq(E)
    BY <1>1, HeaderKinds
  <2>2. WithHeader(n, r.cur) = q \o <<>>
    BY <1>3, NothingWritten DEF WithHeader
  <2> HIDE DEF q
  <2>3. q \o <<>> = q
    BY <2>1, ConcatEmptySeq
  <2> QED
    BY <1>1, <2>2, <2>3 DEF q
<1>17. Written(r) = Format(b) \o WithHeader(n, r.cur)
  BY <1>1, <1>3 DEF Written, b
<1>18. Append(t, l) = t \o <<l>>
  BY AppendIsConcat
<1> QED
  BY <1>3, <1>8, <1>15, <1>16, <1>17, <1>18 DEF r

LEMMA WriteLine ==
    ASSUME NEW K, NEW t \in Seq(LinesOver(K)), NEW l \in LinesOver(K),
           NEW s \in States(K), Placed(t, s),
           s.inDescription <=> ~Begun(t), Tidy(Append(t, l)),
           t = Written(s), Described(t, s)
    PROVE  Append(t, l) = Written(ReadLine(s, l)) /\ Described(Append(t, l), ReadLine(s, l))
<1> DEFINE r == ReadLine(s, l)
           u == Append(t, l)
<1>1. /\ l.kind \in {"comment", "header", "option"}
      /\ HasHash(l) => ~Begun(t)
      /\ l.kind = "option" /\ ~HasHash(l) =>
            \A i \in Body(t, LastOfAll(t)) : t[i].key # l.key
  <2>1. t \in Seq(LinesOver(K)) /\ l \in LinesOver(K) /\ Tidy(Append(t, l))
    OBVIOUS
  <2>2. /\ l.kind \in {"comment", "header", "option"}
        /\ HasHash(l) => ~Begun(t)
        /\ l.kind = "option" /\ ~HasHash(l) => KeyIsNew(t, l)
    BY <2>1, TidyLine
  <2> QED
    BY <2>2 DEF KeyIsNew
<1>2. CASE HasHash(l)
  BY <1>1, <1>2, WriteComment
<1>3. CASE ~HasHash(l)
  <2>1. u = Written(r) /\ r.description = s.description
    <3>1. CASE l.kind = "header"
      BY <3>1, WriteHeader
    <3>2. CASE l.kind = "option"
      BY <1>1, <1>3, <3>2, WriteOption
    <3>3. l.kind # "comment"
      BY <1>3 DEF HasHash
    <3> QED
      BY <1>1, <3>1, <3>2, <3>3
  <2>2. l # Blank
    <3>1. Blank.kind = "blank"
      BY DEF Blank
    <3> QED
      BY <1>1, <3>1
  <2>3. /\ \A i \in DOMAIN t : InBody(u, i) <=> InBody(t, i)
        /\ InBody(u, Len(t) + 1)
    BY <1>3, <2>2, InBodyAfter
  <2>4. /\ DOMAIN u = 1 .. Len(t) + 1 /\ DOMAIN t = 1 .. Len(t) /\ Len(t) \in Nat
        /\ \A i \in DOMAIN t : u[i] = t[i]
    BY OneLineMore
  <2> HIDE DEF u, r
  <2>5. {i \in DOMAIN u : ~InBody(u, i)} = {i \in DOMAIN t : ~InBody(t, i)}
    BY <2>3, <2>4
  <2>6. Described(u, r)
    BY <2>1, <2>4, <2>5 DEF Described
  <2> QED
    BY <2>1, <2>6 DEF u, r
<1> QED
  BY <1>2, <1>3

-----------------------------------------------------------------------------
(* Every text, and the invariant of the specifications.                    *)

\* What has been read of a text, and of a tidy one what is written of it.
WellRead(K, t) ==
    LET s == Scanned(Start, t)
    IN  /\ s \in States(K) /\ (s.inDescription <=> ~Begun(t))
        /\ Placed(t, s)
        /\ Tidy(t) => t = Written(s) /\ Described(t, s)

LEMMA NothingRead == ASSUME NEW K PROVE WellRead(K, <<>>)
<1> DEFINE t == <<>>
<1>1. t \in Seq(LinesOver(K)) /\ DOMAIN t = {}
  OBVIOUS
<1>2. Scanned(Start, t) = Start /\ Start \in States(K)
  BY StartType, ReadNothing
<1>3. /\ Start.inDescription = TRUE /\ Start.current = EmptySection
      /\ Start.pending = EmptySection /\ Start.description = <<>>
      /\ Start.snapshots = <<>> /\ Start.cur = EmptySection
      /\ Start.target = "current" /\ Start.name = ""
  BY DEF Start
<1>4. t \o <<>> = t /\ t = Start.description
  BY <1>1, <1>3, ConcatEmptySeq
<1>5. DOMAIN Start.snapshots = {}
  <2>1. Start.snapshots = t
    BY <1>3
  <2> QED
    BY <1>1, <2>1
<1> HIDE DEF t
<1>6. HeadersIn(t) = {} /\ ~Begun(t) /\ \A h : Body(t, h) = {}
  BY <1>1 DEF HeadersIn, Begun, Body
<1>7. LastOfAll(t) = 0 /\ \A n : LastHeader(t, n) = 0
  <2>1. LastOfAll(t) \in {0}
    BY <1>1, <1>6, LastOfAllMeans
  <2>2. ASSUME NEW n PROVE LastHeader(t, n) = 0
    BY <1>1, <1>6, LastHeaderMeans
  <2> QED
    BY <2>1, <2>2
<1>8. ReadsSection(t, Start)
  BY <1>3, <1>7 DEF ReadsSection
<1>9. SectionsKept(t, Start)
  BY <1>3, <1>5, <1>6, <1>7, HoldsEmpty DEF SectionsKept, PendingLines
<1>10. Written(Start) = t
  <2>1. Written(Start) = Start.description \o <<>>
    BY <1>3, NothingWritten DEF Written
  <2> QED
    BY <1>4, <2>1 DEF t
<1>11. Described(t, Start)
  BY <1>1, <1>4 DEF Described
<1>12. WellRead(K, t)
  BY <1>2, <1>3, <1>6, <1>8, <1>9, <1>10, <1>11 DEF WellRead, Placed
<1> QED
  BY <1>12 DEF t

LEMMA OneMoreRead ==
    ASSUME NEW K, NEW t \in Seq(LinesOver(K)), NEW l \in LinesOver(K), WellRead(K, t)
    PROVE  WellRead(K, Append(t, l))
<1> DEFINE s == Scanned(Start, t)
           u == Append(t, l)
           r == ReadLine(s, l)
<1>1. /\ s \in States(K) /\ (s.inDescription <=> ~Begun(t)) /\ Placed(t, s)
      /\ Tidy(t) => t = Written(s) /\ Described(t, s)
  BY DEF WellRead
<1>2. Scanned(Start, u) = r
  <2>1. Start \in States(K)
    BY StartType
  <2> QED
    BY <2>1, ReadOneMore
<1> HIDE DEF s
<1>3. Placed(u, r) /\ r \in States(K) /\ (r.inDescription <=> ~Begun(u))
  BY <1>1, AnyLine
<1>4. ASSUME Tidy(u) PROVE u = Written(r) /\ Described(u, r)
  <2>1. Tidy(t)
    BY <1>4, TidyLine
  <2> QED
    BY <1>1, <1>4, <2>1, WriteLine
<1> HIDE DEF u, r
<1>5. WellRead(K, u)
  BY <1>2, <1>3, <1>4 DEF WellRead
<1> QED
  BY <1>5 DEF u

(***************************************************************************)
(* Every text is read so, however it came about.                           *)
(***************************************************************************)
LEMMA AnyText ==
    ASSUME NEW K
    PROVE  \A t \in Seq(LinesOver(K)) : WellRead(K, t)
<1> DEFINE E == LinesOver(K)
           S == {t \in Seq(E) : WellRead(K, t)}
<1>1. <<>> \in S
  <2>1. <<>> \in Seq(E)
    OBVIOUS
  <2> QED
    BY <2>1, NothingRead
<1>2. \A t \in Seq(E), l \in E : t \in S => Append(t, l) \in S
  <2> SUFFICES ASSUME NEW t \in Seq(E), NEW l \in E, t \in S PROVE Append(t, l) \in S
    OBVIOUS
  <2>1. Append(t, l) \in Seq(E)
    OBVIOUS
  <2> QED
    BY <2>1, OneMoreRead
<1> HIDE DEF S
<1>3. \A t \in Seq(E) : t \in S
  BY <1>1, <1>2, TextInduction
<1> QED
  BY <1>3 DEF S

\* After a line that is too long, the state is that of the text before it.
ScanInv(K) ==
    /\ text \in Seq(LinesOver(K)) /\ st \in States(K) /\ Placed(text, st)
    /\ ~failed => st = Scanned(Start, text)

LEMMA LinesWithin == ASSUME NEW K, Keys \subseteq K PROVE Lines \subseteq LinesOver(K)
BY DEF Lines, LinesOver

LEMMA ScanStarts ==
    ASSUME NEW K, text = <<>>, st = Start
    PROVE  ScanInv(K)
<1>1. text \in Seq(LinesOver(K))
  OBVIOUS
<1>2. st = Scanned(Start, text) /\ st \in States(K)
  BY StartType, ReadNothing
<1>3. Placed(text, st)
  BY <1>2, NothingRead DEF WellRead
<1> QED
  BY <1>1, <1>2, <1>3 DEF ScanInv

LEMMA ScanGoesOn ==
    ASSUME NEW K, Keys \subseteq K, ScanInv(K), Next
    PROVE  ScanInv(K)'
<1>1. /\ text \in Seq(LinesOver(K)) /\ st \in States(K) /\ Placed(text, st)
      /\ ~failed => st = Scanned(Start, text)
  BY DEF ScanInv
<1>2. PICK l \in Lines : (Scan(l) \/ ScanError(l)) /\ text' = Append(text, l) /\ ~failed
  BY DEF Next
<1>3. l \in LinesOver(K) /\ text' \in Seq(LinesOver(K))
  BY <1>1, <1>2, LinesWithin
<1>4. CASE Scan(l)
  <2>1. st' = Scanned(Start, text')
    <3>1. Scanned(Start, Append(text, l)) = ReadLine(Scanned(Start, text), l)
      BY <1>1, <1>3, StartType, ReadOneMore
    <3> QED
      BY <1>1, <1>2, <1>4, <3>1 DEF Scan
  <2>2. WellRead(K, text')
    BY <1>3, AnyText
  <2> QED
    BY <1>3, <2>1, <2>2 DEF ScanInv, WellRead
<1>5. CASE ScanError(l)
  <2>1. l = Long /\ failed' = TRUE /\ st' = st
    BY <1>5 DEF ScanError
  <2>2. l.kind # "header" /\ l.kind # "option"
    BY <2>1, <1>3, LineKinds
  <2>3. Placed(text', st')
    BY <1>1, <1>2, <1>3, <2>1, <2>2, QuietLine
  <2> QED
    BY <1>1, <1>3, <2>1, <2>3 DEF ScanInv
<1> QED
  BY <1>2, <1>4, <1>5

LEMMA ScanEnds ==
    ASSUME NEW K, ScanInv(K)
    PROVE  SectionsRight
<1> DEFINE f == Flush(st)
           h == LastOfAll(text)
<1>1. text \in Seq(LinesOver(K)) /\ st \in States(K)
      /\ ReadsSection(text, st) /\ SectionsKept(text, st)
  BY DEF ScanInv, Placed
<1>2. /\ f.current = IF st.name = "" /\ st.target = "current" THEN st.cur ELSE st.current
      /\ f.pending = IF st.name = "" /\ st.target = "pending" THEN st.cur ELSE st.pending
      /\ DOMAIN f.snapshots = DOMAIN st.snapshots \cup ({st.name} \ {""})
      /\ \A n \in DOMAIN st.snapshots \ {st.name} : f.snapshots[n] = st.snapshots[n]
      /\ st.name # "" => f.snapshots[st.name] = st.cur
  BY <1>1, FlushEffect
<1>3. /\ File(st).current = f.current /\ File(st).pending = f.pending
      /\ File(st).snapshots = f.snapshots
  BY DEF File
<1>4. Names \cap {"", "PENDING"} = {}
  BY SnapshotsAssumption DEF Names
<1> HIDE DEF f
<1>5. Holds(f.current, text, Body(text, 0))
  <2>1. h = 0 <=> st.name = "" /\ st.target = "current"
    BY <1>1 DEF ReadsSection
  <2> QED
    BY <1>1, <1>2, <2>1 DEF SectionsKept
<1>6. Holds(f.pending, text, PendingLines(text))
  <2>1. CASE st.target = "pending"
    <3>1. h # 0 /\ text[h].name = "PENDING" /\ st.name = ""
      BY <1>1, <2>1 DEF ReadsSection
    <3>2. LastHeader(text, "PENDING") = h
      BY <1>1, <3>1, LastNamed
    <3>3. PendingLines(text) = Body(text, h)
      BY <3>1, <3>2 DEF PendingLines
    <3> QED
      BY <1>1, <1>2, <2>1, <3>1, <3>3 DEF SectionsKept
  <2>2. CASE st.target # "pending"
    BY <1>1, <1>2, <2>2 DEF SectionsKept
  <2> QED
    BY <2>1, <2>2
<1>7. DOMAIN f.snapshots = {n \in Names : LastHeader(text, n) # 0}
  BY <1>1, <1>2 DEF SectionsKept
<1>8. ASSUME NEW n \in DOMAIN f.snapshots
      PROVE  Holds(f.snapshots[n], text, Body(text, LastHeader(text, n)))
  <2>1. n # "" /\ n # "PENDING"
    BY <1>4, <1>7, <1>8
  <2>2. CASE n = st.name
    <3>1. h # 0 /\ text[h].name = n
      BY <1>1, <2>1, <2>2 DEF ReadsSection
    <3>2. LastHeader(text, n) = h
      BY <1>1, <3>1, LastNamed
    <3>3. f.snapshots[n] = st.cur
      BY <1>2, <2>1, <2>2
    <3> QED
      BY <1>1, <3>2, <3>3 DEF SectionsKept
  <2>3. CASE n # st.name
    <3>1. n \in DOMAIN st.snapshots \ {st.name} /\ f.snapshots[n] = st.snapshots[n]
      BY <1>2, <1>8, <2>3
    <3> QED
      BY <1>1, <3>1 DEF SectionsKept
  <2> QED
    BY <2>2, <2>3
<1> QED
  BY <1>3, <1>5, <1>6, <1>7, <1>8 DEF SectionsRight, PendingLines

LEMMA WriteEnds ==
    ASSUME NEW K, ScanInv(K)
    PROVE  RoundTrip
<1> SUFFICES ASSUME Plain(text), ~failed PROVE Format(File(st)) = text
  BY DEF RoundTrip
<1> DEFINE t == text
           d == st.description
           B == BodyStart(t)
           h == LastOfAll(t)
<1>1. /\ t \in Seq(LinesOver(K)) /\ st \in States(K) /\ Placed(t, st)
      /\ Tidy(t) => t = Written(st) /\ Described(t, st)
  <2>1. text \in Seq(LinesOver(K)) /\ st = Scanned(Start, text)
    BY DEF ScanInv
  <2>2. WellRead(K, text)
    BY <2>1, AnyText
  <2> QED
    BY <2>1, <2>2 DEF WellRead
<1>2. /\ \A i \in DOMAIN t :
            /\ t[i].kind \in {"comment", "header", "option"}
            /\ HasHash(t[i]) <=> i < B
            /\ t[i].kind = "header" => t[i].name # ""
      /\ SubSeq(t, 1, B - 1) # <<Comment(NoText)>>
      /\ \A j \in HeadersIn(t) \cup {0} : \A i, k \in Body(t, j) : t[i].key = t[k].key => i = k
      /\ \A j \in HeadersIn(t) : t[j].name = "PENDING" => Body(t, j) # {}
      /\ \A j, k \in HeadersIn(t) : j < k => Rank(t[j].name) < Rank(t[k].name)
  BY DEF Plain, Rank
<1>3. B \in 1 .. Len(t) + 1 /\ Len(t) \in Nat /\ DOMAIN t = 1 .. Len(t)
  <2> DEFINE body == {i \in DOMAIN t : ~HasHash(t[i]) /\ t[i] # Blank}
  <2>1. Len(t) \in Nat /\ DOMAIN t = 1 .. Len(t) /\ body \subseteq DOMAIN t
    BY <1>1
  <2>2. B = IF body = {} THEN Len(t) + 1 ELSE CHOOSE i \in body : \A j \in body : i <= j
    BY DEF BodyStart
  <2> HIDE DEF body, B
  <2>3. body # {} => \E i \in body : \A j \in body : i <= j
    BY <2>1, LeastNumber
  <2> QED
    BY <2>1, <2>2, <2>3
<1>4. \A i \in DOMAIN t : i < B <=> ~InBody(t, i)
  <2> SUFFICES ASSUME NEW i \in DOMAIN t PROVE i < B <=> ~InBody(t, i)
    OBVIOUS
  <2>1. i >= B <=> InBody(t, i)
    BY <1>1, BodyStartMeans
  <2> HIDE DEF B
  <2> QED
    BY <1>3, <2>1
<1>5. Tidy(t)
  BY <1>2, <1>4 DEF Tidy
<1>6. t = Written(st) /\ Described(t, st)
  BY <1>1, <1>5
<1>7. st.target = "pending" => st.cur.keys # <<>>
  <2> SUFFICES ASSUME st.target = "pending" PROVE st.cur.keys # <<>>
    OBVIOUS
  <2>1. h # 0 /\ t[h].name = "PENDING"
    BY <1>1 DEF Placed, ReadsSection
  <2>2. Body(t, h) # {}
    BY <1>1, <1>2, <2>1, LastOfAllMeans
  <2>3. ToSet(st.cur.keys) = {t[i].key : i \in Body(t, h)}
    <3>1. Holds(st.cur, t, Body(t, h))
      BY <1>1 DEF Placed, SectionsKept
    <3> QED
      BY <3>1, HoldsMeans
  <2>4. ToSet(<<>>) = {}
    BY DEF ToSet
  <2> QED
    BY <2>2, <2>3, <2>4
<1>8. d # <<Comment(NoText)>>
  <2> SUFFICES ASSUME d = <<Comment(NoText)>> PROVE FALSE
    OBVIOUS
  <2>1. DOMAIN d = {1} /\ d[1] = Comment(NoText)
    OBVIOUS
  <2> HIDE DEF d, t, B
  <2>2. DOMAIN d = {i \in DOMAIN t : ~InBody(t, i)} /\ \A i \in DOMAIN d : d[i] = t[i]
    BY <1>6 DEF Described, d
  <2>3. 1 \in DOMAIN t /\ 1 < B /\ t[1] = Comment(NoText)
    BY <1>4, <2>1, <2>2
  <2>4. B = 2
    <3>1. 2 \in DOMAIN t => ~(2 < B)
      BY <1>4, <2>1, <2>2
    <3> QED
      BY <1>3, <2>3, <3>1
  <2>5. SubSeq(t, 1, 1) = <<t[1]>>
    <3> DEFINE x == SubSeq(t, 1, 1)
    <3>1. x \in Seq(LinesOver(K)) /\ Len(x) = 1 /\ x[1] = t[1]
      BY <1>1, <1>3, <2>3, SubSeqProperties
    <3> HIDE DEF x
    <3>2. \A S : \A y \in Seq(S) : Len(y) = 1 => y = <<y[1]>>
      OBVIOUS
    <3> QED
      BY <3>1, <3>2 DEF x
  <2>6. B - 1 = 1
    BY <2>4
  <2> QED
    BY <1>2, <2>3, <2>5, <2>6
<1>9. File(st) = FlushedFile(st)
  <2>1. /\ File(st) \in Files(K) /\ File(st).description = d
        /\ File(st).current = Flush(st).current /\ File(st).pending = Flush(st).pending
        /\ File(st).snapshots = Flush(st).snapshots
    BY <1>1, <1>8, FileType
  <2>2. \A f \in Files(K) : f = [description |-> f.description, current |-> f.current,
                                    pending |-> f.pending, snapshots |-> f.snapshots]
    BY DEF Files
  <2> QED
    BY <2>1, <2>2 DEF FlushedFile
<1>10. Format(FlushedFile(st)) = Written(st)
  BY <1>1, <1>5, <1>7, WrittenFlushed
<1> QED
  BY <1>6, <1>9, <1>10

-----------------------------------------------------------------------------
(* The fake node writes a guest and reads it.                              *)

AllKeys == Keys \cup FlagKeys

FakeInv == ScanInv(AllKeys)

\* An option more is written, if there is a value for it.
NextField(fields) ==
    [p \in Seq(LinesOver(AllKeys)) \X AllKeys |->
        IF p[2] \in DOMAIN fields THEN Append(p[1], Option(p[2], fields[p[2]])) ELSE p[1]]

AllFields == UNION {[ks -> Values] : ks \in SUBSET AllKeys}

LEMMA NextFieldType ==
    ASSUME NEW fields \in AllFields
    PROVE  NextField(fields)
             \in [Seq(LinesOver(AllKeys)) \X AllKeys -> Seq(LinesOver(AllKeys))]
<1>1. PICK ks \in SUBSET AllKeys : fields \in [ks -> Values]
  BY DEF AllFields
<1>2. ASSUME NEW t \in Seq(LinesOver(AllKeys)), NEW k \in AllKeys, k \in DOMAIN fields
      PROVE  Append(t, Option(k, fields[k])) \in Seq(LinesOver(AllKeys))
  <2>1. fields[k] \in Values
    BY <1>1, <1>2
  <2>2. Option(k, fields[k]) \in LinesOver(AllKeys)
    BY <2>1, OptionKinds
  <2> QED
    BY <2>2, AppendProperties
<1>3. ASSUME NEW p \in Seq(LinesOver(AllKeys)) \X AllKeys
      PROVE  (IF p[2] \in DOMAIN fields THEN Append(p[1], Option(p[2], fields[p[2]])) ELSE p[1])
               \in Seq(LinesOver(AllKeys))
  <2>1. p[1] \in Seq(LinesOver(AllKeys)) /\ p[2] \in AllKeys
    OBVIOUS
  <2> QED
    BY <1>2, <2>1
<1> QED
  BY <1>3 DEF NextField

LEMMA RenderSteps ==
    ASSUME NEW fields \in AllFields
    PROVE  \E g : Through(Seq(LinesOver(AllKeys)), <<>>, NextField(fields), FieldOrder, g,
                          RenderFields(fields))
<1> DEFINE A == Seq(LinesOver(AllKeys))
           E == AllKeys
           F == NextField(fields)
           b == <<>>
           t == FieldOrder
           Op(out, k) == IF k \in DOMAIN fields THEN Append(out, Option(k, fields[k])) ELSE out
           Body1(iter, s) == Op(iter[s \ {Max(s)}], t[Max(s)])
           Eq(iter) == iter = [s \in SUBSET DOMAIN t |-> IF s = {} THEN b ELSE Body1(iter, s)]
           It == CHOOSE iter : Eq(iter)
<1>1. RenderFields(fields) = It[DOMAIN t]
  BY DEF RenderFields, FoldLeft, MapThenFoldSet
<1>2. /\ t \in Seq(E) /\ Len(t) \in Nat /\ DOMAIN t = 1 .. Len(t)
      /\ \A i \in 1 .. Len(t) : t[i] \in E
  BY OrderAssumption DEF AllKeys
<1>3. F \in [A \X E -> A] /\ b \in A
  <2>1. b \in A
    OBVIOUS
  <2> QED
    BY <2>1, NextFieldType
<1>4. \A l \in A, s \in E : F[<<l, s>>] = Op(l, s)
  BY DEF NextField
<1> HIDE DEF A, E, F, b, Op, t
<1>5. \E iter : Eq(iter)
  <2>1. PICK iter \in [SUBSET DOMAIN t -> A] : FoldsOver(b, F, t, Len(t), iter)
    BY <1>2, <1>3, FoldExists
  <2>2. ASSUME NEW s \in SUBSET DOMAIN t, s # {}
        PROVE  F[<<iter[s \ {Max(s)}], t[Max(s)]>>] = Body1(iter, s)
    <3>1. iter[s \ {Max(s)}] \in A
      OBVIOUS
    <3>2. Max(s) \in DOMAIN t
      BY <1>2, <2>2, MaxOfPart
    <3> QED
      BY <3>1, <3>2, <1>2, <1>4
  <2>3. Eq(iter)
    BY <2>1, <2>2, <1>2 DEF FoldsOver
  <2> QED
    BY <2>3
<1>6. Eq(It)
  BY <1>5
<1> HIDE DEF It
<1>7. It[{}] = b
  BY <1>6
<1>8. ASSUME NEW n \in 1 .. Len(t), It[1 .. n - 1] \in A
      PROVE  It[1 .. n] = F[<<It[1 .. n - 1], t[n]>>]
  <2> DEFINE s == 1 .. n
  <2>1. s \in SUBSET DOMAIN t /\ s # {} /\ Max(s) = n /\ s \ {n} = 1 .. n - 1
    BY <1>2, LastOfPart
  <2> HIDE DEF s
  <2>2. It[s] = Op(It[s \ {Max(s)}], t[Max(s)])
    BY <1>6, <2>1
  <2>3. It[1 .. n] = Op(It[1 .. n - 1], t[n])
    BY <2>1, <2>2 DEF s
  <2> QED
    BY <2>3, <1>8, <1>2, <1>4
<1>9. PICK g : Through(A, b, F, t, g, It[DOMAIN t])
  <2>1. Steps(A, b, F, t, It)
    BY <1>7, <1>8 DEF Steps
  <2> QED
    BY <2>1, <1>2, <1>3, FoldSteps
<1> QED
  BY <1>1, <1>9 DEF It, A, F, b, t

LEMMA RenderedType ==
    ASSUME NEW fields \in AllFields
    PROVE  RenderFields(fields) \in Seq(LinesOver(AllKeys))
<1>1. PICK g : Through(Seq(LinesOver(AllKeys)), <<>>, NextField(fields), FieldOrder, g,
                       RenderFields(fields))
  BY RenderSteps
<1>2. Len(FieldOrder) \in 0 .. Len(FieldOrder)
  BY OrderAssumption
<1> QED
  BY <1>1, <1>2 DEF Through

(***************************************************************************)
(* The options that the fake node writes are what is read.                 *)
(***************************************************************************)
LEMMA ReadRendered ==
    ASSUME NEW s \in States(AllKeys), NEW fields \in AllFields, s.cur = EmptySection,
           DOMAIN fields \cap HashKeys = {}
    PROVE  LET r == Scanned(s, RenderFields(fields))
           IN  r \in States(AllKeys) /\ OnlyCur(r, s) /\ r.cur.values = fields
<1> DEFINE A == Seq(LinesOver(AllKeys))
           N == Len(FieldOrder)
           some(n) == DOMAIN fields \cap {FieldOrder[j] : j \in 1 .. n}
           Read(n, r) == OnlyCur(r, s) /\ r.cur.values = [k \in some(n) |-> fields[k]]
<1>1. PICK g : Through(A, <<>>, NextField(fields), FieldOrder, g, RenderFields(fields))
  BY RenderSteps
<1>2. /\ N \in Nat /\ DOMAIN FieldOrder = 1 .. N /\ \A i \in 1 .. N : FieldOrder[i] \in AllKeys
      /\ {FieldOrder[j] : j \in 1 .. N} = AllKeys
  BY OrderAssumption DEF AllKeys, ToSet
<1>3. /\ g[0] = <<>> /\ g[N] = RenderFields(fields)
      /\ \A n \in 0 .. N : g[n] \in A
      /\ \A n \in 1 .. N : g[n] = NextField(fields)[<<g[n - 1], FieldOrder[n]>>]
  BY <1>1 DEF Through
<1>4. PICK ks \in SUBSET AllKeys : fields \in [ks -> Values]
  BY DEF AllFields
<1> HIDE DEF N
<1> DEFINE S == {n \in Nat : n <= N => Read(n, Scanned(s, g[n]))}
<1>5. 0 \in S
  <2>1. OnlyCur(s, s)
    BY DEF OnlyCur
  <2>2. some(0) = {}
    OBVIOUS
  <2>3. s.cur.values = <<>>
    BY DEF EmptySection
  <2>4. [k \in {} |-> fields[k]] = <<>>
    OBVIOUS
  <2>5. [k \in some(0) |-> fields[k]] = <<>>
    BY <2>2, <2>4
  <2>6. Scanned(s, g[0]) = s
    BY <1>3, ReadNothing
  <2> QED
    BY <2>1, <2>3, <2>5, <2>6
<1>6. ASSUME NEW n \in Nat, n \in S PROVE n + 1 \in S
  <2> SUFFICES ASSUME n + 1 <= N PROVE Read(n + 1, Scanned(s, g[n + 1]))
    OBVIOUS
  <2> DEFINE k == FieldOrder[n + 1]
             r == Scanned(s, g[n])
             q == Scanned(s, g[n + 1])
  <2>1. n \in 0 .. N /\ n + 1 \in 1 .. N /\ (n + 1) - 1 = n /\ n <= N
    BY <1>2
  <2>2. k \in AllKeys /\ g[n] \in A
    BY <1>2, <1>3, <2>1
  <2>3. r \in States(AllKeys)
    BY <2>2, ScannedType
  <2>4. OnlyCur(r, s) /\ r.cur.values = [j \in some(n) |-> fields[j]]
    BY <1>6, <2>1
  <2>5. some(n + 1) = some(n) \cup (DOMAIN fields \cap {k})
    <3>1. 1 .. n + 1 = 1 .. n \cup {n + 1}
      OBVIOUS
    <3> QED
      BY <3>1
  <2>6. g[n + 1] = IF k \in DOMAIN fields THEN Append(g[n], Option(k, fields[k])) ELSE g[n]
    BY <1>3, <2>1, <2>2 DEF NextField
  <2> HIDE DEF k, some
  <2>7. CASE k \notin DOMAIN fields
    <3>1. q = r /\ some(n + 1) = some(n)
      BY <2>5, <2>6, <2>7
    <3> HIDE DEF q, r
    <3>2. Read(n + 1, q)
      BY <2>4, <3>1
    <3> QED
      BY <3>2 DEF q
  <2>8. CASE k \in DOMAIN fields
    <3> DEFINE w == fields[k]
               l == Option(k, w)
    <3>1. w \in Values /\ k \notin HashKeys
      BY <1>4, <2>8
    <3>2. l \in LinesOver(AllKeys)
      BY <2>2, <3>1, OptionKinds
    <3>3. q = ReadLine(r, l)
      <4> HIDE DEF l
      <4>1. g[n + 1] = Append(g[n], l)
        BY <2>6, <2>8 DEF l
      <4> QED
        BY <2>2, <3>2, <4>1, ReadOneMore
    <3> HIDE DEF q, r, w
    <3>4. OnlyCur(q, r) /\ q.cur = Set(r.cur, k, w)
      BY <2>2, <2>3, <3>1, <3>3, ReadOption
    <3>5. OnlyCur(q, s)
      BY <2>4, <3>4 DEF OnlyCur
    <3>6. q.cur.values = Value(r.cur, k, w)
      BY <3>4 DEF Set
    <3> DEFINE v == r.cur.values
    <3>7. DOMAIN v = some(n) /\ \A j \in some(n) : v[j] = fields[j]
      BY <2>4
    <3>8. q.cur.values = [j \in DOMAIN v \cup {k} |-> IF j = k THEN w ELSE v[j]]
      BY <3>6 DEF Value
    <3> HIDE DEF v
    <3>9. some(n + 1) = DOMAIN v \cup {k}
      BY <2>5, <2>8, <3>7
    <3>10. q.cur.values = [j \in some(n + 1) |-> fields[j]]
      BY <3>7, <3>8, <3>9 DEF w
    <3> QED
      BY <3>5, <3>10 DEF q
  <2> QED
    BY <2>7, <2>8
<1> HIDE DEF S
<1>7. \A n \in Nat : n \in S
  BY <1>5, <1>6, SetInduction
<1> DEFINE r == Scanned(s, RenderFields(fields))
<1>8. Read(N, r)
  <2>1. N \in S /\ N \in Nat /\ N <= N
    BY <1>2, <1>7
  <2> QED
    BY <1>3, <2>1 DEF S
<1>9. [k \in some(N) |-> fields[k]] = fields
  <2>1. some(N) = DOMAIN fields
    BY <1>2, <1>4
  <2> QED
    BY <1>4, <2>1
<1>10. r \in States(AllKeys)
  BY RenderedType, ScannedType
<1> QED
  BY <1>8, <1>9, <1>10

(***************************************************************************)
(* What the fake node writes of any description and options, and what is   *)
(* read of it.                                                             *)
(***************************************************************************)
LEMMA GuestRereads ==
    ASSUME NEW d \in Seq(HashLines(AllKeys)), NEW fields \in AllFields
    PROVE  LET t == RenderGuest(d, fields)
               s == Scanned(Start, t)
           IN  /\ t \in Seq(LinesOver(AllKeys)) /\ s \in States(AllKeys)
               /\ DOMAIN fields \cap HashKeys = {} /\ d # <<Comment(NoText)>> =>
                     /\ File(s).description = d /\ File(s).current.values = fields
                     /\ File(s).pending = EmptySection /\ File(s).snapshots = <<>>
<1> DEFINE E == LinesOver(AllKeys)
           o == RenderFields(fields)
           a == Scanned(Start, d)
           s == Scanned(Start, d \o o)
<1>1. Start \in States(AllKeys)
  BY StartType
<1>2. d \in Seq(E) /\ a = [Start EXCEPT !.description = d] /\ o \in Seq(E)
  BY ReadDescription, RenderedType
<1>3. a \in States(AllKeys)
  BY <1>1, <1>2, ScannedType
<1>4. d \o o \in Seq(E) /\ s = Scanned(a, o)
  <2> DEFINE u == d
  <2>1. u \in Seq(E) /\ Start \in States(AllKeys) /\ o \in Seq(E)
    BY <1>1, <1>2
  <2> HIDE DEF u, o
  <2>2. u \o o \in Seq(E)
    BY <2>1, ConcatProperties
  <2>3. Scanned(Start, u \o o) = Scanned(Scanned(Start, u), o)
    BY <2>1, ReadOn
  <2> QED
    BY <2>2, <2>3 DEF u
<1> HIDE DEF a
<1>5. /\ a.description = d /\ a.cur = EmptySection /\ a.pending = EmptySection
      /\ a.snapshots = <<>> /\ a.target = "current" /\ a.name = ""
  BY <1>2 DEF Start
<1>6. s \in States(AllKeys)
  BY <1>1, <1>4, ScannedType
<1>7. ASSUME DOMAIN fields \cap HashKeys = {}, d # <<Comment(NoText)>>
      PROVE  /\ File(s).description = d /\ File(s).current.values = fields
             /\ File(s).pending = EmptySection /\ File(s).snapshots = <<>>
  <2>1. Scanned(a, o) \in States(AllKeys) /\ OnlyCur(Scanned(a, o), a)
        /\ Scanned(a, o).cur.values = fields
    BY <1>3, <1>5, <1>7, ReadRendered
  <2> HIDE DEF s, o
  <2>2. OnlyCur(s, a) /\ s.cur.values = fields
    BY <1>4, <2>1
  <2>3. /\ s.description = d /\ s.pending = EmptySection /\ s.snapshots = <<>>
        /\ s.target = "current" /\ s.name = ""
    BY <1>5, <2>2 DEF OnlyCur
  <2>4. Flush(s).current = s.cur /\ Flush(s).pending = EmptySection
    BY <1>6, <2>3, FlushEffect
  <2>5. Flush(s).snapshots = <<>>
    BY <1>6, <2>3 DEF Flush, States
  <2> QED
    BY <1>6, <1>7, <2>2, <2>3, <2>4, <2>5, FileType
<1> QED
  BY <1>4, <1>6, <1>7 DEF RenderGuest

LEMMA LinesOfAll ==
    /\ Lines \subseteq LinesOver(AllKeys)
    /\ \A d \in Descriptions : d \in Seq(HashLines(AllKeys)) /\ d # <<Comment(NoText)>>
<1>1. Lines \subseteq LinesOver(AllKeys)
  BY DEF Lines, LinesOver, AllKeys
<1>2. {l \in Lines : HasHash(l)} \subseteq HashLines(AllKeys)
  BY <1>1 DEF HashLines
<1>3. \A S, R : \A t \in Seq(S) : S \subseteq R => t \in Seq(R)
  OBVIOUS
<1> QED
  BY <1>1, <1>2, <1>3, DescriptionsAssumption

(***************************************************************************)
(* What a command writes, from what is there.                              *)
(***************************************************************************)
LEMMA SetGuestWrites ==
    ASSUME FakeInv, NEW flags \in Flags, SetGuest(flags)
    PROVE  LET fields == Merge(flags.fields, ReadGuest.fields)
           IN  /\ fields \in AllFields
               /\ \E d \in Seq(HashLines(AllKeys)) :
                     /\ d # <<Comment(NoText)>> /\ text' = RenderGuest(d, fields)
                     /\ st' = Scanned(Start, text')
                     /\ flags.description = {} => d = ReadGuest.description
                     /\ flags.description \subseteq {d}
<1> DEFINE old == ReadGuest
           new == flags.fields
           fields == Merge(new, old.fields)
           ds == IF flags.description = {} THEN {old.description} ELSE flags.description
<1>1. /\ old.description \in Seq(HashLines(AllKeys))
      /\ old.description # <<Comment(NoText)>>
      /\ old.fields \in AllFields
  <2>1. CASE exists
    <3>1. File(st) \in Files(AllKeys) /\ File(st).description # <<Comment(NoText)>>
      BY FileType DEF FakeInv, ScanInv
    <3>2. File(st).current \in Sections(AllKeys)
          /\ File(st).description \in Seq(HashLines(AllKeys))
      BY <3>1 DEF Files
    <3>3. File(st).current.values \in AllFields
      BY <3>2 DEF Sections, AllFields
    <3> QED
      BY <2>1, <3>1, <3>2, <3>3 DEF ReadGuest
  <2>2. CASE ~exists
    <3> DEFINE none == <<>>
    <3>1. none \in Seq(HashLines(AllKeys)) /\ none # <<Comment(NoText)>>
      OBVIOUS
    <3>2. none \in [{} -> Values]
      OBVIOUS
    <3>3. none \in AllFields
      BY <3>2 DEF AllFields
    <3>4. old = [description |-> none, fields |-> none]
      BY <2>2 DEF ReadGuest
    <3> HIDE DEF none, old
    <3> QED
      BY <3>1, <3>3, <3>4
  <2> QED
    BY <2>1, <2>2
<1>2. /\ new \in AllFields
      /\ flags.description = {} \/ \E d \in Descriptions : flags.description = {d}
  <2>1. new \in Fields /\ flags.description \in {{}} \cup {{d} : d \in Descriptions}
    BY DEF Flags
  <2>2. PICK ks \in SUBSET FlagKeys : new \in [ks -> Values]
    BY <2>1 DEF Fields
  <2>3. ks \in SUBSET AllKeys
    BY DEF AllKeys
  <2> QED
    BY <2>1, <2>2, <2>3 DEF AllFields
<1> HIDE DEF old, new
<1>3. fields \in AllFields
  <2>1. PICK ks \in SUBSET AllKeys, js \in SUBSET AllKeys :
            new \in [ks -> Values] /\ old.fields \in [js -> Values]
    BY <1>1, <1>2 DEF AllFields
  <2>2. fields \in [ks \cup js -> Values]
    BY <2>1 DEF Merge
  <2>3. ks \cup js \in SUBSET AllKeys
    OBVIOUS
  <2> QED
    BY <2>2, <2>3 DEF AllFields
<1>4. \E d : /\ ds = {d} /\ d \in Seq(HashLines(AllKeys)) /\ d # <<Comment(NoText)>>
             /\ flags.description = {} => d = old.description
             /\ flags.description \subseteq {d}
  BY <1>1, <1>2, LinesOfAll
<1>5. PICK d : /\ ds = {d} /\ d \in Seq(HashLines(AllKeys)) /\ d # <<Comment(NoText)>>
               /\ flags.description = {} => d = old.description
               /\ flags.description \subseteq {d}
  BY <1>4
<1>6. text' = RenderGuest(CHOOSE x \in ds : TRUE, fields) /\ st' = Scanned(Start, text')
  BY DEF SetGuest, old, new, Scanned
<1> HIDE DEF ds, fields
<1>7. (CHOOSE x \in ds : TRUE) = d
  BY <1>5
<1> QED
  BY <1>3, <1>5, <1>6, <1>7 DEF fields, old, new

LEMMA FakeStarts == FakeInit => FakeInv
BY ScanStarts DEF FakeInit, Init, FakeInv

LEMMA FakeGoesOn == FakeInv /\ [FakeNext]_fakeVars => FakeInv'
<1> SUFFICES ASSUME FakeInv, [FakeNext]_fakeVars PROVE FakeInv'
  OBVIOUS
<1>1. CASE Seed
  <2>1. Keys \subseteq AllKeys
    BY DEF AllKeys
  <2> QED
    BY <1>1, <2>1, ScanGoesOn DEF Seed, FakeInv
<1>2. CASE DestroyGuest
  <2>1. text' = <<>> /\ st' = Start
    BY <1>2 DEF DestroyGuest
  <2>2. text' \in Seq(LinesOver(AllKeys))
    BY <2>1
  <2>3. st' = Scanned(Start, text') /\ st' \in States(AllKeys)
    BY <2>1, StartType, ReadNothing
  <2>4. WellRead(AllKeys, text')
    BY <2>1, NothingRead
  <2> QED
    BY <2>2, <2>3, <2>4 DEF FakeInv, ScanInv, WellRead
<1>3. ASSUME NEW flags \in Flags, SetGuest(flags) PROVE FakeInv'
  <2> DEFINE fields == Merge(flags.fields, ReadGuest.fields)
  <2>1. fields \in AllFields
        /\ \E d \in Seq(HashLines(AllKeys)) : /\ text' = RenderGuest(d, fields)
                                              /\ st' = Scanned(Start, text')
    BY <1>3, SetGuestWrites
  <2> HIDE DEF fields
  <2>2. PICK d \in Seq(HashLines(AllKeys)) : /\ text' = RenderGuest(d, fields)
                                             /\ st' = Scanned(Start, text')
    BY <2>1
  <2>3. text' \in Seq(LinesOver(AllKeys))
    BY <2>1, <2>2, GuestRereads
  <2>4. WellRead(AllKeys, text')
    BY <2>3, AnyText
  <2> QED
    BY <2>2, <2>3, <2>4 DEF FakeInv, ScanInv, WellRead
<1>4. CASE UNCHANGED fakeVars
  BY <1>4 DEF fakeVars, vars, FakeInv, ScanInv, Placed, ReadsSection, SectionsKept
<1> QED
  BY <1>1, <1>2, <1>3, <1>4 DEF FakeNext, Command

-----------------------------------------------------------------------------
(* The theorems: of every text, a line at a time (Spec), and of those that *)
(* the fake node is given and writes (FakeSpec).                           *)

LEMMA Reads == Spec => []ScanInv(Keys)
<1>1. Init => ScanInv(Keys)
  BY ScanStarts DEF Init
<1>2. ScanInv(Keys) /\ [Next]_vars => ScanInv(Keys)'
  <2> SUFFICES ASSUME ScanInv(Keys), [Next]_vars PROVE ScanInv(Keys)'
    OBVIOUS
  <2>1. CASE Next
    BY <2>1, ScanGoesOn
  <2>2. CASE UNCHANGED vars
    BY <2>2 DEF vars, ScanInv, Placed, ReadsSection, SectionsKept
  <2> QED
    BY <2>1, <2>2
<1> QED
  BY <1>1, <1>2, PTL DEF Spec

LEMMA FakeReads == FakeSpec => []ScanInv(AllKeys)
<1>1. FakeInv => ScanInv(AllKeys)
  BY DEF FakeInv
<1> QED
  BY <1>1, FakeStarts, FakeGoesOn, PTL DEF FakeSpec

(***************************************************************************)
(* Parse reads each section where it is: the options above the first       *)
(* header are the current config, [PENDING] and every snapshot have theirs *)
(* and no other's, each key once, in the order of first appearance, with   *)
(* the last value; of two sections of one name the later counts.           *)
(***************************************************************************)
THEOREM SectionsRead == Spec \/ FakeSpec => []SectionsRight
<1>1. ScanInv(Keys) => SectionsRight
  BY ScanEnds
<1>2. ScanInv(AllKeys) => SectionsRight
  BY ScanEnds
<1> QED
  BY <1>1, <1>2, Reads, FakeReads, PTL

(***************************************************************************)
(* What a File can say is read and written as it is: a Plain text of any   *)
(* length comes out of Parse and Format line for line.                     *)
(***************************************************************************)
THEOREM PlainTextKept == Spec \/ FakeSpec => []RoundTrip
<1>1. ScanInv(Keys) => RoundTrip
  BY WriteEnds
<1>2. ScanInv(AllKeys) => RoundTrip
  BY WriteEnds
<1> QED
  BY <1>1, <1>2, Reads, FakeReads, PTL

LEMMA RereadEnds ==
    ASSUME NEW K, ScanInv(K)
    PROVE  Reparse
<1>1. File(st) \in Files(K) /\ File(st).description # <<Comment(NoText)>>
  BY FileType DEF ScanInv
<1> QED
  BY <1>1, FileRereads DEF Reparse

(***************************************************************************)
(* A File, whatever text it was read of, survives being written and read   *)
(* again, unless an option "#...: ..." got into the current config.        *)
(***************************************************************************)
THEOREM FilesReread == Spec \/ FakeSpec => []Reparse
<1>1. ScanInv(Keys) => Reparse
  BY RereadEnds
<1>2. ScanInv(AllKeys) => Reparse
  BY RereadEnds
<1> QED
  BY <1>1, <1>2, Reads, FakeReads, PTL

(***************************************************************************)
(* qm set and pct set, as the fake node has them: what is read after is    *)
(* what was read before, with the flags in it.                             *)
(***************************************************************************)
THEOREM CommandsMerge == FakeSpec => SetMerges
<1> DEFINE After(flags) ==
             LET after == Parse(text')
             IN  /\ after.current.values = Merge(flags.fields, ReadGuest.fields)
                 /\ flags.description \subseteq {after.description}
                 /\ flags.description = {} => after.description = ReadGuest.description
                 /\ after.pending = EmptySection /\ after.snapshots = <<>>
           Merges ==
             \A flags \in Flags :
                SetGuest(flags) /\ DOMAIN Merge(flags.fields, ReadGuest.fields) \cap HashKeys = {}
                => After(flags)
<1>1. FakeInit => FakeInv
  BY FakeStarts
<1>2. FakeInv /\ [FakeNext]_fakeVars => FakeInv'
  BY FakeGoesOn
<1>3. FakeInv => Merges
  <2> SUFFICES ASSUME FakeInv, NEW flags \in Flags, SetGuest(flags),
                      DOMAIN Merge(flags.fields, ReadGuest.fields) \cap HashKeys = {}
               PROVE  After(flags)
    OBVIOUS
  <2> DEFINE fields == Merge(flags.fields, ReadGuest.fields)
             old == ReadGuest
             f == Parse(text')
  <2>1. /\ fields \in AllFields /\ DOMAIN fields \cap HashKeys = {}
        /\ \E d \in Seq(HashLines(AllKeys)) :
              /\ d # <<Comment(NoText)>> /\ text' = RenderGuest(d, fields)
              /\ flags.description = {} => d = old.description
              /\ flags.description \subseteq {d}
    BY SetGuestWrites
  <2> HIDE DEF fields, old
  <2>2. PICK d \in Seq(HashLines(AllKeys)) :
              /\ d # <<Comment(NoText)>> /\ text' = RenderGuest(d, fields)
              /\ flags.description = {} => d = old.description
              /\ flags.description \subseteq {d}
    BY <2>1
  <2> DEFINE s == Scanned(Start, RenderGuest(d, fields))
  <2>3. /\ File(s).description = d /\ File(s).current.values = fields
        /\ File(s).pending = EmptySection /\ File(s).snapshots = <<>>
    BY <2>1, <2>2, GuestRereads
  <2>4. f = File(s)
    BY <2>2 DEF Parse, Scanned
  <2> HIDE DEF s, f
  <2>5. /\ f.current.values = fields /\ flags.description \subseteq {f.description}
        /\ flags.description = {} => f.description = old.description
        /\ f.pending = EmptySection /\ f.snapshots = <<>>
    BY <2>2, <2>3, <2>4
  <2> QED
    BY <2>5 DEF f, fields, old
<1>4. FakeInv /\ [FakeNext]_fakeVars => [Merges]_fakeVars
  BY <1>3
<1> HIDE DEF Merges
<1>5. FakeSpec => [][Merges]_fakeVars
  BY <1>1, <1>2, <1>4, PTL DEF FakeSpec
<1> QED
  BY <1>5 DEF SetMerges, Merges
=============================================================================
