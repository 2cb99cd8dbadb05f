--------------------------- MODULE WatchTimedProofs ---------------------------
(***************************************************************************)
(* Theorems about WatchTimed, for any options, delays, guests and PIDs:    *)
(* the backoff is what it should be, and it is kept to.                    *)
(***************************************************************************)
EXTENDS WatchTimed, WatchProofs

-----------------------------------------------------------------------------
(* What delay computes.  Its loop is a function over the attempts; it is   *)
(* shown here to be one function over all of them, so that what is so of   *)
(* every retry follows by induction.                                       *)

LEMMA SetInduction ==
    ASSUME NEW S, 0 \in S, \A n \in Nat : n \in S => n + 1 \in S
    PROVE  \A n \in Nat : n \in S
<1> DEFINE Out == {n \in Nat : n \notin S}
<1>1. Out \subseteq Nat
  OBVIOUS
<1>2. ASSUME Out # {} PROVE FALSE
  <2>1. PICK n \in Out : \A m \in Out : n <= m
    BY <1>1, <1>2, LeastNat
  <2>2. n \in Nat /\ n \notin S /\ n # 0
    BY <2>1
  <2>3. n - 1 \in Nat /\ ~(n <= n - 1)
    BY <2>2
  <2>4. n - 1 \in S
    BY <2>1, <2>3
  <2> QED
    BY <2>2, <2>3, <2>4
<1> QED
  BY <1>2

(***************************************************************************)
(* A value and a step from value to value have one run.                    *)
(***************************************************************************)
RunTo(b, F, n, f) == f \in [0 .. n -> Int] /\ f[0] = b /\ \A i \in 1 .. n : f[i] = F[f[i - 1]]

LEMMA RunExists ==
    ASSUME NEW b \in Int, NEW F \in [Int -> Int]
    PROVE  \A n \in Nat : \E f : RunTo(b, F, n, f)
<1> DEFINE S == {n \in Nat : \E f : RunTo(b, F, n, f)}
<1>1. 0 \in S
  <2>1. RunTo(b, F, 0, [i \in 0 .. 0 |-> b])
    BY DEF RunTo
  <2> QED
    BY <2>1
<1>2. ASSUME NEW n \in Nat, n \in S PROVE n + 1 \in S
  <2>1. PICK f : RunTo(b, F, n, f)
    BY <1>2
  <2> DEFINE g == [i \in 0 .. n + 1 |-> IF i <= n THEN f[i] ELSE F[f[n]]]
  <2>2. g \in [0 .. n + 1 -> Int] /\ g[0] = b
    BY <2>1 DEF RunTo
  <2>3. ASSUME NEW i \in 1 .. n + 1 PROVE g[i] = F[g[i - 1]]
    <3>1. CASE i <= n
      BY <2>1, <3>1 DEF RunTo
    <3>2. CASE i = n + 1
      BY <2>1, <3>2 DEF RunTo
    <3> QED
      BY <3>1, <3>2
  <2>4. RunTo(b, F, n + 1, g)
    BY <2>2, <2>3 DEF RunTo
  <2> QED
    BY <2>4
<1> HIDE DEF S
<1>3. \A n \in Nat : n \in S
  BY <1>1, <1>2, SetInduction
<1> QED
  BY <1>3 DEF S

LEMMA RunUnique ==
    ASSUME NEW b \in Int, NEW F \in [Int -> Int], NEW m \in Nat, NEW n \in Nat,
           NEW f, NEW g, RunTo(b, F, m, f), RunTo(b, F, n, g), NEW k \in Nat, k <= m, k <= n
    PROVE  f[k] = g[k]
<1> DEFINE S == {i \in Nat : i <= m /\ i <= n => f[i] = g[i]}
<1>1. 0 \in S
  BY DEF RunTo
<1>2. ASSUME NEW i \in Nat, i \in S PROVE i + 1 \in S
  <2>1. CASE i + 1 <= m /\ i + 1 <= n
    <3>1. i + 1 \in 1 .. m /\ i + 1 \in 1 .. n /\ i <= m /\ i <= n
      BY <2>1
    <3>2. /\ \A j \in 1 .. m : f[j] = F[f[j - 1]]
          /\ \A j \in 1 .. n : g[j] = F[g[j - 1]]
      BY DEF RunTo
    <3>3. f[i] = g[i] /\ (i + 1) - 1 = i
      BY <1>2, <3>1
    <3>4. f[i + 1] = F[f[i]]
      BY <3>1, <3>2, <3>3
    <3>5. g[i + 1] = F[g[i]]
      BY <3>1, <3>2, <3>3
    <3> QED
      BY <3>3, <3>4, <3>5
  <2> QED
    BY <2>1
<1> HIDE DEF S
<1>3. \A i \in Nat : i \in S
  BY <1>1, <1>2, SetInduction
<1> QED
  BY <1>3 DEF S

LEMMA RunOf ==
    ASSUME NEW b \in Int, NEW F \in [Int -> Int]
    PROVE  \E D \in [Nat -> Int] : D[0] = b /\ \A n \in Nat : D[n + 1] = F[D[n]]
<1> DEFINE To(n) == CHOOSE f : RunTo(b, F, n, f)
           D == [n \in Nat |-> To(n)[n]]
<1>1. \A n \in Nat : RunTo(b, F, n, To(n))
  BY RunExists
<1> HIDE DEF To
<1>2. D \in [Nat -> Int] /\ D[0] = b
  BY <1>1 DEF RunTo
<1>3. ASSUME NEW n \in Nat PROVE D[n + 1] = F[D[n]]
  <2>1. To(n + 1)[n + 1] = F[To(n + 1)[n]]
    <3>1. RunTo(b, F, n + 1, To(n + 1)) /\ n + 1 \in 1 .. n + 1 /\ n + 1 - 1 = n
      BY <1>1
    <3> QED
      BY <3>1 DEF RunTo
  <2>2. To(n + 1)[n] = To(n)[n]
    BY <1>1, RunUnique
  <2> QED
    BY <2>1, <2>2
<1> QED
  BY <1>2, <1>3

(***************************************************************************)
(* The delays before they are capped: the one of retry n + 1 is that of    *)
(* retry n, doubled unless it is MaxDelay already.                         *)
(***************************************************************************)
DelaysOf(o, D) ==
    /\ D \in [Nat -> Int] /\ D[0] = o.base
    /\ \A n \in Nat : D[n + 1] = Doubled(o, D[n]) /\ Delay(o, n) = AtMost(D[n], o.max)

LEMMA DelayRuns ==
    ASSUME NEW o, o.base \in Int, o.max \in Int
    PROVE  \E D : DelaysOf(o, D)
<1> DEFINE F == [d \in Int |-> Doubled(o, d)]
<1>1. F \in [Int -> Int]
  BY TimesAssumption DEF Doubled, Duration
<1>2. PICK D \in [Nat -> Int] : D[0] = o.base /\ \A n \in Nat : D[n + 1] = F[D[n]]
  BY <1>1, RunOf
<1>3. \A n \in Nat : D[n + 1] = Doubled(o, D[n])
  BY <1>2
<1>4. ASSUME NEW n \in Nat PROVE Delay(o, n) = AtMost(D[n], o.max)
  <2> DEFINE P(d) == d = [i \in 0 .. n |-> IF i = 0 THEN o.base ELSE Doubled(o, d[i - 1])]
             d == CHOOSE d : P(d)
  <2>1. Delay(o, n) = AtMost(d[n], o.max)
    BY DEF Delay
  <2>2. P([i \in 0 .. n |-> D[i]])
    <3> DEFINE e == [i \in 0 .. n |-> D[i]]
    <3>1. ASSUME NEW i \in 0 .. n
          PROVE  D[i] = IF i = 0 THEN o.base ELSE Doubled(o, e[i - 1])
      <4>1. CASE i # 0
        <5>1. i - 1 \in Nat /\ i - 1 \in 0 .. n /\ i - 1 + 1 = i
          BY <4>1
        <5> QED
          BY <1>3, <4>1, <5>1
      <4> QED
        BY <1>2, <4>1
    <3> QED
      BY <3>1
  <2>3. P(d)
    BY <2>2
  <2> HIDE DEF d
  <2>4. d[0] = o.base /\ \A i \in 0 .. n : i # 0 => d[i] = Doubled(o, d[i - 1])
    BY <2>3
  <2> HIDE DEF P
  <2> DEFINE S == {i \in Nat : i <= n => d[i] = D[i]}
  <2>5. 0 \in S
    BY <1>2, <2>4
  <2>6. ASSUME NEW i \in Nat, i \in S PROVE i + 1 \in S
    <3>1. CASE i + 1 <= n
      <4>1. d[i + 1] = Doubled(o, d[i])
        BY <2>4, <3>1
      <4> QED
        BY <1>3, <2>6, <3>1, <4>1
    <3> QED
      BY <3>1
  <2> HIDE DEF S
  <2>7. n \in S
    BY <2>5, <2>6, SetInduction
  <2> QED
    BY <2>1, <2>7 DEF S
<1> QED
  BY <1>2, <1>3, <1>4 DEF DelaysOf

LEMMA DelayType ==
    ASSUME NEW o, o.base \in Int, o.max \in Int, NEW n \in Nat
    PROVE  Delay(o, n) \in Int
BY DelayRuns DEF DelaysOf, AtMost

\* The same of what Backoff doubles, without an end and without a width.
BackoffsOf(o, B) ==
    /\ B \in [Nat -> Int] /\ B[0] = o.base
    /\ \A n \in Nat : B[n + 1] = 2 * B[n] /\ Backoff(o, n + 1) = AtMost(B[n], o.max)

LEMMA BackoffRuns ==
    ASSUME NEW o, o.base \in Int
    PROVE  \E B : BackoffsOf(o, B)
<1> DEFINE F == [d \in Int |-> 2 * d]
<1>1. F \in [Int -> Int]
  OBVIOUS
<1>2. PICK B \in [Nat -> Int] : B[0] = o.base /\ \A n \in Nat : B[n + 1] = F[B[n]]
  BY <1>1, RunOf
<1>3. \A n \in Nat : B[n + 1] = 2 * B[n]
  BY <1>2
<1>4. ASSUME NEW n \in Nat PROVE Backoff(o, n + 1) = AtMost(B[n], o.max)
  <2> DEFINE P(d) == d = [i \in 0 .. (n + 1) - 1 |-> IF i = 0 THEN o.base ELSE 2 * d[i - 1]]
             d == CHOOSE d : P(d)
  <2>0. (n + 1) - 1 = n
    OBVIOUS
  <2>1. Backoff(o, n + 1) = AtMost(d[n], o.max)
    BY <2>0 DEF Backoff
  <2>2. P([i \in 0 .. n |-> B[i]])
    <3> DEFINE e == [i \in 0 .. n |-> B[i]]
    <3>1. ASSUME NEW i \in 0 .. n
          PROVE  B[i] = IF i = 0 THEN o.base ELSE 2 * e[i - 1]
      <4>1. CASE i # 0
        <5>1. i - 1 \in Nat /\ i - 1 \in 0 .. n /\ i - 1 + 1 = i
          BY <4>1
        <5> QED
          BY <1>3, <4>1, <5>1
      <4> QED
        BY <1>2, <4>1
    <3> QED
      BY <2>0, <3>1
  <2>3. P(d)
    BY <2>2
  <2> HIDE DEF d
  <2>4. d[0] = o.base /\ \A i \in 0 .. n : i # 0 => d[i] = 2 * d[i - 1]
    BY <2>0, <2>3
  <2> HIDE DEF P
  <2> DEFINE S == {i \in Nat : i <= n => d[i] = B[i]}
  <2>5. 0 \in S
    BY <1>2, <2>4
  <2>6. ASSUME NEW i \in Nat, i \in S PROVE i + 1 \in S
    <3>1. CASE i + 1 <= n
      <4>1. d[i + 1] = 2 * d[i]
        BY <2>4, <3>1
      <4> QED
        BY <1>3, <2>6, <3>1, <4>1
    <3> QED
      BY <3>1
  <2> HIDE DEF S
  <2>7. n \in S
    BY <2>5, <2>6, SetInduction
  <2> QED
    BY <2>1, <2>7 DEF S
<1> QED
  BY <1>2, <1>3, <1>4 DEF BackoffsOf

(***************************************************************************)
(* Where the doubling fits, delay gives a positive delay of MaxDelay at    *)
(* most, the backoff that it should be, and never less for a later retry.  *)
(***************************************************************************)
LEMMA DelayFits ==
    ASSUME NEW o, o.base \in Nat \ {0}, o.max \in Nat \ {0}, Fits(o), NEW n \in Nat
    PROVE  /\ Delay(o, n) \in 1 .. o.max
           /\ Delay(o, n) = Backoff(o, n + 1)
           /\ Delay(o, n) <= Delay(o, n + 1)
<1>1. PICK D : DelaysOf(o, D)
  BY DelayRuns
<1>2. PICK B : BackoffsOf(o, B)
  BY BackoffRuns
<1> DEFINE Same(i) == D[i] >= 1 /\ (D[i] = B[i] \/ (D[i] >= o.max /\ B[i] >= o.max))
           S == {i \in Nat : Same(i)}
<1>3. 0 \in S
  BY <1>1, <1>2 DEF DelaysOf, BackoffsOf
<1>4. ASSUME NEW i \in Nat, i \in S PROVE i + 1 \in S /\ D[i] <= D[i + 1]
  <2>0. /\ D[i] \in Int /\ B[i] \in Int /\ D[i + 1] = Doubled(o, D[i]) /\ B[i + 1] = 2 * B[i]
        /\ Same(i)
    BY <1>1, <1>2, <1>4 DEF DelaysOf, BackoffsOf
  <2>1. CASE D[i] >= o.max
    BY <2>0, <2>1 DEF Doubled
  <2>2. CASE ~(D[i] >= o.max)
    <3>1. 2 * D[i] \in 0 .. MaxDuration
      BY <2>0, <2>2, TimesAssumption DEF Fits
    <3>2. Duration(2 * D[i]) = 2 * D[i]
      BY <3>1, TimesAssumption DEF Duration
    <3> QED
      BY <2>0, <2>2, <3>2 DEF Doubled
  <2> QED
    BY <2>1, <2>2
<1> HIDE DEF S
<1>5. \A i \in Nat : i \in S
  BY <1>3, <1>4, SetInduction
<1>6. Same(n) /\ D[n] <= D[n + 1] /\ D[n] \in Int /\ D[n + 1] \in Int /\ B[n] \in Int
  BY <1>1, <1>2, <1>4, <1>5 DEF S, DelaysOf, BackoffsOf
<1>7. /\ Delay(o, n) = AtMost(D[n], o.max) /\ Delay(o, n + 1) = AtMost(D[n + 1], o.max)
      /\ Backoff(o, n + 1) = AtMost(B[n], o.max)
  BY <1>1, <1>2 DEF DelaysOf, BackoffsOf
<1> QED
  BY <1>6, <1>7 DEF AtMost

\* So a later retry waits no less than an earlier one.
LEMMA DelayGrows ==
    ASSUME NEW o, o.base \in Nat \ {0}, o.max \in Nat \ {0}, Fits(o),
           NEW m \in Nat, NEW n \in Nat, m <= n
    PROVE  Delay(o, m) <= Delay(o, n)
<1> DEFINE S == {i \in Nat : Delay(o, m) <= Delay(o, m + i)}
<1>0. \A i \in Nat : Delay(o, i) \in Int /\ Delay(o, i) <= Delay(o, i + 1)
  BY DelayFits, DelayType
<1>1. 0 \in S
  <2>1. m + 0 = m
    OBVIOUS
  <2> QED
    BY <1>0, <2>1
<1>2. ASSUME NEW i \in Nat, i \in S PROVE i + 1 \in S
  <2>1. m + i \in Nat /\ m + (i + 1) = (m + i) + 1 /\ m + i + 1 \in Nat
    OBVIOUS
  <2>2. Delay(o, m) <= Delay(o, m + i) /\ Delay(o, m + i) <= Delay(o, (m + i) + 1)
    BY <1>0, <1>2, <2>1
  <2>3. Delay(o, m) <= Delay(o, (m + i) + 1)
    BY <1>0, <2>1, <2>2
  <2> QED
    BY <2>1, <2>3
<1> HIDE DEF S
<1>3. n - m \in S
  BY <1>1, <1>2, SetInduction
<1>4. m + (n - m) = n
  OBVIOUS
<1> QED
  BY <1>3, <1>4 DEF S

-----------------------------------------------------------------------------

\* What schedule leaves in pending has been counted.
Counted == \A v \in VMs : pending[v] # NoLook => pending[v].attempts \in 1 .. MaxRetries

(***************************************************************************)
(* The timer that is waited for fires no later than anything is due.       *)
(***************************************************************************)
Armed ==
    pc = "select" =>
        \/ wake <= now
        \/ /\ \A v \in VMs : pending[v] # NoLook => wake <= dueAt[v]
           /\ syncDue => wake <= syncDueAt

Times ==
    /\ opts \in {WithDefaults(o) : o \in Options}
    /\ now \in Int /\ wake \in Int /\ syncDueAt \in Int
    /\ dueAt \in [VMs -> Int]

TInv == IInv /\ DoneQuiet /\ Counted /\ Times /\ Armed

-----------------------------------------------------------------------------

(***************************************************************************)
(* A look that schedule stores has one attempt more than it continues.     *)
(***************************************************************************)
LEMMA ScheduleCounts ==
    ASSUME NEW left \in [VMs -> Look], NEW v \in VMs, NEW pid \in Pids \cup {0},
           NEW prev \in Look,
           \A w \in VMs : left[w] # NoLook => left[w].attempts \in 1 .. MaxRetries,
           NEW w \in VMs, Schedule(left, v, pid, prev)[w] # NoLook
    PROVE  Schedule(left, v, pid, prev)[w].attempts \in 1 .. MaxRetries
<1> DEFINE n == IF prev.pid = pid THEN prev.attempts ELSE 0
<1>1. n \in 0 .. MaxRetries
  BY RetriesAssumption DEF Look
<1>2. CASE n >= MaxRetries
  BY <1>2 DEF Schedule
<1>3. CASE ~(n >= MaxRetries)
  <2>1. Schedule(left, v, pid, prev)
          = [left EXCEPT ![v] = [pid |-> pid, attempts |-> n + 1]]
    BY <1>3 DEF Schedule
  <2>2. n + 1 \in 1 .. MaxRetries
    BY <1>1, <1>3, RetriesAssumption
  <2> HIDE DEF n
  <2> QED
    BY <2>1, <2>2
<1> QED
  BY <1>2, <1>3

LEMMA StartCounts ==
    ASSUME NEW left \in [VMs -> Look], NEW v \in VMs, NEW pid \in Pids \cup {0},
           NEW prev \in Look, NEW ok \in BOOLEAN,
           \A w \in VMs : left[w] # NoLook => left[w].attempts \in 1 .. MaxRetries,
           Start(left, v, pid, prev, ok)
    PROVE  Counted'
BY ScheduleCounts DEF Start, Counted

LEMMA LookCounts ==
    ASSUME NEW left \in [VMs -> Look], NEW v \in VMs, NEW prev \in Look, NEW ok \in BOOLEAN,
           \A w \in VMs : left[w] # NoLook => left[w].attempts \in 1 .. MaxRetries,
           LookAt(left, v, prev, ok)
    PROVE  Counted'
<1>0. prev.pid \in Pids \cup {0}
  BY DEF Look
<1>1. CASE Silent(left)
  BY <1>1 DEF Silent, Counted
<1>2. CASE Silent(Schedule(left, v, 0, prev))
  BY <1>2, ScheduleCounts DEF Silent, Counted
<1>3. CASE Start(left, v, prev.pid, prev, ok)
  BY <1>0, <1>3, StartCounts
<1>4. CASE Start(left, v, Status(v), prev, ok)
  BY <1>4, StartCounts, StatusType
<1> QED
  BY <1>1, <1>2, <1>3, <1>4 DEF LookAt, RetryStart, LookForStart

(***************************************************************************)
(* Whatever the loop or the node does, what is pending has been counted.   *)
(***************************************************************************)
LEMMA NextCounts ==
    ASSUME IInv, Counted, Next
    PROVE  Counted'
<1>0. pending \in [VMs -> Look] /\ NoLook \in Look
  BY NoLookIsLook DEF NoLookType, IInv, TypeOK, LoopTypeOK
<1>1. CASE pending' = pending
  BY <1>1 DEF Counted
<1>2. ASSUME NEW v, pending' = [pending EXCEPT ![v] = NoLook] PROVE Counted'
  BY <1>0, <1>2 DEF Counted
<1>3. ASSUME NEW ok \in BOOLEAN, SyncGuest(ok) PROVE Counted'
  <2>1. First(scan) \in VMs /\ found[First(scan)] \in Pids
    BY <1>3, FirstIsMember DEF SyncGuest, IInv, TypeOK, LoopTypeOK, ReportsFound
  <2>2. CASE Start(pending, First(scan), found[First(scan)], NoLook, ok)
    BY <1>0, <2>1, <2>2, StartCounts DEF Counted
  <2> QED
    BY <1>1, <1>3, <2>2 DEF SyncGuest
<1>4. ASSUME NEW ok \in BOOLEAN, EventLook(ok) PROVE Counted'
  <2>1. looking \in VMs
    BY <1>4 DEF EventLook, IInv, LookIsFresh
  <2> QED
    BY <1>0, <1>4, <2>1, LookCounts DEF EventLook, Counted
<1>5. ASSUME NEW ok \in BOOLEAN, NEW v \in VMs, RetryLook(v, ok) PROVE Counted'
  <2> DEFINE left == [pending EXCEPT ![v] = NoLook]
  <2>1. /\ left \in [VMs -> Look] /\ pending[v] \in Look
        /\ \A w \in VMs : left[w] # NoLook => left[w].attempts \in 1 .. MaxRetries
    BY <1>0 DEF Counted
  <2>2. LookAt(left, v, pending[v], ok)
    BY <1>5 DEF RetryLook
  <2> HIDE DEF left
  <2> QED
    BY <2>1, <2>2, LookCounts
<1>6. CASE FirstSync \/ Tick \/ RetryDue \/ Return \/ WatcherError \/ OtherFileEvent
  BY <1>1, <1>6 DEF FirstSync, Tick, RetryDue, Return, WatcherError, OtherFileEvent,
                    StartSync, BeginSync
<1>7. CASE ListGuest \/ SyncFailed \/ SyncRunning \/ SyncEnd
  BY <1>1, <1>7 DEF ListGuest, SyncFailed, SyncRunning, SyncEnd
<1>8. CASE RemoveEvent \/ ChangeEvent
  BY <1>1, <1>2, <1>8 DEF RemoveEvent, ChangeEvent
<1>9. CASE Node \/ Done
  BY <1>1, <1>9 DEF Node, OtherFile, Remount, CreatePidFile, CleanUp, Launch, WritePid,
                    Exit, Configure, Killed, NodeStep, Done, vars, loopVars
<1> QED
  BY <1>3, <1>4, <1>5, <1>6, <1>7, <1>8, <1>9 DEF Next, Watching, Step

-----------------------------------------------------------------------------

(***************************************************************************)
(* Where a step of the loop records its times, the timer is set for them.  *)
(***************************************************************************)
LEMMA RecordTimes ==
    ASSUME TInv, IInv', Counted', Record
    PROVE  Times' /\ Armed'
<1> USE DEF TInv, Times
<1>1. opts' = opts /\ now' = now
  BY DEF Record
<1>2. ASSUME NEW n \in 0 .. MaxRetries PROVE Delay(opts, n) \in Int
  <2>1. opts.base \in Int /\ opts.max \in Int /\ n \in Nat
    BY TimesAssumption, RetriesAssumption DEF WithDefaults
  <2> QED
    BY <2>1, DelayType
<1>3. ASSUME NEW v \in VMs, pending'[v] # NoLook
      PROVE  now + Delay(opts, pending'[v].attempts - 1) \in Int
  <2>1. pending'[v].attempts - 1 \in 0 .. MaxRetries
    BY <1>3, RetriesAssumption DEF Counted
  <2> QED
    BY <1>2, <2>1
<1>4. dueAt' \in [VMs -> Int]
  <2>1. ScheduleLooks
    BY DEF Record
  <2> QED
    BY <1>3, <2>1 DEF ScheduleLooks
<1>5. syncDueAt' \in Int
  <2>1. syncAttempts' \in 0 .. MaxRetries
    BY DEF IInv, TypeOK, LoopTypeOK
  <2>2. now + Delay(opts, syncAttempts') \in Int
    BY <1>2, <2>1
  <2>3. ScheduleSync
    BY DEF Record
  <2> QED
    BY <2>2, <2>3 DEF ScheduleSync
<1>6. CASE pc' # "select"
  <2>1. wake' = 0
    BY <1>6 DEF Record
  <2> QED
    BY <1>1, <1>4, <1>5, <1>6, <2>1 DEF Armed
<1>7. CASE pc' = "select"
  <2>1. PICK t \in {now + Idle, syncDueAt'} \cup {dueAt'[v] : v \in VMs} :
           /\ WakesInTime(t)
           /\ wake' = IF t < now THEN now ELSE t
    BY <1>7 DEF Record, SetTimer
  <2>2. t \in Int
    BY <1>4, <1>5, <2>1, TimesAssumption
  <2>3. wake' \in Int /\ (wake' = now \/ wake' = t)
    BY <2>1, <2>2
  <2>4. CASE wake' = now
    BY <1>1, <1>4, <1>5, <2>3, <2>4 DEF Armed
  <2>5. CASE wake' = t
    BY <1>1, <1>4, <1>5, <2>1, <2>3, <2>5 DEF Armed, WakesInTime
  <2> QED
    BY <2>3, <2>4, <2>5
<1> QED
  BY <1>6, <1>7

(***************************************************************************)
(* Time passes, or the loop wakes for nothing: Watch's own state stays.    *)
(***************************************************************************)
LEMMA IdleIInv ==
    ASSUME IInv, Counted, call' = NoCall,
           UNCHANGED <<nodeVars, pc, reported, pending, syncVars, due, looking>>
    PROVE  IInv' /\ Counted' /\ DoneQuiet'
<1>1. TypeOK'
  BY DEF IInv, TypeOK, NodeTypeOK, LoopTypeOK, nodeVars, syncVars, NoCall, Call
<1> QED
  BY <1>1 DEF IInv, SyncRetryBound, LookIsFresh, ReportsFound, RetryNotReported, Counted, DoneQuiet,
              nodeVars, syncVars

LEMMA TimedInvariant == TInv /\ [TNext]_tVars => TInv'
<1> SUFFICES ASSUME TInv, [TNext]_tVars PROVE TInv'
  OBVIOUS
<1>1. CASE Body /\ Record
  <2>1. Next
    BY <1>1 DEF Body, Next, Watching
  <2>2. IInv' /\ Counted' /\ DoneQuiet'
    BY <2>1, NextIInv, NextCounts, DoneStaysQuiet DEF TInv
  <2> QED
    BY <1>1, <2>2, RecordTimes DEF TInv
<1>2. CASE TimerFires
  <2>1. Next /\ Record
    BY <1>2 DEF TimerFires, Next, Watching
  <2>2. IInv' /\ Counted' /\ DoneQuiet'
    BY <2>1, NextIInv, NextCounts, DoneStaysQuiet DEF TInv
  <2> QED
    BY <2>1, <2>2, RecordTimes DEF TInv
<1>3. CASE IdleWake
  <2>1. IInv' /\ Counted' /\ DoneQuiet' /\ Record
    BY <1>3, IdleIInv DEF IdleWake, TInv
  <2> QED
    BY <2>1, RecordTimes DEF TInv
<1>4. CASE Pass
  <2>1. IInv' /\ Counted' /\ DoneQuiet'
    BY <1>4, IdleIInv DEF Pass, TInv
  <2>2. Times' /\ now' = now + 1
    BY <1>4 DEF Pass, TInv, Times
  <2>3. Armed'
    BY <1>4, <2>2 DEF Pass, TInv, Times, Armed, syncVars
  <2> QED
    BY <2>1, <2>2, <2>3 DEF TInv
<1>5. CASE Node /\ UNCHANGED timeVars
  <2>1. IInv' /\ Counted' /\ DoneQuiet'
    BY <1>5, NextIInv, NextCounts, DoneStaysQuiet DEF TInv, Next
  <2>2. UNCHANGED <<pc, pending, syncDue>>
    BY <1>5 DEF Node, OtherFile, Remount, CreatePidFile, CleanUp, Launch, WritePid, Exit,
                Configure, Killed, NodeStep, syncVars
  <2> QED
    BY <1>5, <2>1, <2>2 DEF TInv, Times, Armed, timeVars
<1>6. CASE UNCHANGED vars /\ UNCHANGED timeVars
  <2>1. IInv'
    BY <1>6, NextIInv DEF TInv
  <2> QED
    BY <1>6, <2>1 DEF TInv, DoneQuiet, Counted, Times, Armed, vars, loopVars, syncVars, timeVars
<1> QED
  BY <1>1, <1>2, <1>3, <1>4, <1>5, <1>6 DEF TNext, Done, tVars

LEMMA TimedInit == TInit => TInv
<1> SUFFICES ASSUME TInit PROVE TInv
  OBVIOUS
<1>1. IInv
  BY InitIInv DEF TInit
<1> QED
  BY <1>1 DEF TInit, TInv, Init, DoneQuiet, Counted, Times, Armed

LEMMA TimedInvariance == TSpec => []TInv
BY TimedInit, TimedInvariant, PTL DEF TSpec

(***************************************************************************)
(* No due look is slept through, whatever the delays are: they need not be *)
(* monotone, nor even positive.                                            *)
(***************************************************************************)
THEOREM NoDueLookSleeps == TSpec => NothingOverdue
<1>1. ASSUME TInv, [TNext]_tVars, pc = "select", now' > now
      PROVE  ~SyncIsDue /\ \A v \in VMs : ~IsDue(v)
  <2>1. now < wake
    <3>1. CASE Pass
      BY <1>1, <3>1 DEF Pass
    <3>2. CASE now' = now
      BY <1>1, <3>2 DEF TInv, Times
    <3> QED
      BY <1>1, <3>1, <3>2 DEF TNext, TimerFires, IdleWake, Record, timeVars, tVars
  <2> QED
    BY <1>1, <2>1 DEF TInv, Times, Armed, SyncIsDue, IsDue
<1>2. TInv /\ [TNext]_tVars =>
        [pc = "select" /\ now' > now => ~SyncIsDue /\ \A v \in VMs : ~IsDue(v)]_tVars
  BY <1>1
<1> QED
  BY <1>2, TimedInvariance, PTL DEF TSpec, NothingOverdue

(***************************************************************************)
(* With the times the loop keeps, and while time passes, the handler sees  *)
(* no call that WatchContract forbids: the times only take steps away.     *)
(***************************************************************************)
THEOREM TimedRefinement == TSpec => MeetsContract
<1>1. TInit => Contract!Init
  <2>1. TInit => Init
    BY DEF TInit
  <2>2. Init => Contract!Init
    BY DEF Init, Contract!Init, Contract!Quiet, Contract!CallOf, NoCall, NoVM
  <2> QED
    BY <2>1, <2>2
<1>2. TInv /\ [TNext]_tVars => [Contract!Next]_(Contract!vars)
  <2> SUFFICES ASSUME TInv, [TNext]_tVars PROVE [Contract!Next]_(Contract!vars)
    OBVIOUS
  <2>1. CASE IdleWake \/ Pass
    <3>1. Quietly
      BY <2>1 DEF IdleWake, Pass, Quietly, syncVars
    <3> QED
      BY <3>1, QuietStep
  <2>2. CASE Next \/ UNCHANGED vars
    <3>1. IInv
      BY DEF TInv
    <3>2. [Next]_vars
      BY <2>2
    <3> QED
      BY <3>1, <3>2, StepRefines
  <2> QED
    BY <2>1, <2>2 DEF TNext, Body, TimerFires, Next, Watching, tVars
<1> QED
  BY <1>1, <1>2, TimedInvariance, PTL DEF TSpec, MeetsContract, Contract!Spec

-----------------------------------------------------------------------------
(* The times stay within what they are for.                                *)

\* No MaxDelay is more than half of what a Duration holds.
DelaysFit == \A o \in Options : Fits(WithDefaults(o))

LEMMA RecordWithin ==
    ASSUME DelaysFit, TInv, TimesTypeOK, IInv', Counted', Record
    PROVE  TimesTypeOK'
<1>0. /\ opts' = opts /\ now' = now /\ now \in Nat /\ opts.max \in Nat \ {0}
      /\ opts.base \in Nat \ {0} /\ Fits(opts)
  BY DEF Record, TimesTypeOK, TInv, Times, DelaysFit
<1>1. ASSUME NEW n \in Nat PROVE now + Delay(opts, n) \in 1 .. now + opts.max
  <2>1. Delay(opts, n) \in 1 .. opts.max
    BY <1>0, DelayFits
  <2> QED
    BY <1>0, <2>1
<1>2. ASSUME NEW v \in VMs
      PROVE  dueAt'[v] \in IF pending'[v] = NoLook THEN {0} ELSE 1 .. now + opts.max
  <2>1. dueAt'[v] = IF pending'[v] = NoLook THEN 0
                    ELSE IF pending'[v] = pending[v] THEN dueAt[v]
                    ELSE now + Delay(opts, pending'[v].attempts - 1)
    BY DEF Record, ScheduleLooks
  <2>2. pending'[v] # NoLook => pending'[v].attempts - 1 \in Nat
    BY RetriesAssumption DEF Counted
  <2>3. dueAt[v] \in IF pending[v] = NoLook THEN {0} ELSE 1 .. now + opts.max
    BY DEF TimesTypeOK
  <2> QED
    BY <1>1, <2>1, <2>2, <2>3
<1>3. syncDueAt' \in IF syncDue' THEN 1 .. now + opts.max ELSE {0}
  <2>1. syncDueAt' = IF ~syncDue' THEN 0 ELSE IF syncDue THEN syncDueAt
                     ELSE now + Delay(opts, syncAttempts')
    BY DEF Record, ScheduleSync
  <2>2. syncAttempts' \in Nat
    BY RetriesAssumption DEF IInv, TypeOK, LoopTypeOK
  <2>3. syncDueAt \in IF syncDue THEN 1 .. now + opts.max ELSE {0}
    BY DEF TimesTypeOK
  <2> QED
    BY <1>1, <2>1, <2>2, <2>3
<1>4. wake' \in 0 .. now + Idle
  <2>1. CASE pc' # "select"
    BY <1>0, <2>1, TimesAssumption DEF Record
  <2>2. CASE pc' = "select"
    <3>1. PICK t \in {now + Idle, syncDueAt'} \cup {dueAt'[v] : v \in VMs} :
             t <= now + Idle /\ wake' = IF t < now THEN now ELSE t
      BY <2>2 DEF Record, SetTimer
    <3>2. \A v \in VMs : dueAt'[v] \in Int
      <4> TAKE v \in VMs
      <4>1. dueAt'[v] \in IF pending'[v] = NoLook THEN {0} ELSE 1 .. now + opts.max
        BY <1>2
      <4> QED
        BY <1>0, <4>1
    <3>3. syncDueAt' \in Int
      BY <1>0, <1>3
    <3>4. t \in Int
      BY <1>0, <3>1, <3>2, <3>3, TimesAssumption
    <3> QED
      BY <1>0, <3>1, <3>4, TimesAssumption
  <2> QED
    BY <2>1, <2>2
<1> QED
  BY <1>0, <1>2, <1>3, <1>4 DEF TimesTypeOK

LEMMA TimesTypeNext == ASSUME DelaysFit, TInv, TInv', TimesTypeOK, [TNext]_tVars PROVE TimesTypeOK'
<1>1. CASE Record
  BY <1>1, RecordWithin DEF TInv
<1>2. CASE Pass
  <2>1. /\ UNCHANGED <<opts, dueAt, syncDueAt, wake, pending, syncDue>>
        /\ now' = now + 1 /\ now \in Nat /\ now < MaxTime /\ opts.max \in Nat
    BY <1>2 DEF Pass, syncVars, TimesTypeOK
  <2>2. ASSUME NEW v \in VMs
        PROVE  dueAt'[v] \in IF pending'[v] = NoLook THEN {0} ELSE 1 .. now' + opts'.max
    <3>1. dueAt[v] \in IF pending[v] = NoLook THEN {0} ELSE 1 .. now + opts.max
      BY DEF TimesTypeOK
    <3> QED
      BY <2>1, <3>1
  <2>3. syncDueAt' \in IF syncDue' THEN 1 .. now' + opts'.max ELSE {0}
    <3>1. syncDueAt \in IF syncDue THEN 1 .. now + opts.max ELSE {0}
      BY DEF TimesTypeOK
    <3> QED
      BY <2>1, <3>1
  <2>4. now' \in 0 .. MaxTime /\ wake' \in 0 .. now' + Idle
    BY <2>1, TimesAssumption DEF TimesTypeOK
  <2>5. opts' \in [base : Nat \ {0}, max : Nat \ {0}]
    BY <2>1 DEF TimesTypeOK
  <2> QED
    BY <2>2, <2>3, <2>4, <2>5 DEF TimesTypeOK
<1>3. CASE UNCHANGED timeVars /\ UNCHANGED <<pending, syncDue>>
  BY <1>3 DEF TimesTypeOK, timeVars
<1>4. CASE Node /\ UNCHANGED timeVars
  BY <1>3, <1>4 DEF Node, OtherFile, Remount, CreatePidFile, CleanUp, Launch, WritePid, Exit,
                    Configure, Killed, NodeStep, syncVars
<1>5. CASE UNCHANGED vars /\ UNCHANGED timeVars
  BY <1>3, <1>5 DEF vars, loopVars, syncVars
<1> QED
  BY <1>1, <1>2, <1>4, <1>5 DEF TNext, TimerFires, IdleWake, Done, tVars

(***************************************************************************)
(* While no MaxDelay is more than half of what a Duration holds, whatever  *)
(* is scheduled is due after now and within MaxDelay, and the timer is     *)
(* never set beyond `idle`: no delay is zero, negative or has overflowed,  *)
(* for any number of retries.                                              *)
(***************************************************************************)
THEOREM TimesWithin ==
    ASSUME DelaysFit
    PROVE  TSpec => []TimesTypeOK
<1>1. TInit => TimesTypeOK
  <2> SUFFICES ASSUME TInit PROVE TimesTypeOK
    OBVIOUS
  <2>1. opts \in [base : Nat \ {0}, max : Nat \ {0}]
    <3>1. PICK o \in Options : opts = WithDefaults(o)
      BY DEF TInit
    <3>2. o.base \in Int /\ o.max \in Int
      BY TimesAssumption
    <3> QED
      BY <3>1, <3>2, TimesAssumption DEF WithDefaults
  <2>2. now = 0 /\ wake = 0 /\ syncDueAt = 0 /\ ~syncDue /\ \A v \in VMs : dueAt[v] = 0
    BY DEF TInit, Init
  <2>3. \A v \in VMs : pending[v] = NoLook
    BY DEF TInit, Init
  <2> QED
    BY <2>1, <2>2, <2>3, TimesAssumption DEF TimesTypeOK
<1>2. TInv /\ TInv' /\ TimesTypeOK /\ [TNext]_tVars => TimesTypeOK'
  BY TimesTypeNext
<1> QED
  BY <1>1, <1>2, TimedInvariance, PTL DEF TSpec

-----------------------------------------------------------------------------
(* The backoff is kept to.                                                 *)

(***************************************************************************)
(* A start that was refused last, and whose process goes on, is pending as *)
(* the retry that the backoff was counted for: it has as many attempts as  *)
(* refusals, or more when it had been pending for that PID before.         *)
(***************************************************************************)
RefusalOf(v) ==
    LET r == refusal[v]
    IN  /\ pending[v].pid = r.pid /\ RunsAs(v, r.pid)
        /\ r.times \in 1 .. pending[v].attempts
        /\ dueAt[v] = r.at + Delay(opts, pending[v].attempts - 1)

RefusalsPend ==
    /\ refusal \in [VMs -> [pid : Pids \cup {0}, times : Nat, at : Int]]
    /\ \A v \in VMs : refusal[v].pid # 0 => RefusalOf(v)

\* What retryDue still has to run is due, and stays as it is until it is run.
DueIsDue ==
    /\ pc \in {"init", "select", "look", "done"} => due = {}
    /\ \A v \in due : pending[v] # NoLook /\ dueAt[v] <= now

BackoffInv == RefusalsPend /\ DueIsDue

LEMMA OptsType ==
    ASSUME Times
    PROVE  opts.base \in Nat \ {0} /\ opts.max \in Nat \ {0}
<1>1. PICK o \in Options : opts = WithDefaults(o)
  BY DEF Times
<1>2. o.base \in Int /\ o.max \in Int
  BY TimesAssumption
<1> QED
  BY <1>1, <1>2, TimesAssumption DEF WithDefaults

\* A look is at one guest.
LEMMA LookOfOne ==
    ASSUME NEW left \in [VMs -> Look], NEW g \in VMs, NEW prev \in Look, NEW ok \in BOOLEAN,
           LookAt(left, g, prev, ok)
    PROVE  /\ \A v \in VMs : Tells(v) => v = g
           /\ \A v \in VMs \ {g} : pending'[v] = left[v]
<1>0. prev.pid \in Pids \cup {0} /\ Status(g) \in Pids \cup {0}
  BY StatusType DEF Look
<1>1. ASSUME NEW pid \in Pids \cup {0}, Start(left, g, pid, prev, ok)
      PROVE  /\ \A v \in VMs : Tells(v) => v = g
             /\ \A v \in VMs \ {g} : pending'[v] = left[v]
  BY <1>1, ScheduleEffect DEF Start, Started, Tells
<1>2. CASE Silent(left)
  BY <1>2 DEF Silent, NoCall, Tells
<1>3. CASE Silent(Schedule(left, g, 0, prev))
  BY <1>3, ScheduleEffect DEF Silent, NoCall, Tells
<1> QED
  BY <1>0, <1>1, <1>2, <1>3 DEF LookAt, RetryStart, LookForStart

(***************************************************************************)
(* A start is told of a guest with a pending look only where retryDue runs *)
(* it, and no other body touches the looks that retryDue has still to run. *)
(***************************************************************************)
LEMMA DueSteps ==
    ASSUME IInv, DoneQuiet, DueIsDue, Body \/ Node \/ Done
    PROVE  /\ \A v \in VMs : Tells(v) /\ pending[v] # NoLook => v \in due
           /\ due' \subseteq due /\ \A v \in due' : pending'[v] = pending[v]
           /\ pc' \in {"init", "select", "look", "done"} => due' = {}
<1>0. /\ pending \in [VMs -> Look] /\ NoLook \in Look /\ due \subseteq VMs /\ scan \subseteq VMs
      /\ pc \in {"init", "select", "look", "done"} => due = {}
      /\ \A v \in due : pending[v] # NoLook
  BY NoLookIsLook DEF NoLookType, IInv, TypeOK, LoopTypeOK, DueIsDue
<1> DEFINE Goal == /\ \A v \in VMs : Tells(v) /\ pending[v] # NoLook => v \in due
                   /\ due' \subseteq due /\ \A v \in due' : pending'[v] = pending[v]
                   /\ pc' \in {"init", "select", "look", "done"} => due' = {}
<1>1. ASSUME NEW ok \in BOOLEAN, SyncGuest(ok) PROVE Goal
  <2>1. PICK g \in VMs : g = First(scan)
    BY <1>0, <1>1, FirstIsMember DEF SyncGuest
  <2>2. due' = due /\ pc' = "report"
    BY <1>1 DEF SyncGuest
  <2>3. CASE call' = NoCall /\ pending' = pending
    BY <2>2, <2>3 DEF NoCall, Tells
  <2>4. CASE ~Known(g) /\ Start(pending, g, found[g], NoLook, ok)
    <3>1. pending[g] = NoLook /\ found[g] \in Pids \cup {0}
      BY <2>4 DEF Known, IInv, TypeOK, LoopTypeOK
    <3>2. \A v \in VMs : Tells(v) => v = g
      BY <2>4 DEF Start, Started, Tells
    <3>3. \A v \in VMs \ {g} : pending'[v] = pending[v]
      BY <1>0, <2>4, <3>1, ScheduleEffect DEF Start
    <3> QED
      BY <1>0, <2>2, <3>1, <3>2, <3>3
  <2> QED
    BY <1>1, <2>1, <2>3, <2>4 DEF SyncGuest
<1>2. ASSUME NEW ok \in BOOLEAN, EventLook(ok) PROVE Goal
  <2>1. looking \in VMs /\ pending[looking] = NoLook /\ LookAt(pending, looking, NoLook, ok)
        /\ due = {} /\ due' = due
    BY <1>0, <1>2 DEF EventLook, IInv, LookIsFresh
  <2>2. \A v \in VMs : Tells(v) => v = looking
    BY <1>0, <2>1, LookOfOne
  <2> QED
    BY <2>1, <2>2
<1>3. ASSUME NEW ok \in BOOLEAN, NEW g \in VMs, RetryLook(g, ok) PROVE Goal
  <2> DEFINE left == [pending EXCEPT ![g] = NoLook]
  <2>1. /\ LookAt(left, g, pending[g], ok) /\ g \in due /\ due' = due \ {g}
        /\ pc' = IF due = {g} THEN "select" ELSE "retry"
    BY <1>3 DEF RetryLook
  <2>2. left \in [VMs -> Look] /\ pending[g] \in Look /\ \A v \in VMs \ {g} : left[v] = pending[v]
    BY <1>0
  <2> HIDE DEF left
  <2>3. /\ \A v \in VMs : Tells(v) => v = g
        /\ \A v \in VMs \ {g} : pending'[v] = left[v]
    BY <2>1, <2>2, LookOfOne
  <2> QED
    BY <1>0, <2>1, <2>2, <2>3
<1>4. ASSUME call'.fn # "VMStarted", pending' = pending, due' = due, due = {} \/ pc' = "list"
      PROVE  Goal
  BY <1>4 DEF Tells
<1>5. CASE FirstSync \/ Tick \/ WatcherError
  BY <1>4, <1>5 DEF FirstSync, Tick, WatcherError, StartSync, BeginSync, NoCall
<1>6. CASE Return \/ OtherFileEvent
  BY <1>0, <1>4, <1>6 DEF Return, OtherFileEvent, TakeEvent, NoCall
<1>7. CASE ListGuest \/ SyncFailed \/ SyncRunning \/ SyncEnd
  BY <1>0, <1>7 DEF ListGuest, SyncFailed, SyncRunning, SyncEnd, AfterSync, NoCall, RunningCall,
                    Tells
<1>8. CASE RemoveEvent \/ ChangeEvent
  BY <1>0, <1>8 DEF RemoveEvent, ChangeEvent, TakeEvent, NoCall, Stopped, Tells
<1>9. CASE Node
  <2>1. call' = NoCall /\ UNCHANGED <<pc, pending, due>>
    BY <1>9 DEF Node, OtherFile, Remount, CreatePidFile, CleanUp, Launch, WritePid, Exit,
                Configure, Killed, NodeStep
  <2> QED
    BY <1>0, <2>1 DEF NoCall, Tells
<1>10. CASE Done
  <2>1. call' = NoCall /\ UNCHANGED <<pc, pending, due>>
    BY <1>10 DEF Done, DoneQuiet, vars, loopVars
  <2> QED
    BY <1>0, <2>1 DEF NoCall, Tells
<1>11. ASSUME NEW ok \in BOOLEAN, Step(ok) PROVE Goal
  BY <1>1, <1>2, <1>3, <1>11 DEF Step
<1> QED
  BY <1>5, <1>6, <1>7, <1>8, <1>9, <1>10, <1>11 DEF Body

LEMMA LooksKept ==
    ASSUME Record, NEW v \in VMs, pending'[v] = pending[v], pending[v] # NoLook
    PROVE  dueAt'[v] = dueAt[v]
BY DEF Record, ScheduleLooks

LEMMA DueIsDueNext ==
    ASSUME TInv, DueIsDue, [TNext]_tVars
    PROVE  DueIsDue'
<1>0. /\ IInv /\ DoneQuiet /\ now \in Int /\ due \subseteq VMs
      /\ \A v \in due : pending[v] # NoLook /\ dueAt[v] <= now /\ dueAt[v] \in Int
  BY DEF TInv, Times, DueIsDue, IInv, TypeOK, LoopTypeOK
<1>1. CASE TimerFires
  <2>1. RetryDue /\ Record /\ due' = {v \in VMs : IsDue(v)} /\ pending' = pending /\ now' = now
    BY <1>1 DEF TimerFires, RetryDue, BeginSync, Record
  <2>2. pc' \notin {"init", "select", "look", "done"}
    BY <2>1 DEF RetryDue, BeginSync
  <2> QED
    BY <2>1, <2>2, LooksKept DEF DueIsDue, IsDue
<1>2. CASE Body /\ Record
  BY <1>0, <1>2, DueSteps, LooksKept DEF DueIsDue, Record
<1>3. CASE IdleWake
  BY <1>0, <1>3, LooksKept DEF IdleWake, DueIsDue, Record
<1>4. CASE Pass
  BY <1>0, <1>4 DEF Pass, DueIsDue
<1>5. CASE Node /\ UNCHANGED timeVars
  <2>1. UNCHANGED <<pc, pending, due>>
    BY <1>5 DEF Node, OtherFile, Remount, CreatePidFile, CleanUp, Launch, WritePid, Exit,
                Configure, Killed, NodeStep
  <2> QED
    BY <1>0, <1>5, <2>1 DEF DueIsDue, timeVars
<1>6. CASE UNCHANGED vars /\ UNCHANGED timeVars
  BY <1>6 DEF DueIsDue, vars, loopVars, timeVars
<1> QED
  BY <1>1, <1>2, <1>3, <1>4, <1>5, <1>6 DEF TNext, Done, tVars

(***************************************************************************)
(* What Remember keeps of guest v, after each kind of step.                *)
(***************************************************************************)
Refusal  == [pid : Pids \cup {0}, times : Nat, at : Int]
Kept(v)  == refusal'[v] \in Refusal /\ (refusal'[v].pid # 0 => RefusalOf(v)')

LEMMA QuietKeepsRefusal ==
    ASSUME RefusalsPend, Remember, NEW v \in VMs, ~Tells(v), opts' = opts,
           \/ pending'[v] = pending[v] /\ (pending[v] # NoLook => dueAt'[v] = dueAt[v])
           \/ Dropped(v)
    PROVE  Kept(v)
<1>0. /\ refusal[v] \in Refusal /\ NoRefusal \in Refusal /\ NoRefusal.pid = 0
      /\ refusal[v].pid # 0 => RefusalOf(v)
  BY DEF RefusalsPend, Refusal, NoRefusal
<1>1. refusal'[v] = IF call' = Stopped(v) \/ (refusal[v].pid # 0 /\ Status(v)' # refusal[v].pid)
                    THEN NoRefusal ELSE refusal[v]
  BY DEF Remember, Tells
<1>2. ASSUME refusal'[v].pid # 0 PROVE RefusalOf(v)'
  <2>1. /\ refusal'[v] = refusal[v] /\ Status(v)' = refusal[v].pid /\ call' # Stopped(v)
        /\ refusal[v].pid # 0
    BY <1>0, <1>1, <1>2
  <2>2. RefusalOf(v) /\ pending[v].pid # 0 /\ RunsAs(v, pending[v].pid)
    BY <1>0, <2>1 DEF RefusalOf
  <2>3. pending'[v] = pending[v] /\ dueAt'[v] = dueAt[v]
    BY <2>1, <2>2 DEF Dropped, NoLook
  <2> QED
    BY <2>1, <2>2, <2>3 DEF RefusalOf, RunsAs
<1> QED
  BY <1>0, <1>1, <1>2 DEF Kept

LEMMA ToldKeepsRefusal ==
    ASSUME TInv, Counted', RefusalsPend, Remember, Record, NEW v \in VMs, Told(v)
    PROVE  Kept(v)
<1>0. /\ refusal[v] \in Refusal /\ NoRefusal \in Refusal /\ NoRefusal.pid = 0
      /\ refusal[v].pid # 0 => RefusalOf(v)
      /\ pending[v] \in Look /\ now \in Int
  BY DEF RefusalsPend, Refusal, NoRefusal, TInv, Times, IInv, TypeOK, LoopTypeOK
<1>1. PICK p \in Pids, ok \in BOOLEAN, left \in [VMs -> Look] : ToldAs(v, p, ok, left)
  BY DEF Told
<1>2. call'.fn = "VMStarted" /\ call'.vm = v /\ call'.ok = ok /\ call'.pid = p /\ p # 0
  BY <1>1, PidsAssumption DEF ToldAs, Started
<1> DEFINE times == IF refusal[v].pid = p THEN refusal[v].times + 1 ELSE 1
           held == [pid |-> p, at |-> now, times |-> times]
<1>3. CASE ok \/ pending'[v] = NoLook \/ call' = Stopped(v) \/ Status(v)' # p
  <2>1. refusal'[v] = NoRefusal
    BY <1>2, <1>3 DEF Remember
  <2> QED
    BY <1>0, <2>1 DEF Kept
<1>4. CASE ~(ok \/ pending'[v] = NoLook \/ call' = Stopped(v) \/ Status(v)' # p)
  <2>1. refusal'[v] = held
    BY <1>2, <1>4 DEF Remember
  <2>2. times \in Nat \ {0} /\ held \in Refusal
    BY <1>0 DEF Refusal
  <2> DEFINE n == IF pending[v].pid = p THEN pending[v].attempts ELSE 0
  <2>3. n \in Nat
    BY <1>0, RetriesAssumption DEF Look
  <2>4. pending'[v] = [pid |-> p, attempts |-> n + 1]
    <3>1. pending' = Schedule(left, v, p, pending[v]) /\ left[v] = NoLook
      BY <1>1, <1>4 DEF ToldAs
    <3>2. ~(n >= MaxRetries)
      BY <1>4, <3>1 DEF Schedule
    <3>3. pending' = [left EXCEPT ![v] = [pid |-> p, attempts |-> n + 1]]
      BY <3>1, <3>2 DEF Schedule
    <3> HIDE DEF n
    <3> QED
      BY <3>3
  <2>5. times <= n + 1
    <3>1. CASE refusal[v].pid = p
      BY <1>0, <1>2, <2>3, <3>1 DEF RefusalOf
    <3>2. CASE refusal[v].pid # p
      BY <2>3, <3>2
    <3> QED
      BY <3>1, <3>2
  <2>6. pending'[v] # pending[v]
    <3>1. ASSUME pending'[v] = pending[v] PROVE FALSE
      <4>1. pending[v].pid = p /\ pending[v].attempts = n + 1
        BY <2>4, <3>1
      <4>2. n = n + 1
        BY <4>1
      <4> HIDE DEF n
      <4> QED
        BY <2>3, <4>2
    <3> QED
      BY <3>1
  <2>7. dueAt'[v] = now + Delay(opts, pending'[v].attempts - 1) /\ opts' = opts
    BY <1>4, <2>6 DEF Record, ScheduleLooks
  <2> HIDE DEF n, times
  <2>8. /\ refusal'[v].pid = p /\ refusal'[v].at = now /\ refusal'[v].times = times
        /\ pending'[v].pid = p /\ pending'[v].attempts = n + 1
    BY <2>1, <2>4
  <2>9. times \in 1 .. n + 1
    BY <2>2, <2>3, <2>5
  <2>10. RefusalOf(v)'
    BY <1>4, <2>7, <2>8, <2>9 DEF RefusalOf, RunsAs
  <2> QED
    BY <2>1, <2>2, <2>10 DEF Kept
<1> QED
  BY <1>3, <1>4

LEMMA RefusalsPendNext ==
    ASSUME TInv, TInv', RefusalsPend, [TNext]_tVars
    PROVE  RefusalsPend'
<1>0. IInv /\ DoneQuiet /\ Counted'
  BY DEF TInv
<1>1. ASSUME TNext, \A v \in VMs : Kept(v) PROVE RefusalsPend'
  <2>1. refusal' \in [VMs -> Refusal]
    BY <1>1 DEF TNext, Remember, Kept
  <2> QED
    BY <1>1, <2>1 DEF RefusalsPend, Refusal, Kept
<1>2. ASSUME TNext, Next, Record PROVE RefusalsPend'
  <2>1. ASSUME NEW v \in VMs PROVE Kept(v)
    <3>1. StepOf(v) /\ Remember /\ opts' = opts
      BY <1>0, <1>2, StepKinds DEF TNext, Record
    <3>2. CASE Told(v)
      BY <1>0, <1>2, <3>1, <3>2, ToldKeepsRefusal
    <3>3. CASE Untouched(v) \/ Dropped(v)
      BY <1>2, <3>1, <3>3, LooksKept, QuietKeepsRefusal DEF Untouched, Dropped
    <3> QED
      BY <3>1, <3>2, <3>3 DEF StepOf
  <2> QED
    BY <1>1, <1>2, <2>1
<1>3. ASSUME TNext, call' = NoCall, opts' = opts, pending' = pending,
             Record \/ dueAt' = dueAt
      PROVE  RefusalsPend'
  <2>1. ASSUME NEW v \in VMs PROVE Kept(v)
    <3>1. ~Tells(v) /\ Remember /\ (pending[v] # NoLook => dueAt'[v] = dueAt[v])
      BY <1>3, LooksKept DEF Tells, NoCall, TNext
    <3> QED
      BY <1>3, <3>1, QuietKeepsRefusal
  <2> QED
    BY <1>1, <1>3, <2>1
<1>4. ASSUME TNext PROVE RefusalsPend'
  <2>1. CASE TimerFires \/ (Body /\ Record)
    BY <1>2, <1>4, <2>1 DEF TimerFires, Body, Next, Watching
  <2>2. CASE IdleWake \/ Pass
    BY <1>3, <1>4, <2>2 DEF IdleWake, Pass, Record
  <2>3. CASE Node /\ UNCHANGED timeVars
    <3>1. call' = NoCall /\ pending' = pending
      BY <2>3 DEF Node, OtherFile, Remount, CreatePidFile, CleanUp, Launch, WritePid, Exit,
                  Configure, Killed, NodeStep
    <3> QED
      BY <1>3, <1>4, <2>3, <3>1 DEF timeVars
  <2>4. CASE Done /\ UNCHANGED timeVars
    <3>1. call' = NoCall /\ pending' = pending
      BY <1>0, <2>4 DEF Done, DoneQuiet, vars, loopVars
    <3> QED
      BY <1>3, <1>4, <2>4, <3>1 DEF timeVars
  <2> QED
    BY <1>4, <2>1, <2>2, <2>3, <2>4 DEF TNext
<1>5. CASE UNCHANGED tVars
  BY <1>5 DEF RefusalsPend, RefusalOf, RunsAs, Status, tVars, vars, nodeVars, loopVars, timeVars
<1> QED
  BY <1>4, <1>5

(***************************************************************************)
(* A refused start is not told again before its backoff is over, while its *)
(* process goes on: for any options whose MaxDelay is up to half of what a *)
(* Duration holds, any number of retries, and whatever file events, syncs, *)
(* slow bodies and other guests' retries come between.                     *)
(***************************************************************************)
THEOREM BackoffKept == TSpec => BackoffHolds
<1>1. TInit => BackoffInv
  <2> SUFFICES ASSUME TInit PROVE BackoffInv
    OBVIOUS
  <2>1. refusal = [v \in VMs |-> NoRefusal] /\ due = {}
    BY DEF TInit, Init
  <2> QED
    BY <2>1 DEF BackoffInv, RefusalsPend, DueIsDue, NoRefusal
<1>2. TInv /\ TInv' /\ BackoffInv /\ [TNext]_tVars => BackoffInv'
  BY RefusalsPendNext, DueIsDueNext DEF BackoffInv
<1>3. TSpec => []BackoffInv
  BY <1>1, <1>2, TimedInvariance, PTL DEF TSpec
<1> DEFINE Waits == \A v \in VMs :
              call'.fn = "VMStarted" /\ call'.vm = v /\ call'.pid = refusal[v].pid /\ Fits(opts)
              => now >= refusal[v].at + Backoff(opts, refusal[v].times)
<1>4. ASSUME TInv, BackoffInv, TNext, NEW v \in VMs, Tells(v), call'.pid = refusal[v].pid,
             Fits(opts)
      PROVE  now >= refusal[v].at + Backoff(opts, refusal[v].times)
  <2>0. /\ IInv /\ DoneQuiet /\ DueIsDue /\ now \in Int /\ refusal[v] \in Refusal
        /\ opts.base \in Nat \ {0} /\ opts.max \in Nat \ {0}
    BY <1>4, OptsType DEF TInv, Times, BackoffInv, RefusalsPend, Refusal
  <2>1. ~IdleWake /\ ~Pass /\ ~TimerFires
    BY <1>4 DEF IdleWake, Pass, TimerFires, RetryDue, BeginSync, NoCall, Tells
  <2>2. Body \/ Node \/ Done
    BY <1>4, <2>1 DEF TNext
  <2>3. StepOf(v)
    BY <2>0, <2>2, StepKinds DEF Body, Next, Watching
  <2>4. call'.pid # 0
    BY <1>4, <2>3, PidsAssumption DEF StepOf, Untouched, Dropped, Told, ToldAs, Started
  <2>5. RefusalOf(v) /\ refusal[v].pid # 0
    BY <1>4, <2>4 DEF BackoffInv, RefusalsPend
  <2>6. v \in due
    BY <1>4, <2>0, <2>2, <2>5, DueSteps DEF RefusalOf, NoLook
  <2>7. dueAt[v] <= now
    BY <2>0, <2>6 DEF DueIsDue
  <2> DEFINE m == refusal[v].times
             n == pending[v].attempts
  <2>8. /\ m \in Nat \ {0} /\ n \in Nat /\ m <= n
        /\ dueAt[v] = refusal[v].at + Delay(opts, n - 1) /\ refusal[v].at \in Int
    <3>1. n \in Nat
      BY <2>0, RetriesAssumption DEF IInv, TypeOK, LoopTypeOK, Look
    <3> QED
      BY <2>0, <2>5, <3>1 DEF RefusalOf, Refusal
  <2> HIDE DEF m, n
  <2>9. Delay(opts, m - 1) <= Delay(opts, n - 1)
    BY <1>4, <2>0, <2>8, DelayGrows
  <2>10. Backoff(opts, m) = Delay(opts, m - 1) /\ Delay(opts, m - 1) \in Int /\ Delay(opts, n - 1) \in Int
    <3>1. m - 1 \in Nat /\ n - 1 \in Nat /\ (m - 1) + 1 = m
      BY <2>8
    <3>2. Delay(opts, m - 1) = Backoff(opts, (m - 1) + 1)
      BY <1>4, <2>0, <3>1, DelayFits
    <3> QED
      BY <2>0, <3>1, <3>2, DelayType
  <2>11. now >= refusal[v].at + Backoff(opts, m)
    BY <2>0, <2>7, <2>8, <2>9, <2>10
  <2> QED
    BY <2>11 DEF m
<1>5. TInv /\ BackoffInv /\ [TNext]_tVars => [Waits]_tVars
  BY <1>4 DEF Tells
<1> QED
  BY <1>3, <1>5, TimedInvariance, PTL DEF TSpec, BackoffHolds
=============================================================================
