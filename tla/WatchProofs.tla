----------------------------- MODULE WatchProofs -----------------------------
(***************************************************************************)
(* Theorems about the watch loop of module Watch, for every set of guests  *)
(* and PIDs, every retry budget and every length of the event queue.       *)
(***************************************************************************)
EXTENDS Watch, SequenceTheorems, WellFoundedInduction, NaturalsInduction, TLAPS

LEMMA LeastNat ==
    ASSUME NEW S, S \subseteq Nat, S # {}
    PROVE  \E n \in S : \A m \in S : n <= m
<1> DEFINE Less == {ss \in Nat \X Nat : ss[1] < ss[2]}
<1>1. Less = OpToRel(<, Nat)
  BY DEF OpToRel
<1>2. IsWellFoundedOn(Less, Nat)
  BY <1>1, NatLessThanWellFounded
<1> HIDE DEF Less
<1>3. \E n \in S : \A m \in S : ~(<<m, n>> \in Less)
  BY <1>2, WFMin, Zenon
<1>4. PICK n \in S : \A m \in S : ~(<<m, n>> \in Less)
  BY <1>3
<1>5. ASSUME NEW m \in S PROVE n <= m
  <2>1. m \in Nat /\ n \in Nat
    OBVIOUS
  <2>2. ~(m < n)
    BY <2>1, <1>4 DEF Less
  <2> QED
    BY <2>1, <2>2
<1> QED
  BY <1>5

(***************************************************************************)
(* A nonempty set of VM ids has a least element, so First is one of them.  *)
(***************************************************************************)
LEMMA FirstIsMember ==
    ASSUME NEW S \in SUBSET VMs, S # {}
    PROVE  First(S) \in S
<1>1. S \subseteq Nat
  BY VMsAssumption
<1> QED
  BY <1>1, LeastNat DEF First

-----------------------------------------------------------------------------
(* What the loop's operators return.                                       *)

(***************************************************************************)
(* The running check gives a PID, or 0.                                    *)
(***************************************************************************)
LEMMA StatusType ==
    ASSUME NEW v
    PROVE  Status(v) \in Pids \cup {0}
BY DEF Status

(***************************************************************************)
(* Schedule changes one guest's entry at most, to a look for the PID it is *)
(* given, within the retry budget.                                         *)
(***************************************************************************)
LEMMA ScheduleEffect ==
    ASSUME NEW left \in [VMs -> Look], NEW v \in VMs, NEW pid \in Pids \cup {0},
           NEW prev \in Look
    PROVE  /\ Schedule(left, v, pid, prev) \in [VMs -> Look]
           /\ Schedule(left, v, pid, prev)[v].pid \in {pid, left[v].pid}
           /\ \A w \in VMs \ {v} : Schedule(left, v, pid, prev)[w] = left[w]
<1> DEFINE n == IF prev.pid = pid THEN prev.attempts ELSE 0
<1>1. n \in 0 .. MaxRetries
  BY RetriesAssumption DEF Look
<1>2. CASE n >= MaxRetries
  BY <1>2 DEF Schedule
<1>3. CASE ~(n >= MaxRetries)
  <2>1. [pid |-> pid, attempts |-> n + 1] \in Look
    BY <1>1, <1>3, RetriesAssumption DEF Look
  <2> HIDE DEF n
  <2>2. Schedule(left, v, pid, prev)
          = [left EXCEPT ![v] = [pid |-> pid, attempts |-> n + 1]]
    BY <1>3 DEF Schedule, n
  <2> QED
    BY <2>1, <2>2
<1> QED
  BY <1>2, <1>3

NoLookType == NoLook \in Look

LEMMA NoLookIsLook == NoLookType
BY RetriesAssumption DEF NoLookType, NoLook, Look

(***************************************************************************)
(* A look at guest v, given pending as its caller leaves it (`left`, with  *)
(* v's entry deleted) and the look prev that it continues, changes at most *)
(* v's entries and leaves v with no retry of a start that was accepted.    *)
(***************************************************************************)
LEMMA StartEffect ==
    ASSUME IInv, NEW left \in [VMs -> Look], NEW v \in VMs, NEW pid \in Pids,
           NEW prev \in Look, NEW ok \in BOOLEAN,
           left[v] = NoLook, reported[v] # pid,
           \A w \in VMs \ {v} : left[w] = pending[w],
           Start(left, v, pid, prev, ok)
    PROVE  /\ call' \in Call
           /\ reported' \in [VMs -> Pids \cup {0}]
           /\ pending' \in [VMs -> Look]
           /\ RetryNotReported'
<1>1. call' \in Call
  BY DEF Start, Started, Call
<1>2. reported' \in [VMs -> Pids \cup {0}]
  BY DEF Start, IInv, TypeOK, LoopTypeOK
<1>3. pending' \in [VMs -> Look]
  BY ScheduleEffect DEF Start
<1>4. ASSUME NEW w \in VMs, pending'[w].pid # 0
      PROVE  reported'[w] # pending'[w].pid
  <2>1. CASE w # v
    <3>1. pending'[w] = left[w]
      BY <2>1, ScheduleEffect DEF Start
    <3>2. reported'[w] = reported[w]
      BY <2>1 DEF Start, IInv, TypeOK, LoopTypeOK
    <3> QED
      BY <1>4, <2>1, <3>1, <3>2 DEF IInv, RetryNotReported
  <2>2. CASE w = v /\ ok
    BY <1>4, <2>2 DEF Start, NoLook
  <2>3. CASE w = v /\ ~ok
    <3>1. pending'[v].pid \in {pid, 0} /\ reported'[v] = reported[v]
      BY <2>3, ScheduleEffect DEF Start, NoLook
    <3> QED
      BY <1>4, <2>3, <3>1
  <2> QED
    BY <2>1, <2>2, <2>3
<1> QED
  BY <1>1, <1>2, <1>3, <1>4 DEF RetryNotReported

LEMMA LookEffect ==
    ASSUME IInv, NEW left \in [VMs -> Look], NEW v \in VMs, NEW prev \in Look,
           NEW ok \in BOOLEAN,
           left[v] = NoLook, prev = NoLook \/ prev = pending[v],
           \A w \in VMs \ {v} : left[w] = pending[w],
           LookAt(left, v, prev, ok)
    PROVE  /\ call' \in Call
           /\ reported' \in [VMs -> Pids \cup {0}]
           /\ pending' \in [VMs -> Look]
           /\ RetryNotReported'
<1>1. prev.pid \in Pids \cup {0}
  BY DEF Look
<1>2. ASSUME NEW looks \in [VMs -> Look], Silent(looks), looks[v].pid = 0,
             \A w \in VMs \ {v} : looks[w] = pending[w]
      PROVE  /\ call' \in Call
             /\ reported' \in [VMs -> Pids \cup {0}]
             /\ pending' \in [VMs -> Look]
             /\ RetryNotReported'
  <2>1. call' \in Call
    BY <1>2 DEF Silent, NoCall, Call
  <2>2. RetryNotReported'
    BY <1>2 DEF Silent, IInv, RetryNotReported
  <2> QED
    BY <1>2, <2>1, <2>2 DEF Silent, IInv, TypeOK, LoopTypeOK
<1>3. CASE RetryStart(left, v, prev, ok)
  <2>1. CASE Silent(left)
    BY <1>2, <2>1 DEF NoLook
  <2>2. CASE Start(left, v, prev.pid, prev, ok)
    <3>1. prev.pid # 0 /\ prev = pending[v]
      BY <1>3 DEF RetryStart, NoLook
    <3>2. prev.pid \in Pids /\ reported[v] # prev.pid
      BY <1>1, <3>1 DEF IInv, RetryNotReported
    <3> QED
      BY <2>2, <3>2, StartEffect
  <2> QED
    BY <1>3, <2>1, <2>2 DEF RetryStart
<1>4. CASE LookForStart(left, v, prev, ok)
  <2>1. CASE Silent(Schedule(left, v, 0, prev))
    <3> DEFINE looks == Schedule(left, v, 0, prev)
    <3>1. looks \in [VMs -> Look] /\ looks[v].pid \in {0, left[v].pid}
      BY ScheduleEffect
    <3>2. \A w \in VMs \ {v} : looks[w] = left[w]
      BY ScheduleEffect
    <3>3. left[v].pid = 0
      BY DEF NoLook
    <3>4. Silent(looks)
      BY <2>1
    <3> HIDE DEF looks
    <3> QED
      BY <1>2, <3>1, <3>2, <3>3, <3>4
  <2>2. CASE Silent(left)
    BY <1>2, <2>2 DEF NoLook
  <2>3. CASE Status(v) \notin {0, reported[v]} /\ Start(left, v, Status(v), prev, ok)
    <3>1. Status(v) \in Pids /\ reported[v] # Status(v)
      BY <2>3, StatusType
    <3> QED
      BY <2>3, <3>1, StartEffect
  <2> QED
    BY <1>4, <2>1, <2>2, <2>3 DEF LookForStart
<1> QED
  BY <1>3, <1>4 DEF LookAt

-----------------------------------------------------------------------------
(* The invariant is inductive.                                             *)

LEMMA InitIInv == Init => IInv
<1> SUFFICES ASSUME Init PROVE IInv
  OBVIOUS
<1>1. TypeOK
  <2>1. pending \in [VMs -> Look]
    BY NoLookIsLook DEF Init, NoLookType
  <2>2. call \in Call
    BY DEF Init, NoCall, Call
  <2>3. syncAttempts \in 0 .. MaxRetries /\ nodeSteps \in 0 .. MaxNodeSteps
    BY RetriesAssumption, BoundsAssumption DEF Init, NodeInit
  <2>4. /\ pidFile \in [VMs -> Pids \cup {Blank, NoFile}]
        /\ proc \in [Pids -> VMs \cup {NoVM}]
        /\ used \in SUBSET Pids
        /\ config \in [VMs -> ConfigValues] /\ mounted \in BOOLEAN
    BY DEF Init, NodeInit
  <2>5. events \in Seq(Event)
    BY DEF Init, NodeInit
  <2> QED
    BY <2>1, <2>2, <2>3, <2>4, <2>5 DEF Init, TypeOK, NodeTypeOK, LoopTypeOK
<1>2. RetryNotReported
  BY DEF Init, RetryNotReported, NoLook
<1> QED
  BY <1>1, <1>2 DEF Init, IInv, SyncRetryBound, LookIsFresh, ReportsFound

LEMMA NodeTypeUnchanged ==
    ASSUME IInv, UNCHANGED nodeVars
    PROVE  NodeTypeOK'
BY DEF IInv, TypeOK, NodeTypeOK, nodeVars

LEMMA BeginSyncIInv ==
    ASSUME IInv, NEW n \in 0 .. MaxRetries, BeginSync(n), NodeTypeOK',
           due' \in SUBSET VMs
    PROVE  IInv'
<1>1. LoopTypeOK'
  BY DEF IInv, TypeOK, LoopTypeOK, BeginSync, Directory, NoCall, Call
<1>2. RetryNotReported'
  BY DEF IInv, RetryNotReported, BeginSync
<1> QED
  BY <1>1, <1>2 DEF IInv, TypeOK, SyncRetryBound, LookIsFresh, ReportsFound, BeginSync

(***************************************************************************)
(* The sync's own steps.                                                   *)
(***************************************************************************)
LEMMA SyncIInv ==
    ASSUME IInv,
           \/ ListGuest \/ SyncFailed \/ SyncRunning \/ SyncEnd
           \/ \E ok \in BOOLEAN : SyncGuest(ok)
    PROVE  IInv'
<1>0. NodeTypeOK'
  BY NodeTypeUnchanged DEF ListGuest, SyncFailed, SyncRunning, SyncEnd, SyncGuest
<1> USE DEF IInv, TypeOK
<1>1. CASE ListGuest
  <2>1. LoopTypeOK'
    BY <1>1, StatusType DEF LoopTypeOK, ListGuest, NoCall, Call
  <2>2. RetryNotReported'
    BY <1>1 DEF RetryNotReported, ListGuest
  <2> QED
    BY <1>0, <1>1, <2>1, <2>2 DEF SyncRetryBound, LookIsFresh, ReportsFound, ListGuest
<1>2. CASE SyncFailed
  <2>1. LoopTypeOK'
    BY <1>2 DEF LoopTypeOK, SyncFailed, AfterSync, NoCall, Call
  <2>2. RetryNotReported'
    BY <1>2 DEF RetryNotReported, SyncFailed
  <2> QED
    BY <1>0, <1>2, <2>1, <2>2
       DEF SyncRetryBound, LookIsFresh, ReportsFound, SyncFailed, AfterSync
<1>3. CASE SyncRunning
  <2>1. LoopTypeOK'
    BY <1>3 DEF LoopTypeOK, SyncRunning, RunningCall, Call
  <2>2. RetryNotReported'
    BY <1>3 DEF RetryNotReported, SyncRunning, LoopTypeOK
  <2>3. ReportsFound'
    BY <1>3 DEF ReportsFound, SyncRunning, LoopTypeOK
  <2> QED
    BY <1>0, <1>3, <2>1, <2>2, <2>3 DEF SyncRetryBound, LookIsFresh, SyncRunning
<1>4. CASE SyncEnd
  <2>1. LoopTypeOK'
    BY <1>4 DEF LoopTypeOK, SyncEnd, AfterSync, NoCall, Call
  <2>2. RetryNotReported'
    BY <1>4 DEF RetryNotReported, SyncEnd
  <2> QED
    BY <1>0, <1>4, <2>1, <2>2
       DEF SyncRetryBound, LookIsFresh, ReportsFound, SyncEnd, AfterSync
<1>5. ASSUME NEW ok \in BOOLEAN, SyncGuest(ok) PROVE IInv'
  <2> DEFINE v == First(scan)
  <2>1. v \in scan /\ v \in VMs
    BY <1>5, FirstIsMember DEF SyncGuest, LoopTypeOK
  <2>2. found[v] \in Pids
    BY <1>5, <2>1 DEF SyncGuest, ReportsFound
  <2>3. /\ call' \in Call
        /\ reported' \in [VMs -> Pids \cup {0}]
        /\ pending' \in [VMs -> Look]
        /\ RetryNotReported'
    <3>1. CASE Known(v)
      <4>1. call' = NoCall /\ reported' = reported /\ pending' = pending
        BY <1>5, <3>1 DEF SyncGuest
      <4> QED
        BY <4>1 DEF LoopTypeOK, RetryNotReported, NoCall, Call
    <3>2. CASE ~Known(v) /\ ~synced
      <4>1. reported' = [reported EXCEPT ![v] = found[v]] /\ call' = NoCall
            /\ pending' = pending /\ pending[v] = NoLook
        BY <1>5, <3>2 DEF SyncGuest, Known
      <4> QED
        BY <2>1, <2>2, <4>1 DEF LoopTypeOK, RetryNotReported, NoCall, Call, NoLook
    <3>3. CASE ~Known(v) /\ synced
      <4>1. Start(pending, v, found[v], NoLook, ok)
        BY <1>5, <3>3 DEF SyncGuest
      <4>2. pending[v] = NoLook /\ reported[v] # found[v]
        BY <3>3 DEF Known
      <4>3. pending \in [VMs -> Look] /\ NoLook \in Look
        BY NoLookIsLook DEF NoLookType, LoopTypeOK
      <4> QED
        BY <2>1, <2>2, <4>1, <4>2, <4>3, StartEffect
    <3> QED
      BY <3>1, <3>2, <3>3
  <2>4. LoopTypeOK'
    BY <1>5, <2>3 DEF LoopTypeOK, SyncGuest
  <2> QED
    BY <1>0, <1>5, <2>3, <2>4 DEF SyncRetryBound, LookIsFresh, ReportsFound, SyncGuest
<1> QED
  BY <1>1, <1>2, <1>3, <1>4, <1>5

(***************************************************************************)
(* Looks: retryDue's, and the one that follows a file event.               *)
(***************************************************************************)
LEMMA LookIInv ==
    ASSUME IInv, NEW ok \in BOOLEAN,
           EventLook(ok) \/ \E v \in VMs : RetryLook(v, ok)
    PROVE  IInv'
<1>0. NodeTypeOK'
  BY NodeTypeUnchanged DEF EventLook, RetryLook
<1> USE DEF IInv, TypeOK
<1>1. CASE EventLook(ok)
  <2>1. looking \in VMs /\ pending[looking] = NoLook
    BY <1>1 DEF EventLook, LookIsFresh
  <2>2. LookAt(pending, looking, NoLook, ok)
    BY <1>1 DEF EventLook
  <2>3. pending \in [VMs -> Look] /\ NoLook \in Look
    BY NoLookIsLook DEF NoLookType, LoopTypeOK
  <2>4. /\ call' \in Call
        /\ reported' \in [VMs -> Pids \cup {0}]
        /\ pending' \in [VMs -> Look]
        /\ RetryNotReported'
    BY <2>1, <2>2, <2>3, LookEffect
  <2>5. LoopTypeOK'
    BY <1>1, <2>4 DEF LoopTypeOK, EventLook, syncVars
  <2> QED
    BY <1>0, <1>1, <2>4, <2>5
       DEF SyncRetryBound, LookIsFresh, ReportsFound, EventLook, syncVars
<1>2. ASSUME NEW v \in VMs, RetryLook(v, ok) PROVE IInv'
  <2> DEFINE left == [pending EXCEPT ![v] = NoLook]
  <2>1. /\ left \in [VMs -> Look] /\ left[v] = NoLook
        /\ \A w \in VMs \ {v} : left[w] = pending[w]
        /\ pending[v] \in Look
    BY NoLookIsLook DEF NoLookType, LoopTypeOK
  <2>2. LookAt(left, v, pending[v], ok)
    BY <1>2 DEF RetryLook
  <2> HIDE DEF left
  <2>3. /\ call' \in Call
        /\ reported' \in [VMs -> Pids \cup {0}]
        /\ pending' \in [VMs -> Look]
        /\ RetryNotReported'
    BY <2>1, <2>2, LookEffect
  <2>4. LoopTypeOK'
    BY <1>2, <2>3 DEF LoopTypeOK, RetryLook, syncVars
  <2> QED
    BY <1>0, <1>2, <2>3, <2>4
       DEF SyncRetryBound, LookIsFresh, ReportsFound, RetryLook, syncVars
<1> QED
  BY <1>1, <1>2

(***************************************************************************)
(* The other branches of the select.                                       *)
(***************************************************************************)
LEMMA RetryDueIInv ==
    ASSUME IInv, RetryDue
    PROVE  IInv'
<1>1. NodeTypeOK' /\ due' \in SUBSET VMs
  BY NodeTypeUnchanged DEF RetryDue
<1>2. CASE syncDue /\ BeginSync(syncAttempts + 1)
  <2>1. syncAttempts + 1 \in 0 .. MaxRetries
    BY <1>2, RetriesAssumption DEF IInv, TypeOK, LoopTypeOK, SyncRetryBound
  <2> QED
    BY <1>1, <1>2, <2>1, BeginSyncIInv
<1>3. CASE /\ pc' = "retry" /\ call' = NoCall
           /\ UNCHANGED <<reported, pending, syncVars, looking>>
  <2>1. LoopTypeOK'
    BY <1>1, <1>3 DEF IInv, TypeOK, LoopTypeOK, syncVars, NoCall, Call
  <2> QED
    BY <1>1, <1>3, <2>1
       DEF IInv, TypeOK, RetryNotReported, SyncRetryBound, LookIsFresh, ReportsFound,
           syncVars
<1> QED
  BY <1>2, <1>3 DEF RetryDue

LEMMA StartSyncIInv ==
    ASSUME IInv, StartSync, NodeTypeOK'
    PROVE  IInv'
<1>1. 0 \in 0 .. MaxRetries /\ due' \in SUBSET VMs
  BY RetriesAssumption DEF StartSync, IInv, TypeOK, LoopTypeOK
<1> QED
  BY <1>1, BeginSyncIInv DEF StartSync

LEMMA TakeEventType ==
    ASSUME IInv, TakeEvent
    PROVE  NextEvent \in Event /\ NodeTypeOK'
<1>1. Head(events) \in Event /\ Tail(events) \in Seq(Event)
  BY HeadTailProperties DEF IInv, TypeOK, NodeTypeOK, TakeEvent
<1> QED
  BY <1>1 DEF IInv, TypeOK, NodeTypeOK, TakeEvent, NextEvent

LEMMA EventIInv ==
    ASSUME IInv, WatcherError \/ OtherFileEvent \/ RemoveEvent \/ ChangeEvent
    PROVE  IInv'
<1>0. NextEvent \in Event /\ NodeTypeOK'
  BY TakeEventType DEF WatcherError, OtherFileEvent, RemoveEvent, ChangeEvent
<1>1. NextEvent.vm \in VMs \cup {NoVM}
  BY <1>0 DEF Event, Overflow
<1> DEFINE v == NextEvent.vm
<1> USE DEF IInv, TypeOK
<1>2. CASE WatcherError
  BY <1>0, <1>2, StartSyncIInv DEF WatcherError
<1>3. CASE OtherFileEvent
  <2>1. LoopTypeOK'
    BY <1>3 DEF LoopTypeOK, OtherFileEvent, syncVars, NoCall, Call
  <2> QED
    BY <1>0, <1>3, <2>1
       DEF OtherFileEvent, RetryNotReported, SyncRetryBound, LookIsFresh, ReportsFound,
           syncVars
<1>4. CASE RemoveEvent
  <2>1. /\ reported' = [reported EXCEPT ![v] = 0]
        /\ pending' = [pending EXCEPT ![v] = NoLook]
        /\ call' = Stopped(v) /\ v \in VMs /\ pc = "select"
        /\ UNCHANGED <<pc, syncVars, due, looking>>
    BY <1>1, <1>4 DEF RemoveEvent, TakeEvent
  <2>2. call' \in Call
    BY <2>1 DEF Stopped, Call
  <2>3. pending' \in [VMs -> Look]
    BY <2>1, NoLookIsLook DEF NoLookType, LoopTypeOK
  <2>4. LoopTypeOK'
    BY <2>1, <2>2, <2>3 DEF LoopTypeOK, syncVars
  <2>5. RetryNotReported'
    BY <2>1 DEF RetryNotReported, LoopTypeOK, NoLook
  <2> QED
    BY <1>0, <2>1, <2>4, <2>5
       DEF SyncRetryBound, LookIsFresh, ReportsFound, syncVars
<1>5. CASE ChangeEvent
  <2>1. v \in VMs /\ pc = "select" /\ call' = NoCall
        /\ UNCHANGED <<reported, syncVars, due>>
    BY <1>1, <1>5 DEF ChangeEvent, TakeEvent
  <2>2. CASE UNCHANGED <<pc, pending, looking>>
    <3>1. LoopTypeOK'
      BY <2>1, <2>2 DEF LoopTypeOK, syncVars, NoCall, Call
    <3> QED
      BY <1>0, <2>1, <2>2, <3>1
         DEF RetryNotReported, SyncRetryBound, LookIsFresh, ReportsFound, syncVars
  <2>3. CASE /\ pending' = [pending EXCEPT ![v] = NoLook]
             /\ looking' = v /\ pc' = "look"
    <3>1. pending' \in [VMs -> Look] /\ pending'[v] = NoLook
      BY <2>1, <2>3, NoLookIsLook DEF NoLookType, LoopTypeOK
    <3>2. LoopTypeOK'
      BY <2>1, <2>3, <3>1 DEF LoopTypeOK, syncVars, NoCall, Call
    <3>3. RetryNotReported'
      BY <2>1, <2>3 DEF RetryNotReported, LoopTypeOK, NoLook
    <3> QED
      BY <1>0, <2>1, <2>3, <3>1, <3>2, <3>3
         DEF SyncRetryBound, LookIsFresh, ReportsFound, syncVars
  <2> QED
    BY <1>5, <2>2, <2>3 DEF ChangeEvent
<1> QED
  BY <1>2, <1>3, <1>4, <1>5

(***************************************************************************)
(* The node changes nothing the loop owns.                                 *)
(***************************************************************************)
LEMMA EmitType ==
    ASSUME NodeTypeOK, NEW kind \in {"create", "write", "remove"},
           NEW v \in VMs \cup {NoVM}, Emit(kind, v)
    PROVE  events' \in Seq(Event)
<1> DEFINE e == [kind |-> kind, vm |-> v]
<1>1. e \in Event /\ Overflow \in Event
  BY DEF Event
<1>2. Append(events, e) \in Seq(Event) /\ Append(events, Overflow) \in Seq(Event)
  BY <1>1, AppendProperties DEF NodeTypeOK
<1> HIDE DEF e
<1>3. events' = Queued(e)
  BY DEF Emit, e
<1> QED
  BY <1>2, <1>3 DEF Queued, NodeTypeOK

LEMMA NodeIInv ==
    ASSUME IInv, Node
    PROVE  IInv'
<1>1. NodeStep
  BY DEF Node, OtherFile, Remount, CreatePidFile, CleanUp, Launch, WritePid, Exit,
         Configure, Killed
<1>2. nodeSteps' \in 0 .. MaxNodeSteps
  BY <1>1, BoundsAssumption DEF NodeStep, IInv, TypeOK, NodeTypeOK
<1>3. NodeTypeOK'
  <2>0. NodeTypeOK
    BY DEF IInv, TypeOK
  <2>1. CASE OtherFile
    BY <1>2, <2>0, <2>1, EmitType DEF NodeTypeOK, OtherFile
  <2>2. CASE Remount
    BY <1>2, <2>0, <2>2 DEF NodeTypeOK, Remount
  <2>3. ASSUME NEW v \in VMs, CreatePidFile(v) PROVE NodeTypeOK'
    BY <1>2, <2>0, <2>3, EmitType DEF NodeTypeOK, CreatePidFile
  <2>4. ASSUME NEW v \in VMs, CleanUp(v) PROVE NodeTypeOK'
    BY <1>2, <2>0, <2>4, EmitType DEF NodeTypeOK, CleanUp
  <2>5. ASSUME NEW v \in VMs, NEW p \in Pids, Launch(v, p) PROVE NodeTypeOK'
    BY <1>2, <2>0, <2>5 DEF NodeTypeOK, Launch
  <2>6. ASSUME NEW v \in VMs, NEW p \in Pids, WritePid(v, p) PROVE NodeTypeOK'
    BY <1>2, <2>0, <2>6, EmitType DEF NodeTypeOK, WritePid
  <2>7. ASSUME NEW v \in VMs, NEW p \in Pids, Exit(v, p) PROVE NodeTypeOK'
    BY <1>2, <2>0, <2>7, EmitType DEF NodeTypeOK, Exit
  <2>8. ASSUME NEW v \in VMs, NEW c \in ConfigValues, Configure(v, c)
        PROVE  NodeTypeOK'
    BY <1>2, <2>0, <2>8 DEF NodeTypeOK, Configure
  <2>9. ASSUME NEW p \in Pids, Killed(p) PROVE NodeTypeOK'
    BY <1>2, <2>0, <2>9 DEF NodeTypeOK, Killed
  <2> QED
    BY <2>1, <2>2, <2>3, <2>4, <2>5, <2>6, <2>7, <2>8, <2>9 DEF Node
<1>4. LoopTypeOK'
  BY <1>1 DEF NodeStep, IInv, TypeOK, LoopTypeOK, syncVars, NoCall, Call
<1> QED
  BY <1>1, <1>3, <1>4
     DEF NodeStep, IInv, TypeOK, RetryNotReported, SyncRetryBound, LookIsFresh,
         ReportsFound, syncVars

(***************************************************************************)
(* Every step of the loop and of the node preserves the invariant.         *)
(***************************************************************************)
LEMMA NextIInv == IInv /\ [Next]_vars => IInv'
<1> SUFFICES ASSUME IInv, [Next]_vars PROVE IInv'
  OBVIOUS
<1>1. CASE FirstSync \/ Tick
  BY <1>1, StartSyncIInv, NodeTypeUnchanged DEF FirstSync, Tick
<1>2. CASE RetryDue
  BY <1>2, RetryDueIInv
<1>3. CASE Return
  <2>1. NodeTypeOK'
    BY <1>3, NodeTypeUnchanged DEF Return
  <2>2. LoopTypeOK'
    BY <1>3 DEF Return, IInv, TypeOK, LoopTypeOK, syncVars, NoCall, Call
  <2> QED
    BY <1>3, <2>1, <2>2
       DEF Return, IInv, TypeOK, RetryNotReported, SyncRetryBound, LookIsFresh,
           ReportsFound, syncVars
<1>4. CASE ListGuest \/ SyncFailed \/ SyncRunning \/ SyncEnd
  BY <1>4, SyncIInv
<1>5. CASE WatcherError \/ OtherFileEvent \/ RemoveEvent \/ ChangeEvent
  BY <1>5, EventIInv
<1>6. ASSUME NEW ok \in BOOLEAN, Step(ok) PROVE IInv'
  BY <1>6, SyncIInv, LookIInv DEF Step
<1>7. CASE Node
  BY <1>7, NodeIInv
<1>8. CASE UNCHANGED vars
  BY <1>8 DEF vars, nodeVars, loopVars, syncVars, IInv, TypeOK, NodeTypeOK,
     LoopTypeOK, RetryNotReported, SyncRetryBound, LookIsFresh, ReportsFound
<1> QED
  BY <1>1, <1>2, <1>3, <1>4, <1>5, <1>6, <1>7, <1>8 DEF Next, Watching, Done

LEMMA Invariance == Spec => []IInv
BY InitIInv, NextIInv, PTL DEF Spec

(***************************************************************************)
(* The loop's state is always of its types: attempts stay within the       *)
(* budget, and the handler is called with guests and PIDs of the node.     *)
(***************************************************************************)
THEOREM TypeCorrect == Spec => []TypeOK
<1>1. IInv => TypeOK
  BY DEF IInv
<1> QED
  BY <1>1, Invariance, PTL

(***************************************************************************)
(* No retry is ever pending of a start the handler has accepted, so a      *)
(* start that a file event, a sync and a retry all find is accepted once.  *)
(***************************************************************************)
THEOREM NoRetryOfReported == Spec => []RetryNotReported
<1>1. IInv => RetryNotReported
  BY DEF IInv
<1> QED
  BY <1>1, Invariance, PTL

-----------------------------------------------------------------------------
(* What a step does to one guest's pending look.                           *)

Tells(v) == call'.fn = "VMStarted" /\ call'.vm = v

\* The loop is past the point where the body that runs may tell v's start.
Spent(v) ==
    \/ pc = "select"
    \/ pc = "retry" /\ v \notin due
    \/ pc = "report" /\ v \notin scan

Untouched(v) == ~Tells(v) /\ pending'[v] = pending[v]

Dropped(v) ==
    /\ ~Tells(v) /\ pending'[v].pid = 0
    /\ pending[v].pid # 0 /\ RunsAs(v, pending[v].pid) => call' = Stopped(v)

\* A start is told as the retry of what is pending, if anything is; it is not
\* what was reported last, and is what the guest runs as, or ran as for List.
ToldAs(v, p, ok, left) ==
    /\ left[v] = NoLook
    /\ call' = Started(v, p, ok)
    /\ pending' = IF ok THEN left ELSE Schedule(left, v, p, pending[v])
    /\ pending[v].pid \in {0, p}
    /\ reported[v] # p /\ reported' = IF ok THEN [reported EXCEPT ![v] = p] ELSE reported
    /\ p = Status(v) \/ (pc = "report" /\ v \in scan /\ p = found[v])
    /\ ~Spent(v) /\ Spent(v)'

Told(v) == \E p \in Pids, ok \in BOOLEAN, left \in [VMs -> Look] : ToldAs(v, p, ok, left)

StepOf(v) == Untouched(v) \/ Dropped(v) \/ Told(v)

\* After Watch has returned the handler is not called.
DoneQuiet == pc = "done" => call = NoCall

LEMMA StartTold ==
    ASSUME NEW left \in [VMs -> Look], NEW v \in VMs, NEW pid \in Pids,
           NEW ok \in BOOLEAN, pending \in [VMs -> Look],
           left[v] = NoLook, \A w \in VMs \ {v} : left[w] = pending[w],
           Start(left, v, pid, pending[v], ok),
           pending[v].pid \in {0, pid}, reported[v] # pid,
           pid = Status(v) \/ (pc = "report" /\ v \in scan /\ pid = found[v]),
           ~Spent(v), Spent(v)'
    PROVE  \A w \in VMs : StepOf(w)
<1>1. ToldAs(v, pid, ok, left)
  BY DEF ToldAs, Start
<1>2. ASSUME NEW w \in VMs \ {v} PROVE Untouched(w)
  <2>1. call'.vm = v
    BY DEF Start, Started
  <2>2. pending'[w] = left[w]
    BY ScheduleEffect DEF Start
  <2> QED
    BY <2>1, <2>2 DEF Untouched, Tells
<1> QED
  BY <1>1, <1>2 DEF StepOf, Told

(***************************************************************************)
(* A look, retryDue's or a file event's, tells its guest's start or drops  *)
(* its pending look, and touches no other's.                               *)
(***************************************************************************)
LEMMA LookTold ==
    ASSUME IInv, NEW left \in [VMs -> Look], NEW v \in VMs, NEW prev \in Look,
           NEW ok \in BOOLEAN, prev = pending[v], left[v] = NoLook, \A w \in VMs \ {v} : left[w] = pending[w],
           LookAt(left, v, prev, ok), ~Spent(v), Spent(v)'
    PROVE  \A w \in VMs : StepOf(w)
<1>0. pending \in [VMs -> Look] /\ pending[v] \in Look /\ pending[v].pid \in Pids \cup {0}
  BY DEF IInv, TypeOK, LoopTypeOK, Look
<1>1. ASSUME NEW looks, Silent(looks), looks[v].pid = 0,
             \A w \in VMs \ {v} : looks[w] = pending[w],
             pending[v].pid # 0 => ~RunsAs(v, pending[v].pid)
      PROVE  \A w \in VMs : StepOf(w)
  BY <1>1 DEF Silent, StepOf, Untouched, Dropped, Tells, NoCall
<1>2. CASE RetryStart(left, v, prev, ok)
  <2>1. CASE ~RunsAs(v, pending[v].pid) /\ Silent(left)
    BY <1>1, <2>1 DEF NoLook
  <2>2. CASE RunsAs(v, pending[v].pid) /\ Start(left, v, pending[v].pid, pending[v], ok)
    <3>1. /\ pending[v].pid \in Pids /\ reported[v] # pending[v].pid
          /\ pending[v].pid = Status(v)
      BY <1>0, <1>2, <2>2 DEF RetryStart, IInv, RetryNotReported, RunsAs
    <3> QED
      BY <1>0, <2>2, <3>1, StartTold
  <2> QED
    BY <1>2, <2>1, <2>2 DEF RetryStart
<1>3. CASE LookForStart(left, v, prev, ok)
  <2>0. pending[v].pid = 0
    BY <1>3 DEF LookForStart
  <2>1. CASE Silent(Schedule(left, v, 0, prev))
    <3> DEFINE looks == Schedule(left, v, 0, prev)
    <3>1. looks[v].pid \in {0, left[v].pid}
      BY <1>0, ScheduleEffect
    <3>2. \A w \in VMs \ {v} : looks[w] = left[w]
      BY DEF Schedule
    <3>3. left[v].pid = 0
      BY DEF NoLook
    <3>4. Silent(looks)
      BY <2>1
    <3> HIDE DEF looks
    <3> QED
      BY <1>1, <2>0, <3>1, <3>2, <3>3, <3>4
  <2>2. CASE Silent(left)
    BY <1>1, <2>0, <2>2 DEF NoLook
  <2>3. CASE Status(v) \notin {0, reported[v]} /\ Start(left, v, Status(v), pending[v], ok)
    <3>1. Status(v) \in Pids /\ reported[v] # Status(v)
      BY <2>3, StatusType
    <3> QED
      BY <1>0, <2>0, <2>3, <3>1, StartTold
  <2> QED
    BY <1>3, <2>1, <2>2, <2>3 DEF LookForStart
<1> QED
  BY <1>2, <1>3 DEF LookAt

LEMMA QuietTouchesNothing ==
    ASSUME call'.fn # "VMStarted", pending' = pending
    PROVE  \A v \in VMs : StepOf(v)
BY DEF StepOf, Untouched, Tells

(***************************************************************************)
(* Every step, as one guest's pending look sees it.                        *)
(***************************************************************************)
LEMMA StepKinds ==
    ASSUME IInv, DoneQuiet, Next
    PROVE  \A v \in VMs : StepOf(v)
<1>0. pending \in [VMs -> Look] /\ NoLook \in Look
  BY NoLookIsLook DEF NoLookType, IInv, TypeOK, LoopTypeOK
<1>1. ASSUME NEW ok \in BOOLEAN, SyncGuest(ok) PROVE \A v \in VMs : StepOf(v)
  <2>1. PICK g \in VMs : g = First(scan) /\ g \in scan /\ found[g] \in Pids
    BY <1>1, FirstIsMember DEF SyncGuest, IInv, TypeOK, LoopTypeOK, ReportsFound
  <2>2. CASE ~Known(g) /\ synced
    <3>1. /\ Start(pending, g, found[g], pending[g], ok)
          /\ pending[g] = NoLook /\ reported[g] # found[g]
      BY <1>1, <2>1, <2>2 DEF SyncGuest, Known
    <3>2. ~Spent(g) /\ Spent(g)' /\ pc = "report"
      BY <1>1, <2>1 DEF SyncGuest, Spent
    <3>3. pending[g].pid \in {0, found[g]}
      BY <3>1 DEF NoLook
    <3> QED
      BY <1>0, <2>1, <3>1, <3>2, <3>3, StartTold
  <2>3. CASE call' = NoCall /\ pending' = pending
    BY <2>3, QuietTouchesNothing DEF NoCall
  <2> QED
    BY <1>1, <2>1, <2>2, <2>3 DEF SyncGuest
<1>2. ASSUME NEW ok \in BOOLEAN, EventLook(ok) PROVE \A v \in VMs : StepOf(v)
  <2>1. looking \in VMs /\ pending[looking] = NoLook
    BY <1>2 DEF EventLook, IInv, LookIsFresh
  <2>2. LookAt(pending, looking, pending[looking], ok)
    BY <1>2, <2>1 DEF EventLook
  <2>3. ~Spent(looking)
    BY <1>2 DEF EventLook, Spent
  <2>4. ASSUME NEW v PROVE Spent(v)'
    BY <1>2 DEF EventLook, Spent
  <2>5. \A w \in VMs \ {looking} : pending[w] = pending[w]
    OBVIOUS
  <2> QED
    BY <1>0, <2>1, <2>2, <2>3, <2>4, <2>5, LookTold
<1>3. ASSUME NEW ok \in BOOLEAN, NEW v \in VMs, RetryLook(v, ok)
      PROVE  \A w \in VMs : StepOf(w)
  <2> DEFINE left == [pending EXCEPT ![v] = NoLook]
  <2>1. /\ left \in [VMs -> Look] /\ left[v] = NoLook
        /\ \A w \in VMs \ {v} : left[w] = pending[w]
    BY <1>0
  <2>2. LookAt(left, v, pending[v], ok)
    BY <1>3 DEF RetryLook
  <2>3. ~Spent(v) /\ Spent(v)'
    BY <1>3 DEF RetryLook, Spent
  <2> HIDE DEF left
  <2> QED
    BY <1>0, <2>1, <2>2, <2>3, LookTold
<1>4. CASE RemoveEvent
  <2>1. NextEvent.vm \in VMs
    BY <1>4, TakeEventType DEF RemoveEvent, Event, Overflow
  <2>2. /\ pending' = [pending EXCEPT ![NextEvent.vm] = NoLook]
        /\ call' = Stopped(NextEvent.vm)
    BY <1>4 DEF RemoveEvent
  <2> QED
    BY <1>0, <2>1, <2>2 DEF StepOf, Untouched, Dropped, Tells, Stopped, NoLook
<1>5. CASE ChangeEvent
  <2> DEFINE g == NextEvent.vm
  <2>0. call' = NoCall
    BY <1>5 DEF ChangeEvent
  <2>1. CASE KeepsBackoff(g) /\ pending' = pending
    BY <2>0, <2>1, QuietTouchesNothing DEF NoCall
  <2>2. CASE ~KeepsBackoff(g) /\ pending' = [pending EXCEPT ![g] = NoLook]
    BY <1>0, <2>0, <2>2 DEF StepOf, Untouched, Dropped, Tells, NoCall, NoLook, KeepsBackoff
  <2> QED
    BY <1>5, <2>1, <2>2 DEF ChangeEvent
<1>6. CASE FirstSync \/ Tick \/ RetryDue \/ Return \/ WatcherError \/ OtherFileEvent
  <2>1. call' = NoCall /\ pending' = pending
    BY <1>6 DEF FirstSync, Tick, RetryDue, Return, WatcherError, OtherFileEvent,
                StartSync, BeginSync
  <2> QED
    BY <2>1, QuietTouchesNothing DEF NoCall
<1>7. CASE ListGuest \/ SyncFailed \/ SyncRunning \/ SyncEnd
  <2>1. call'.fn # "VMStarted" /\ pending' = pending
    BY <1>7 DEF ListGuest, SyncFailed, SyncRunning, SyncEnd, NoCall, RunningCall
  <2> QED
    BY <2>1, QuietTouchesNothing
<1>8. CASE Node
  <2>1. NodeStep
    BY <1>8 DEF Node, OtherFile, Remount, CreatePidFile, CleanUp, Launch, WritePid,
                Exit, Configure, Killed
  <2> QED
    BY <2>1, QuietTouchesNothing DEF NodeStep, NoCall
<1>9. CASE Done
  <2>1. call' = NoCall /\ pending' = pending
    BY <1>9 DEF Done, DoneQuiet, vars, loopVars
  <2> QED
    BY <2>1, QuietTouchesNothing DEF NoCall
<1> QED
  BY <1>1, <1>2, <1>3, <1>4, <1>5, <1>6, <1>7, <1>8, <1>9 DEF Next, Watching, Step

LEMMA DoneStaysQuiet ==
    ASSUME DoneQuiet, Next
    PROVE  DoneQuiet'
<1>1. CASE Return \/ Node
  BY <1>1 DEF DoneQuiet, Return, Node, OtherFile, Remount, CreatePidFile, CleanUp, Launch,
              WritePid, Exit, Configure, Killed, NodeStep
<1>2. CASE FirstSync \/ Tick \/ RetryDue \/ WatcherError
  BY <1>2 DEF DoneQuiet, FirstSync, Tick, RetryDue, WatcherError, StartSync, BeginSync
<1>3. CASE ListGuest \/ SyncFailed \/ SyncRunning \/ SyncEnd
  BY <1>3 DEF DoneQuiet, ListGuest, SyncFailed, SyncRunning, SyncEnd, AfterSync
<1>4. CASE OtherFileEvent \/ RemoveEvent \/ ChangeEvent
  BY <1>4 DEF DoneQuiet, OtherFileEvent, RemoveEvent, ChangeEvent, TakeEvent
<1>5. ASSUME NEW ok \in BOOLEAN, Step(ok) PROVE DoneQuiet'
  BY <1>5 DEF DoneQuiet, Step, SyncGuest, EventLook, RetryLook
<1>6. CASE Done
  BY <1>6 DEF DoneQuiet, Done, vars, loopVars
<1> QED
  BY <1>1, <1>2, <1>3, <1>4, <1>5, <1>6 DEF Next, Watching

-----------------------------------------------------------------------------
(***************************************************************************)
(* The watch loop implements WatchContract, for every set of guests and    *)
(* PIDs.  The map: what the contract was `last` told is reported, and      *)
(* `listed` is synced.                                                     *)
(***************************************************************************)

USE DEF Contract!CallOf, Contract!Quiet, NoCall, RunningCall, Started, Stopped, NoVM

\* A step that calls nothing and leaves reported alone.
Quietly == call' = NoCall /\ reported' = reported /\ synced' \in {synced, TRUE}

LEMMA QuietStep ==
    ASSUME Quietly
    PROVE  Contract!Next
<1>1. Contract!Pause
  BY DEF Quietly, Contract!Pause
<1> QED
  BY <1>1 DEF Contract!Next

LEMMA StartStep ==
    ASSUME NEW left, NEW v \in VMs, NEW pid \in Pids, NEW prev, NEW ok \in BOOLEAN,
           reported[v] # pid, Start(left, v, pid, prev, ok), synced' = synced
    PROVE  Contract!Next
<1>1. Contract!TellStart(v, pid, ok)
  BY DEF Start, Contract!TellStart
<1> QED
  BY <1>1 DEF Contract!Next

LEMMA LookStep ==
    ASSUME IInv, NEW left, NEW v \in VMs, NEW prev, NEW ok \in BOOLEAN,
           prev = NoLook \/ prev = pending[v],
           LookAt(left, v, prev, ok), synced' = synced
    PROVE  Contract!Next
<1>1. ASSUME NEW looks, Silent(looks) PROVE Contract!Next
  BY <1>1, QuietStep DEF Silent, Quietly
<1>2. CASE RetryStart(left, v, prev, ok)
  <2>1. prev.pid # 0
    BY <1>2 DEF RetryStart
  <2>2. prev = pending[v]
    BY <2>1 DEF NoLook
  <2>3. prev.pid \in Pids /\ reported[v] # prev.pid
    BY <2>1, <2>2 DEF IInv, TypeOK, LoopTypeOK, Look, RetryNotReported
  <2> QED
    BY <1>1, <1>2, <2>3, StartStep DEF RetryStart
<1>3. CASE LookForStart(left, v, prev, ok)
  BY <1>1, <1>3, StatusType, StartStep DEF LookForStart
<1> QED
  BY <1>2, <1>3 DEF LookAt

LEMMA SyncGuestStep ==
    ASSUME IInv, NEW ok \in BOOLEAN, SyncGuest(ok)
    PROVE  Contract!Next
<1> DEFINE v == First(scan)
<1>1. v \in VMs /\ found[v] \in Pids
  BY FirstIsMember DEF SyncGuest, IInv, TypeOK, LoopTypeOK, ReportsFound
<1>2. synced' = synced
  BY DEF SyncGuest
<1>3. CASE Known(v)
  <2>1. Quietly
    BY <1>2, <1>3 DEF SyncGuest, Quietly
  <2> QED
    BY <2>1, QuietStep
<1>4. CASE ~Known(v) /\ ~synced
  <2>1. Contract!Seed(v, found[v])
    BY <1>2, <1>4 DEF SyncGuest, Contract!Seed
  <2> QED
    BY <1>1, <2>1 DEF Contract!Next
<1>5. CASE ~Known(v) /\ synced
  <2>1. Start(pending, v, found[v], NoLook, ok) /\ reported[v] # found[v]
    BY <1>5 DEF SyncGuest, Known
  <2> QED
    BY <1>1, <1>2, <2>1, StartStep
<1> QED
  BY <1>3, <1>4, <1>5

(***************************************************************************)
(* Each step of the loop or the node is a step of the contract, or changes *)
(* nothing the contract speaks of.                                         *)
(***************************************************************************)
LEMMA StepRefines ==
    ASSUME IInv, [Next]_vars
    PROVE  [Contract!Next]_(Contract!vars)
<1>1. CASE FirstSync \/ Tick \/ RetryDue \/ Return \/ WatcherError
  <2>1. Quietly
    BY <1>1 DEF FirstSync, Tick, RetryDue, Return, WatcherError, StartSync, BeginSync,
                Quietly, syncVars
  <2> QED
    BY <2>1, QuietStep
<1>2. CASE ListGuest \/ SyncFailed \/ SyncEnd \/ OtherFileEvent \/ ChangeEvent
  <2>1. Quietly
    BY <1>2 DEF ListGuest, SyncFailed, SyncEnd, OtherFileEvent, ChangeEvent, Quietly,
                syncVars
  <2> QED
    BY <2>1, QuietStep
<1>3. CASE SyncRunning
  <2> DEFINE running == {v \in VMs : found[v] # 0}
  <2>1. Contract!TellRunning(running)
    BY <1>3 DEF SyncRunning, Contract!TellRunning
  <2> QED
    BY <2>1 DEF Contract!Next
<1>4. CASE RemoveEvent
  <2>1. NextEvent.vm \in VMs
    BY <1>4, TakeEventType DEF RemoveEvent, Event, Overflow
  <2>2. Contract!TellStop(NextEvent.vm)
    BY <1>4 DEF RemoveEvent, Contract!TellStop, syncVars
  <2> QED
    BY <2>1, <2>2 DEF Contract!Next
<1>5. ASSUME NEW ok \in BOOLEAN, EventLook(ok) PROVE Contract!Next
  <2>1. looking \in VMs
    BY <1>5 DEF EventLook, IInv, LookIsFresh
  <2> QED
    BY <1>5, <2>1, LookStep DEF EventLook, syncVars
<1>6. ASSUME NEW ok \in BOOLEAN, NEW v \in VMs, RetryLook(v, ok) PROVE Contract!Next
  BY <1>6, LookStep DEF RetryLook, syncVars
<1>7. CASE Node
  <2>1. NodeStep
    BY <1>7 DEF Node, OtherFile, Remount, CreatePidFile, CleanUp, Launch, WritePid,
                Exit, Configure, Killed
  <2> QED
    BY <2>1, QuietStep DEF NodeStep, Quietly, syncVars
<1>8. CASE UNCHANGED vars
  BY <1>8 DEF vars, loopVars, syncVars, Contract!vars
<1> QED
  BY <1>1, <1>2, <1>3, <1>4, <1>5, <1>6, <1>7, <1>8, SyncGuestStep
     DEF Next, Watching, Step, Done

(***************************************************************************)
(* The handler of Watch sees no call that WatchContract forbids.           *)
(***************************************************************************)
THEOREM Refinement == Spec => MeetsContract
<1>1. Init => Contract!Init
  BY DEF Init, Contract!Init
<1>2. IInv /\ [Next]_vars => [Contract!Next]_(Contract!vars)
  BY StepRefines
<1> QED
  BY <1>1, <1>2, Invariance, PTL DEF Spec, MeetsContract, Contract!Spec
=============================================================================
