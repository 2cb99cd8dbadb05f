-------------------------- MODULE WatchHistoryProofs --------------------------
(***************************************************************************)
(* Theorems about WatchHistory: what the watch loop never does, over the   *)
(* history of what it has done.  RetryBudget and RetryKept need nothing    *)
(* but the code; StartedOnce is of a node that uses no PID twice and where *)
(* a guest is left out of List's result only if it does not run.  The last *)
(* ones rest on what List has found of the guests and on the file events   *)
(* that are still queued: VMsRunning's map is complete, and no start is    *)
(* lost.                                                                   *)
(***************************************************************************)
EXTENDS WatchHistory, WatchProofs

-----------------------------------------------------------------------------

(***************************************************************************)
(* What the retries have cost.                                             *)
(***************************************************************************)
Budget ==
    /\ refused \in [VMs -> 0 .. MaxRetries + 1]
    /\ \A v \in VMs :
          /\ pending[v].pid # 0 => pending[v].attempts = refused[v]
          /\ pending[v].pid = 0 => refused[v] = 0 \/ (Spent(v) /\ refused[v] = MaxRetries + 1)

(***************************************************************************)
(* What is so of the node while no PID is used twice: a guest runs as one  *)
(* process, and while the one that List found goes on, its file stays.     *)
(***************************************************************************)
OneProcess == \A p, q \in Pids : proc[p] # NoVM /\ proc[p] = proc[q] => p = q
UsedPids   == \A p \in Pids : proc[p] # NoVM => p \in used
FoundFile  ==
    \A v \in VMs : found[v] # 0 =>
        found[v] \in used /\ (proc[found[v]] = v => pidFile[v] = found[v])
NodeFacts  == mounted /\ OneProcess /\ UsedPids /\ FoundFile

(***************************************************************************)
(* The process that was accepted is the one reported and the one in the    *)
(* pid file, and a sync that is under way has found it or has yet to look. *)
(***************************************************************************)
AckedReported ==
    \A v \in VMs : acked[v] # 0 =>
        reported[v] = acked[v] /\ proc[acked[v]] = v /\ pidFile[v] = acked[v]
Listed(v) ==
    \/ pc = "list" /\ ~skipped /\ v \notin scan
    \/ pc = "report" /\ v \in scan
AckedFound == \A v \in VMs : Listed(v) => acked[v] \in {0, found[v]}

OnceInv ==
    /\ NodeFacts
    /\ acked \in [VMs -> Pids \cup {0}] /\ AckedReported /\ AckedFound

-----------------------------------------------------------------------------
(* What follows of the retries.                                            *)

LEMMA BudgetOfOne ==
    ASSUME IInv, IInv', Budget, HistoryNext, NEW v \in VMs, StepOf(v)
    PROVE  /\ refused'[v] \in 0 .. MaxRetries + 1
           /\ pending'[v].pid # 0 => pending'[v].attempts = refused'[v]
           /\ pending'[v].pid = 0 =>
                 refused'[v] = 0 \/ (Spent(v)' /\ refused'[v] = MaxRetries + 1)
<1>0. /\ pending[v] \in Look /\ refused[v] \in 0 .. MaxRetries + 1
      /\ refused'[v] = IF Refused(v) THEN refused[v] + 1
                       ELSE IF pending'[v].pid = 0 THEN 0 ELSE refused[v]
  BY DEF IInv, TypeOK, LoopTypeOK, Budget, HistoryNext
<1>1. CASE Untouched(v) \/ Dropped(v)
  <2>1. ~Refused(v) /\ (pending'[v].pid # 0 => pending'[v] = pending[v])
    BY <1>1 DEF Untouched, Dropped, Tells, Refused
  <2> QED
    BY <1>0, <2>1, RetriesAssumption DEF Budget
<1>2. CASE Told(v)
  <2>1. PICK p \in Pids, ok \in BOOLEAN, left \in [VMs -> Look] : ToldAs(v, p, ok, left)
    BY <1>2 DEF Told
  <2>2. Refused(v) <=> ~ok
    BY <2>1 DEF ToldAs, Refused, Started
  <2>3. CASE ok
    <3>1. pending'[v] = NoLook
      BY <2>1, <2>3 DEF ToldAs
    <3> QED
      BY <1>0, <2>2, <2>3, <3>1, RetriesAssumption DEF NoLook
  <2>4. CASE ~ok
    <3> DEFINE n == IF pending[v].pid = p THEN pending[v].attempts ELSE 0
    <3>1. n = refused[v] /\ n \in 0 .. MaxRetries /\ p # 0
      <4>1. p # 0 /\ ~Spent(v) /\ pending[v].pid \in {0, p}
        BY <2>1, PidsAssumption DEF ToldAs
      <4> QED
        BY <1>0, <4>1, RetriesAssumption DEF Budget, Look
    <3>2. refused'[v] = n + 1 /\ Spent(v)'
      BY <1>0, <2>1, <2>2, <2>4, <3>1 DEF ToldAs
    <3>3. pending' = Schedule(left, v, p, pending[v]) /\ left[v] = NoLook
      BY <2>1, <2>4 DEF ToldAs
    <3>4. CASE n >= MaxRetries
      <4>1. pending'[v].pid = 0
        BY <3>3, <3>4 DEF Schedule, NoLook
      <4> HIDE DEF n
      <4>2. n = MaxRetries
        BY <3>1, <3>4, RetriesAssumption
      <4> QED
        BY <3>2, <4>1, <4>2, RetriesAssumption
    <3>5. CASE ~(n >= MaxRetries)
      <4>1. pending' = [left EXCEPT ![v] = [pid |-> p, attempts |-> n + 1]]
        BY <3>3, <3>5 DEF Schedule
      <4> HIDE DEF n
      <4>2. pending'[v] = [pid |-> p, attempts |-> n + 1]
        BY <4>1
      <4> QED
        BY <3>1, <3>2, <3>5, <4>2, RetriesAssumption
    <3> QED
      BY <3>4, <3>5
  <2> QED
    BY <2>3, <2>4
<1> QED
  BY <1>1, <1>2 DEF StepOf

HistoryInv == IInv /\ DoneQuiet /\ Budget

LEMMA HistoryInvInit == HInit => HistoryInv
<1> SUFFICES ASSUME HInit PROVE HistoryInv
  OBVIOUS
<1>1. Init /\ HistoryInit
  BY DEF HInit
<1>2. IInv /\ DoneQuiet
  BY <1>1, InitIInv DEF Init, DoneQuiet
<1>3. Budget
  BY <1>1, RetriesAssumption DEF Init, HistoryInit, Budget, NoLook
<1> QED
  BY <1>2, <1>3 DEF HistoryInv

LEMMA HistoryInvNext == HistoryInv /\ [HNext]_hVars => HistoryInv'
<1> SUFFICES ASSUME HistoryInv, [HNext]_hVars PROVE HistoryInv'
  OBVIOUS
<1>1. CASE HNext
  <2>1. Next /\ HistoryNext /\ IInv /\ DoneQuiet /\ Budget
    BY <1>1 DEF HNext, HistoryInv
  <2>2. IInv' /\ DoneQuiet'
    BY <2>1, NextIInv, DoneStaysQuiet
  <2>3. \A v \in VMs : StepOf(v)
    BY <2>1, StepKinds
  <2>4. refused' \in [VMs -> 0 .. MaxRetries + 1]
    <3>1. \A v \in VMs : refused'[v] \in 0 .. MaxRetries + 1
      BY <2>1, <2>2, <2>3, BudgetOfOne
    <3> QED
      BY <2>1, <3>1 DEF HistoryNext
  <2>5. Budget'
    BY <2>1, <2>2, <2>3, <2>4, BudgetOfOne DEF Budget
  <2> QED
    BY <2>2, <2>5 DEF HistoryInv
<1>2. CASE UNCHANGED hVars
  <2>1. UNCHANGED vars /\ UNCHANGED refused
    BY <1>2 DEF hVars
  <2>2. IInv'
    BY <2>1, NextIInv DEF HistoryInv
  <2> QED
    BY <2>1, <2>2 DEF HistoryInv, DoneQuiet, Budget, Spent, vars, loopVars, syncVars
<1> QED
  BY <1>1, <1>2

LEMMA HistoryInvariance == HSpec => []HistoryInv
BY HistoryInvInit, HistoryInvNext, PTL DEF HSpec

(***************************************************************************)
(* While a retry is pending, it counts every call that failed since its    *)
(* start was first told, none lost and none counted anew, and the start is *)
(* given up after MaxRetries retries and no sooner: for any MaxRetries,    *)
(* and whatever events, ticks, errors and retries there are.  (A later     *)
(* sync or file event tells a start that was given up anew.)               *)
(***************************************************************************)
THEOREM BudgetKept == HSpec => []RetryBudget
<1>1. HistoryInv => RetryBudget
  <2> SUFFICES ASSUME HistoryInv, NEW v \in VMs
               PROVE  IF pending[v].pid # 0 THEN refused[v] = pending[v].attempts
                      ELSE refused[v] \in {0, MaxRetries + 1}
    BY DEF RetryBudget
  <2> QED
    BY DEF HistoryInv, Budget
<1> QED
  BY <1>1, HistoryInvariance, PTL

(***************************************************************************)
(* The retry of a process that goes on is neither reset nor dropped by     *)
(* file events and syncs.                                                  *)
(***************************************************************************)
THEOREM RetriesKept == HSpec => RetryKept
<1> DEFINE Kept == \A v \in VMs :
              LET p == pending[v].pid
              IN  p # 0 /\ RunsAs(v, p) =>
                     \/ pending'[v] = pending[v]
                     \/ Accepted(v) /\ call'.pid = p
                     \/ Refused(v) /\ call'.pid = p
                     \/ call' = Stopped(v)
<1>1. ASSUME HistoryInv, HNext, NEW v \in VMs,
             pending[v].pid # 0, RunsAs(v, pending[v].pid)
      PROVE  \/ pending'[v] = pending[v]
             \/ Accepted(v) /\ call'.pid = pending[v].pid
             \/ Refused(v) /\ call'.pid = pending[v].pid
             \/ call' = Stopped(v)
  <2>1. StepOf(v)
    BY <1>1, StepKinds DEF HistoryInv, HNext
  <2>2. CASE Untouched(v) \/ Dropped(v)
    BY <1>1, <2>2 DEF Untouched, Dropped
  <2>3. CASE Told(v)
    BY <1>1, <2>3 DEF Told, ToldAs, Started, Accepted, Refused
  <2> QED
    BY <2>1, <2>2, <2>3 DEF StepOf
<1>2. HistoryInv /\ [HNext]_hVars => [Kept]_hVars
  BY <1>1
<1> QED
  BY <1>2, HistoryInvariance, PTL DEF HSpec, RetryKept

-----------------------------------------------------------------------------
(* A process is told once.                                                 *)

\* The node that StartedOnce is of.
PlainNode ==
    ~ReusesPids /\ ~Unmounts /\ ConfigValues \subseteq {"ok", "unreadable"}

LEMMA StartOfAnother ==
    ASSUME reported \in [VMs -> Pids \cup {0}],
           NEW left, NEW w, NEW pid, NEW prev, NEW ok, Start(left, w, pid, prev, ok),
           NEW v \in VMs, ~Tells(v)
    PROVE  reported'[v] = reported[v]
<1>1. w # v
  BY DEF Start, Started, Tells
<1> QED
  BY <1>1 DEF Start

LEMMA LookOfAnother ==
    ASSUME reported \in [VMs -> Pids \cup {0}],
           NEW left, NEW w, NEW prev, NEW ok, LookAt(left, w, prev, ok),
           NEW v \in VMs, ~Tells(v)
    PROVE  reported'[v] = reported[v]
BY StartOfAnother DEF LookAt, RetryStart, LookForStart, Silent

(***************************************************************************)
(* A handler is told of guests only.                                       *)
(***************************************************************************)
LEMMA TellsOfGuest ==
    ASSUME IInv, DoneQuiet, Next, call'.fn = "VMStarted"
    PROVE  call'.vm \in VMs
<1>1. ASSUME NEW left, NEW w \in VMs, NEW prev, NEW ok, LookAt(left, w, prev, ok)
      PROVE  call'.vm \in VMs
  BY <1>1 DEF LookAt, RetryStart, LookForStart, Silent, Start, Started, NoCall
<1>2. ASSUME NEW ok \in BOOLEAN, SyncGuest(ok) PROVE call'.vm \in VMs
  <2>1. First(scan) \in VMs
    BY <1>2, FirstIsMember DEF SyncGuest, IInv, TypeOK, LoopTypeOK
  <2> QED
    BY <1>2, <2>1 DEF SyncGuest, Start, Started, NoCall
<1>3. ASSUME NEW ok \in BOOLEAN, EventLook(ok) PROVE call'.vm \in VMs
  BY <1>1, <1>3 DEF EventLook, IInv, LookIsFresh
<1>4. ASSUME NEW ok \in BOOLEAN, NEW v \in VMs, RetryLook(v, ok) PROVE call'.vm \in VMs
  BY <1>1, <1>4 DEF RetryLook
<1>5. ~(FirstSync \/ Tick \/ RetryDue \/ Return \/ WatcherError)
  BY DEF FirstSync, Tick, RetryDue, Return, WatcherError, StartSync, BeginSync, NoCall
<1>6. ~(ListGuest \/ SyncFailed \/ SyncRunning \/ SyncEnd)
  BY DEF ListGuest, SyncFailed, SyncRunning, SyncEnd, NoCall, RunningCall
<1>7. ~(OtherFileEvent \/ RemoveEvent \/ ChangeEvent)
  BY DEF OtherFileEvent, RemoveEvent, ChangeEvent, NoCall, Stopped
<1>8. ~Node
  BY DEF Node, OtherFile, Remount, CreatePidFile, CleanUp, Launch, WritePid,
         Exit, Configure, Killed, NodeStep, NoCall
<1>9. ~Done
  BY DEF Done, DoneQuiet, vars, loopVars, NoCall
<1> QED
  BY <1>2, <1>3, <1>4, <1>5, <1>6, <1>7, <1>8, <1>9 DEF Next, Watching, Step

(***************************************************************************)
(* The file that names a process that has lived stays while it goes on.    *)
(***************************************************************************)
LEMMA FileStays ==
    ASSUME IInv, PlainNode, NodeFacts, Node,
           NEW v \in VMs, NEW p \in used,
           proc[p] = v => pidFile[v] = p, proc'[p] = v
    PROVE  pidFile'[v] = p
<1>0. /\ pidFile \in [VMs -> Pids \cup {Blank, NoFile}]
      /\ proc \in [Pids -> VMs \cup {NoVM}] /\ p \in Pids
      /\ p # NoFile /\ p # Blank /\ v # NoVM
  BY PidsAssumption, VMsAssumption DEF IInv, TypeOK, NodeTypeOK, NoFile, Blank, NoVM
<1>1. CASE OtherFile \/ Remount \/ (\E w \in VMs, c \in ConfigValues : Configure(w, c))
  BY <1>1 DEF OtherFile, Remount, Configure
<1>2. ASSUME NEW w \in VMs, CreatePidFile(w) \/ CleanUp(w) PROVE pidFile'[v] = p
  BY <1>0, <1>2 DEF CreatePidFile, CleanUp, Alive
<1>3. ASSUME NEW w \in VMs, NEW q \in Pids, Launch(w, q) PROVE pidFile'[v] = p
  <2>1. q # p
    BY <1>3 DEF Launch, PlainNode
  <2> QED
    BY <1>0, <1>3, <2>1 DEF Launch
<1>4. ASSUME NEW w \in VMs, NEW q \in Pids, WritePid(w, q) PROVE pidFile'[v] = p
  BY <1>0, <1>4 DEF WritePid, NodeFacts, OneProcess
<1>5. ASSUME NEW w \in VMs, NEW q \in Pids, Exit(w, q) PROVE pidFile'[v] = p
  BY <1>0, <1>5 DEF Exit
<1>6. ASSUME NEW q \in Pids, Killed(q) PROVE pidFile'[v] = p
  BY <1>0, <1>6 DEF Killed
<1> QED
  BY <1>1, <1>2, <1>3, <1>4, <1>5, <1>6 DEF Node

LEMMA NodeKeeps ==
    ASSUME IInv, PlainNode, NodeFacts, Node
    PROVE  NodeFacts'
<1>0. /\ proc \in [Pids -> VMs \cup {NoVM}] /\ used \subseteq used' /\ found' = found
      /\ found \in [VMs -> Pids \cup {0}]
  BY DEF IInv, TypeOK, NodeTypeOK, LoopTypeOK, Node, OtherFile, Remount, CreatePidFile, CleanUp,
         Launch, WritePid, Exit, Configure, Killed, NodeStep, syncVars
<1>1. mounted'
  BY DEF NodeFacts, PlainNode, Node, OtherFile, Remount, CreatePidFile, CleanUp,
         Launch, WritePid, Exit, Configure, Killed
<1>2. OneProcess' /\ UsedPids'
  <2>1. ASSUME NEW w \in VMs, NEW q \in Pids, Launch(w, q) PROVE OneProcess' /\ UsedPids'
    BY <1>0, <2>1 DEF Launch, Alive, NodeFacts, OneProcess, UsedPids
  <2>2. ASSUME NEW q \in Pids, proc' = [proc EXCEPT ![q] = NoVM], used' = used
        PROVE  OneProcess' /\ UsedPids'
    BY <1>0, <2>2 DEF NodeFacts, OneProcess, UsedPids
  <2>3. CASE proc' = proc /\ used' = used
    BY <2>3 DEF NodeFacts, OneProcess, UsedPids
  <2> QED
    BY <2>1, <2>2, <2>3 DEF Node, OtherFile, Remount, CreatePidFile, CleanUp,
       WritePid, Exit, Configure, Killed
<1>3. FoundFile'
  <2> SUFFICES ASSUME NEW v \in VMs, found[v] # 0
               PROVE  found[v] \in used' /\ (proc'[found[v]] = v => pidFile'[v] = found[v])
    BY <1>0 DEF FoundFile
  <2>1. found[v] \in used /\ (proc[found[v]] = v => pidFile[v] = found[v])
    BY DEF NodeFacts, FoundFile
  <2> QED
    BY <1>0, <2>1, FileStays
<1> QED
  BY <1>1, <1>2, <1>3 DEF NodeFacts

LEMMA LoopKeepsNode ==
    ASSUME IInv, NodeFacts, Watching
    PROVE  NodeFacts' /\ proc' = proc /\ pidFile' = pidFile
<1>0. /\ proc' = proc /\ pidFile' = pidFile /\ used' = used /\ mounted' = mounted
      /\ found \in [VMs -> Pids \cup {0}] /\ 0 \notin Pids
  BY PidsAssumption DEF IInv, TypeOK, LoopTypeOK, Watching, Step, FirstSync, Tick, RetryDue, Return,
         ListGuest, SyncFailed, SyncRunning, SyncEnd, SyncGuest, EventLook, RetryLook,
         WatcherError, OtherFileEvent, RemoveEvent, ChangeEvent, TakeEvent, nodeVars
<1>1. CASE found' = found
  BY <1>0, <1>1 DEF NodeFacts, OneProcess, UsedPids, FoundFile
<1>2. CASE found' = [v \in VMs |-> 0]
  BY <1>0, <1>2 DEF NodeFacts, OneProcess, UsedPids, FoundFile
<1>3. CASE ListGuest
  <2>1. PICK g \in VMs : found' = found \/ found' = [found EXCEPT ![g] = Status(g)]
    <3>1. First(scan) \in VMs
      BY <1>3, FirstIsMember DEF ListGuest, IInv, TypeOK, LoopTypeOK
    <3> QED
      BY <1>3, <3>1 DEF ListGuest
  <2>2. Status(g) # 0 => /\ Status(g) \in used /\ pidFile[g] = Status(g)
    BY VMsAssumption DEF Status, NodeFacts, UsedPids, NoVM
  <2>3. CASE found' = [found EXCEPT ![g] = Status(g)]
    <3>1. ASSUME NEW v \in VMs, found'[v] # 0
          PROVE  found'[v] \in used /\ (proc[found'[v]] = v => pidFile[v] = found'[v])
      BY <1>0, <2>2, <2>3, <3>1 DEF NodeFacts, FoundFile
    <3> QED
      BY <1>0, <3>1 DEF NodeFacts, OneProcess, UsedPids, FoundFile
  <2> QED
    BY <1>1, <2>1, <2>3
<1> QED
  BY <1>1, <1>2, <1>3
     DEF Watching, Step, FirstSync, Tick, RetryDue, Return, StartSync, BeginSync,
         SyncFailed, SyncRunning, SyncEnd, SyncGuest, EventLook, RetryLook, syncVars,
         WatcherError, OtherFileEvent, RemoveEvent, ChangeEvent

(***************************************************************************)
(* The loop does not forget, nor overwrite unasked, the report of a        *)
(* process whose start was accepted, and List finds the ones that go on.   *)
(***************************************************************************)
LoopKept(v) ==
    /\ acked[v] = 0 \/ reported'[v] = reported[v] \/ call' = Stopped(v)
    /\ Listed(v)' => acked[v] \in {0, found'[v]}

LEMMA LoopKeeps ==
    ASSUME IInv, PlainNode, OnceInv, Watching, NEW v \in VMs, ~Tells(v)
    PROVE  LoopKept(v)
<1>0. /\ reported \in [VMs -> Pids \cup {0}] /\ found \in [VMs -> Pids \cup {0}]
      /\ acked \in [VMs -> Pids \cup {0}] /\ scan \subseteq VMs
      /\ config \in [VMs -> ConfigValues] /\ mounted
  BY DEF IInv, TypeOK, LoopTypeOK, NodeTypeOK, OnceInv, NodeFacts
<1>1. ASSUME NEW n, BeginSync(n) PROVE LoopKept(v)
  <2>1. v \in Directory
    BY <1>0 DEF Directory, PlainNode
  <2> QED
    BY <1>0, <1>1, <2>1 DEF BeginSync, LoopKept, Listed
<1>2. CASE ListGuest
  <2>1. PICK g \in VMs : g = First(scan) /\ g \in scan
    BY <1>2, FirstIsMember DEF ListGuest, IInv, TypeOK, LoopTypeOK
  <2>2. acked[g] # 0 => Status(g) = acked[g]
    BY <1>0, <2>1 DEF OnceInv, AckedReported, Status
  <2>3. ReadConfig(g) \in {"ok", "unreadable"}
    BY <1>0, <2>1 DEF ReadConfig, PlainNode
  <2>4. Listed(v)' => acked[v] \in {0, found'[v]}
    BY <1>0, <1>2, <2>1, <2>2, <2>3 DEF ListGuest, Listed, OnceInv, AckedFound
  <2> QED
    BY <1>2, <2>4 DEF ListGuest, LoopKept
<1>3. CASE SyncRunning
  BY <1>0, <1>3 DEF SyncRunning, LoopKept, Listed, OnceInv, AckedFound
<1>4. ASSUME NEW ok \in BOOLEAN, SyncGuest(ok) PROVE LoopKept(v)
  <2>1. PICK g \in VMs : g = First(scan) /\ g \in scan
    BY <1>4, FirstIsMember DEF SyncGuest, IInv, TypeOK, LoopTypeOK
  <2>2. Listed(v)' => acked[v] \in {0, found'[v]}
    BY <1>0, <1>4, <2>1 DEF SyncGuest, Listed, OnceInv, AckedFound
  <2>3. CASE reported' = reported
    BY <2>2, <2>3 DEF LoopKept
  <2>4. CASE ~Known(g) /\ reported' = [reported EXCEPT ![g] = found[g]]
    <3>1. acked[g] = 0
      BY <1>4, <2>1, <2>4 DEF SyncGuest, Listed, OnceInv, AckedFound, AckedReported, Known
    <3> QED
      BY <1>0, <2>2, <2>4, <3>1 DEF LoopKept
  <2>5. CASE Start(pending, g, found[g], NoLook, ok)
    BY <1>0, <2>2, <2>5, StartOfAnother DEF LoopKept
  <2> QED
    BY <1>4, <2>1, <2>3, <2>4, <2>5 DEF SyncGuest
<1>5. ASSUME NEW ok \in BOOLEAN, EventLook(ok) PROVE LoopKept(v)
  <2>1. reported'[v] = reported[v]
    BY <1>0, <1>5, LookOfAnother DEF EventLook
  <2> QED
    BY <1>5, <2>1 DEF EventLook, LoopKept, Listed
<1>6. ASSUME NEW ok \in BOOLEAN, NEW w \in VMs, RetryLook(w, ok) PROVE LoopKept(v)
  <2>1. reported'[v] = reported[v]
    BY <1>0, <1>6, LookOfAnother DEF RetryLook
  <2> QED
    BY <1>6, <2>1 DEF RetryLook, LoopKept, Listed
<1>7. CASE RemoveEvent
  BY <1>0, <1>7 DEF RemoveEvent, TakeEvent, LoopKept, Listed
<1>8. CASE Return \/ SyncFailed \/ SyncEnd \/ OtherFileEvent \/ ChangeEvent
  BY <1>8 DEF Return, SyncFailed, SyncEnd, AfterSync, OtherFileEvent, ChangeEvent, TakeEvent,
              LoopKept, Listed
<1>9. CASE FirstSync \/ Tick \/ WatcherError
  BY <1>1, <1>9 DEF FirstSync, Tick, WatcherError, StartSync
<1>10. CASE RetryDue
  BY <1>1, <1>10 DEF RetryDue, LoopKept, Listed
<1> QED
  BY <1>2, <1>3, <1>4, <1>5, <1>6, <1>7, <1>8, <1>9, <1>10 DEF Watching, Step

LEMMA OnceInvInit ==
    ASSUME HInit
    PROVE  OnceInv
<1>1. NodeFacts
  <2>1. \A p \in Pids : proc[p] # NoVM => proc[p] \in VMs
    BY DEF HInit, Init, NodeInit
  <2> QED
    BY <2>1 DEF HInit, Init, NodeInit, NodeFacts, OneProcess, UsedPids, FoundFile
<1> QED
  BY <1>1 DEF HInit, HistoryInit, Init, OnceInv, AckedReported, AckedFound, Listed

(***************************************************************************)
(* A step of the loop, as the history of one guest sees it.                *)
(***************************************************************************)
LEMMA OnceOfLoop ==
    ASSUME IInv, DoneQuiet, PlainNode, OnceInv, Watching, HistoryNext, NEW v \in VMs
    PROVE  /\ acked'[v] \in Pids \cup {0}
           /\ acked'[v] # 0 => /\ reported'[v] = acked'[v]
                               /\ proc'[acked'[v]] = v /\ pidFile'[v] = acked'[v]
           /\ Listed(v)' => acked'[v] \in {0, found'[v]}
<1>0. /\ acked'[v] = AckedNext(v) /\ acked[v] \in Pids \cup {0} /\ 0 \notin Pids
      /\ acked[v] # 0 => reported[v] = acked[v] /\ proc[acked[v]] = v /\ pidFile[v] = acked[v]
      /\ proc' = proc /\ pidFile' = pidFile
      /\ reported \in [VMs -> Pids \cup {0}]
  BY LoopKeepsNode, PidsAssumption
     DEF HistoryNext, OnceInv, AckedReported, IInv, TypeOK, LoopTypeOK
<1>1. CASE ~Tells(v)
  <2>1. LoopKept(v)
    BY <1>1, LoopKeeps
  <2>2. acked'[v] \in {0, acked[v]} /\ (call' = Stopped(v) => acked'[v] = 0)
    BY <1>0, <1>1 DEF AckedNext, Accepted, Tells
  <2> QED
    BY <1>0, <2>1, <2>2 DEF LoopKept
<1>2. CASE Tells(v)
  <2>1. StepOf(v)
    BY StepKinds DEF Next
  <2>2. PICK p \in Pids, ok \in BOOLEAN, left \in [VMs -> Look] : ToldAs(v, p, ok, left)
    BY <1>2, <2>1 DEF StepOf, Untouched, Dropped, Told, Tells
  <2>3. ~Listed(v)'
    BY <2>2 DEF ToldAs, Spent, Listed
  <2>4. proc[p] = v => pidFile[v] = p
    BY <2>2, PidsAssumption DEF ToldAs, Status, OnceInv, NodeFacts, FoundFile
  <2>5. CASE ok
    BY <1>0, <2>2, <2>3, <2>4, <2>5 DEF ToldAs, Started, AckedNext, Accepted
  <2>6. CASE ~ok
    BY <1>0, <2>2, <2>3, <2>6 DEF ToldAs, Started, Stopped, AckedNext, Accepted
  <2> QED
    BY <2>5, <2>6
<1> QED
  BY <1>1, <1>2

LEMMA OnceOfNode ==
    ASSUME IInv, PlainNode, OnceInv, Node, HistoryNext, NEW v \in VMs
    PROVE  /\ acked'[v] \in Pids \cup {0}
           /\ acked'[v] # 0 => /\ reported'[v] = acked'[v]
                               /\ proc'[acked'[v]] = v /\ pidFile'[v] = acked'[v]
           /\ Listed(v)' => acked'[v] \in {0, found'[v]}
<1>0. /\ acked'[v] = AckedNext(v) /\ acked[v] \in Pids \cup {0}
      /\ acked[v] # 0 => reported[v] = acked[v] /\ proc[acked[v]] = v /\ pidFile[v] = acked[v]
  BY DEF HistoryNext, OnceInv, AckedReported
<1>1. /\ call' = NoCall /\ reported' = reported
      /\ found' = found /\ scan' = scan /\ skipped' = skipped /\ pc' = pc
  BY DEF Node, OtherFile, Remount, CreatePidFile, CleanUp, Launch, WritePid,
         Exit, Configure, Killed, NodeStep, syncVars
<1>2. acked'[v] # 0 => acked'[v] = acked[v] /\ proc'[acked[v]] = v
  BY <1>0, <1>1 DEF AckedNext, Accepted, NoCall, Stopped
<1>3. acked'[v] \in {0, acked[v]}
  BY <1>0, <1>1 DEF AckedNext, Accepted, NoCall, Stopped
<1>4. acked'[v] # 0 => pidFile'[v] = acked[v]
  <2>1. acked[v] # 0 => acked[v] \in used
    BY <1>0, VMsAssumption DEF OnceInv, NodeFacts, UsedPids, NoVM
  <2> QED
    BY <1>0, <1>2, <2>1, FileStays DEF OnceInv
<1> QED
  BY <1>0, <1>1, <1>2, <1>3, <1>4 DEF Listed, OnceInv, AckedFound

LEMMA OnceInvNext ==
    ASSUME PlainNode, HistoryInv, OnceInv, [HNext]_hVars
    PROVE  OnceInv'
<1>1. ASSUME Watching \/ Node, HNext PROVE OnceInv'
  <2>0. IInv /\ DoneQuiet /\ HistoryNext
    BY <1>1 DEF HistoryInv, HNext
  <2>1. NodeFacts'
    BY <1>1, <2>0, LoopKeepsNode, NodeKeeps DEF OnceInv
  <2>2. \A v \in VMs :
           /\ acked'[v] \in Pids \cup {0}
           /\ acked'[v] # 0 => /\ reported'[v] = acked'[v]
                               /\ proc'[acked'[v]] = v /\ pidFile'[v] = acked'[v]
           /\ Listed(v)' => acked'[v] \in {0, found'[v]}
    BY <1>1, <2>0, OnceOfLoop, OnceOfNode
  <2>3. acked' \in [VMs -> Pids \cup {0}]
    BY <2>0, <2>2 DEF HistoryNext
  <2> QED
    BY <2>1, <2>2, <2>3 DEF OnceInv, AckedReported, AckedFound
<1>2. CASE UNCHANGED <<vars, acked>>
  BY <1>2 DEF OnceInv, NodeFacts, OneProcess, UsedPids, FoundFile, AckedReported, AckedFound,
              Listed, vars, nodeVars, loopVars, syncVars
<1>3. ASSUME Done, HNext PROVE UNCHANGED <<vars, acked>>
  <2>1. UNCHANGED vars /\ call' = NoCall /\ HistoryNext
    BY <1>3 DEF Done, DoneQuiet, HistoryInv, HNext, vars, loopVars
  <2>2. \A v \in VMs : acked'[v] = acked[v]
    BY <2>1 DEF HistoryNext, AckedNext, Accepted, NoCall, Stopped, OnceInv, AckedReported,
                vars, nodeVars
  <2>3. acked' = acked
    BY <2>1, <2>2 DEF HistoryNext, OnceInv
  <2> QED
    BY <2>1, <2>3
<1> QED
  BY <1>1, <1>2, <1>3 DEF HNext, Next, hVars

(***************************************************************************)
(* On a node that uses no PID twice, keeps its config dir mounted and has  *)
(* no templates, unparsable or vanished configs, a process is reported as  *)
(* started once: whatever the sync, the file events and the retries find   *)
(* of it and in whatever order, and however often configs are unreadable,  *)
(* its start is not told again before its guest's VMStopped.               *)
(***************************************************************************)
THEOREM ToldOnce ==
    ASSUME PlainNode
    PROVE  HSpec => StartedOnce
<1>1. HInit => OnceInv
  BY OnceInvInit
<1>2. HistoryInv /\ OnceInv /\ [HNext]_hVars => OnceInv'
  BY OnceInvNext
<1>3. HSpec => []OnceInv
  BY <1>1, <1>2, HistoryInvariance, PTL DEF HSpec
<1>4. ASSUME HistoryInv, OnceInv, HNext, call'.fn = "VMStarted"
      PROVE  acked[call'.vm] # call'.pid
  <2>1. PICK v \in VMs : v = call'.vm /\ StepOf(v)
    BY <1>4, TellsOfGuest, StepKinds DEF HistoryInv, HNext, Tells
  <2>2. PICK p \in Pids, ok \in BOOLEAN, left \in [VMs -> Look] : ToldAs(v, p, ok, left)
    BY <1>4, <2>1 DEF StepOf, Untouched, Dropped, Told, Tells
  <2>3. call'.pid = p /\ reported[v] # p /\ p # 0
    BY <1>4, <2>2, PidsAssumption DEF ToldAs, Started
  <2>4. acked[v] # 0 => reported[v] = acked[v]
    BY <1>4 DEF OnceInv, AckedReported
  <2> QED
    BY <2>1, <2>3, <2>4
<1>5. HistoryInv /\ OnceInv /\ [HNext]_hVars
        => [call'.fn = "VMStarted" => acked[call'.vm] # call'.pid]_hVars
  BY <1>4
<1> QED
  BY <1>3, <1>5, HistoryInvariance, PTL DEF HSpec, StartedOnce

-----------------------------------------------------------------------------
(* What List has found.                                                    *)

\* The config dir stays, and List passes over no running guest in silence.
ListsAll == ~Unmounts /\ "unparsable" \notin ConfigValues

ListedAs(v) ==
    /\ config[v] # "unreadable"
    /\ found[v] = IF config[v] \in {"template", "gone"} THEN 0 ELSE Status(v)

SteadyListed ==
    /\ mounted /\ steady \subseteq VMs
    /\ pc = "list" => \A v \in scan : found[v] = 0
    /\ pc = "list" /\ ~skipped => \A v \in steady \ scan : ListedAs(v)

(***************************************************************************)
(* The steps that leave List's result alone, whoever takes them.           *)
(***************************************************************************)
LEMMA LoopReads ==
    ASSUME Watching
    PROVE  /\ UNCHANGED <<config, mounted, pidFile, proc>>
           /\ \A v \in VMs : Status(v)' = Status(v)
<1>1. UNCHANGED <<config, mounted, pidFile, proc>>
  BY DEF Watching, Step, FirstSync, Tick, RetryDue, Return, ListGuest, SyncFailed, SyncRunning,
         SyncEnd, SyncGuest, EventLook, RetryLook, WatcherError, OtherFileEvent, RemoveEvent,
         ChangeEvent, TakeEvent, nodeVars
<1> QED
  BY <1>1 DEF Status

LEMMA SteadyListedNext ==
    ASSUME ListsAll, HistoryInv, SteadyListed, [HNext]_hVars
    PROVE  SteadyListed'
<1>0. /\ found \in [VMs -> Pids \cup {0}] /\ config \in [VMs -> ConfigValues]
      /\ scan \subseteq VMs /\ mounted
      /\ \A v \in VMs : config[v] \in {"ok", "template", "unreadable", "gone"}
  <2>1. config \in [VMs -> ConfigValues]
    BY DEF HistoryInv, IInv, TypeOK, NodeTypeOK
  <2> QED
    BY <2>1, NodeAssumption DEF HistoryInv, IInv, TypeOK, LoopTypeOK, SteadyListed, ListsAll
<1>1. ASSUME HNext, Watching, NEW n, BeginSync(n), pc # "list" PROVE SteadyListed'
  <2>1. UNCHANGED <<config, mounted>>
    BY <1>1, LoopReads
  <2>2. /\ pc' = "list" /\ steady' = VMs /\ scan' = Directory /\ mounted'
        /\ found' = [v \in VMs |-> 0]
    BY <1>0, <1>1, <2>1 DEF BeginSync, HNext, HistoryNext
  <2>3. \A v \in steady' \ scan' : config'[v] = "gone" /\ found'[v] = 0
    BY <2>1, <2>2 DEF Directory
  <2>4. \A v \in scan' : found'[v] = 0
    BY <2>2 DEF Directory
  <2> QED
    BY <2>2, <2>3, <2>4 DEF SteadyListed, ListedAs
<1>2. ASSUME HNext, ListGuest PROVE SteadyListed'
  <2>0. /\ UNCHANGED <<config, mounted>> /\ pc' = pc /\ pc = "list"
        /\ \A v \in VMs : Status(v)' = Status(v)
    BY <1>2, LoopReads DEF Watching, ListGuest
  <2>1. PICK g \in VMs : g = First(scan) /\ g \in scan
    BY <1>0, <1>2, FirstIsMember DEF ListGuest
  <2>2. /\ scan' = scan \ {g} /\ steady' \subseteq steady
        /\ found' = IF config[g] = "ok" THEN [found EXCEPT ![g] = Status(g)] ELSE found
        /\ skipped' = (skipped \/ config[g] = "unreadable")
    BY <1>0, <1>2, <2>0, <2>1 DEF ListGuest, ReadConfig, HNext, HistoryNext
  <2>3. \A v \in scan : found[v] = 0
    BY <2>0 DEF SteadyListed
  <2>4. ASSUME NEW v \in steady' \ scan', ~skipped', v \in VMs PROVE ListedAs(v)'
    <3>1. CASE v = g
      BY <1>0, <2>0, <2>1, <2>2, <2>3, <2>4, <3>1 DEF ListedAs
    <3>2. CASE v # g
      <4>1. ListedAs(v) /\ found'[v] = found[v]
        BY <1>0, <2>0, <2>2, <2>4, <3>2 DEF SteadyListed
      <4> QED
        BY <2>0, <2>4, <4>1 DEF ListedAs
    <3> QED
      BY <3>1, <3>2
  <2>5. steady' \subseteq VMs
    BY <2>2 DEF SteadyListed
  <2> QED
    BY <1>0, <2>0, <2>1, <2>2, <2>3, <2>4, <2>5 DEF SteadyListed
<1>3. ASSUME HNext, Node PROVE SteadyListed'
  <2>1. UNCHANGED <<pc, scan, found, skipped>> /\ mounted'
    BY <1>0, <1>3 DEF Node, OtherFile, Remount, CreatePidFile, CleanUp, Launch, WritePid,
                      Exit, Configure, Killed, NodeStep, syncVars, ListsAll
  <2>2. pc = "list" => \A v \in steady' :
           v \in steady /\ config'[v] = config[v] /\ Status(v)' = Status(v)
    BY <1>3, <2>1 DEF HNext, HistoryNext
  <2>3. steady' \subseteq VMs
    BY <1>3 DEF SteadyListed, HNext, HistoryNext
  <2> QED
    BY <2>1, <2>2, <2>3 DEF SteadyListed, ListedAs
<1>4. ASSUME HNext, Watching, pc' # "list" PROVE SteadyListed'
  <2>1. steady' \subseteq VMs
    BY <1>4 DEF SteadyListed, HNext, HistoryNext
  <2> QED
    BY <1>0, <1>4, <2>1, LoopReads DEF SteadyListed
<1>5. ASSUME UNCHANGED vars, steady' \subseteq steady PROVE SteadyListed'
  BY <1>5 DEF SteadyListed, ListedAs, Status, vars, nodeVars, loopVars, syncVars
<1>6. ASSUME HNext, Watching PROVE SteadyListed'
  BY <1>1, <1>2, <1>4, <1>6
     DEF Watching, Step, FirstSync, Tick, RetryDue, Return, SyncFailed, SyncRunning, SyncEnd,
         SyncGuest, EventLook, RetryLook, WatcherError, OtherFileEvent, RemoveEvent,
         ChangeEvent, TakeEvent, StartSync, AfterSync
<1>7. ASSUME HNext, Done PROVE SteadyListed'
  <2>1. UNCHANGED vars /\ pc' # "list"
    BY <1>7 DEF Done, vars, loopVars
  <2>2. steady' \subseteq VMs
    BY <1>7 DEF SteadyListed, HNext, HistoryNext
  <2> QED
    BY <1>0, <2>1, <2>2 DEF SteadyListed, vars, nodeVars
<1> QED
  BY <1>3, <1>5, <1>6, <1>7 DEF HNext, Next, hVars

(***************************************************************************)
(* While the config dir stays and no config is unparsable, the map that    *)
(* VMsRunning is called with is complete: whatever the node does while     *)
(* List goes from guest to guest, no guest that runs as it did when List   *)
(* began is left out, and none that does not run is put in.                *)
(***************************************************************************)
THEOREM MapComplete ==
    ASSUME ListsAll
    PROVE  HSpec => RunningMapComplete
<1>1. HInit => SteadyListed
  BY DEF HInit, HistoryInit, Init, NodeInit, SteadyListed
<1>2. HistoryInv /\ SteadyListed /\ [HNext]_hVars => SteadyListed'
  BY SteadyListedNext
<1>3. HSpec => []SteadyListed
  BY <1>1, <1>2, HistoryInvariance, PTL DEF HSpec
<1> DEFINE Complete == call'.fn = "VMsRunning" =>
              \A v \in steady :
                 /\ config[v] # "unreadable"
                 /\ found[v] = IF config[v] \in {"template", "gone"} THEN 0 ELSE Status(v)
<1>4. ASSUME HistoryInv, Next, call'.fn = "VMsRunning" PROVE SyncRunning
  <2>1. ~Node /\ ~Done
    BY <1>4 DEF HistoryInv, DoneQuiet, NoCall, Done, vars, loopVars, Node, OtherFile, Remount,
                CreatePidFile, CleanUp, Launch, WritePid, Exit, Configure, Killed, NodeStep
  <2>2. ASSUME NEW ok \in BOOLEAN, Step(ok) PROVE FALSE
    <3>1. ASSUME NEW left, NEW v, NEW pid, NEW prev, Start(left, v, pid, prev, ok) PROVE FALSE
      BY <1>4, <3>1 DEF Start, Started
    <3>2. ASSUME NEW left, NEW v, NEW prev, LookAt(left, v, prev, ok) PROVE FALSE
      BY <1>4, <3>1, <3>2 DEF LookAt, RetryStart, LookForStart, Silent, NoCall
    <3>3. ~SyncGuest(ok)
      BY <1>4, <3>1 DEF SyncGuest, NoCall
    <3> QED
      BY <2>2, <3>2, <3>3 DEF Step, EventLook, RetryLook
  <2>3. ~(FirstSync \/ Tick \/ RetryDue \/ Return \/ WatcherError \/ ListGuest)
    BY <1>4 DEF FirstSync, Tick, RetryDue, Return, WatcherError, ListGuest, StartSync,
                BeginSync, NoCall
  <2>4. ~(SyncFailed \/ SyncEnd \/ OtherFileEvent \/ RemoveEvent \/ ChangeEvent)
    BY <1>4 DEF SyncFailed, SyncEnd, OtherFileEvent, RemoveEvent, ChangeEvent, NoCall, Stopped
  <2> QED
    BY <1>4, <2>1, <2>2, <2>3, <2>4 DEF Next, Watching
<1>5. ASSUME HistoryInv, SteadyListed, HNext PROVE Complete
  BY <1>4, <1>5 DEF HNext, SyncRunning, SteadyListed, ListedAs
<1>6. HistoryInv /\ SteadyListed /\ [HNext]_hVars => [Complete]_hVars
  BY <1>5
<1> QED
  BY <1>3, <1>6, HistoryInvariance, PTL DEF HSpec, RunningMapComplete

-----------------------------------------------------------------------------
(* What is left to report a start.                                         *)

\* The config dir stays, and a guest that runs has a config that can be used or
\* that List cannot read.
PlainConfigs == ~Unmounts /\ ConfigValues \subseteq {"ok", "unreadable"}

CreateOf(v) == [kind |-> "create", vm |-> v]
WriteOf(v)  == [kind |-> "write", vm |-> v]
RemoveOf(v) == [kind |-> "remove", vm |-> v]
Wrote(v)    == \E i \in 1 .. Len(events) : events[i] = WriteOf(v)

\* What the loop has seen of v is still so, or v has stopped, or an event tells
\* that it is not so.
Fresh(v, p) == Status(v) \in {0, p} \/ Wrote(v)

NoneLost == \A i \in 1 .. Len(events) : events[i] # Overflow

\* The pid file that a queued Remove is of is not the one that is there now.
RemovesOld ==
    \A v \in VMs : Status(v) # 0 =>
        \A i \in 1 .. Len(events) : events[i] = RemoveOf(v) =>
            \E j \in i + 1 .. Len(events) : events[j] = WriteOf(v)

PendingFresh == \A v \in VMs : pending[v].pid # 0 => Fresh(v, pending[v].pid)
FoundFresh   == \A v \in VMs : Listed(v) => Fresh(v, found[v])

\* A body under way, or a look or a sync to come, will look at v.
LookLeft(v) ==
    \/ pending[v] # NoLook
    \/ pc = "look" /\ looking = v
    \/ pc = "report" /\ v \in scan
    \/ ~synced /\ pc # "report"
Reported(v)  == Status(v) \in {0, reported[v], gaveUp[v]} \/ Wrote(v)
AllReported  == \A v \in VMs : Reported(v) \/ LookLeft(v)

KeepsInv ==
    /\ mounted /\ gaveUp \in [VMs -> Pids \cup {0}]
    /\ ~lost => NoneLost /\ RemovesOld /\ PendingFresh /\ FoundFresh /\ AllReported

(***************************************************************************)
(* An event that is not lost ends the queue, behind those that waited.     *)
(***************************************************************************)
LEMMA QueuedLast ==
    ASSUME NodeTypeOK, NEW e \in Event, e # Overflow, events' = Queued(e), NoneLost'
    PROVE  /\ Len(events') \in {Len(events), Len(events) + 1} /\ Len(events') \in Nat \ {0}
           /\ events'[Len(events')] = e
           /\ \A i \in 1 .. Len(events) : events'[i] = events[i]
<1>0. /\ events \in Seq(Event) /\ Overflow \in Event /\ Len(events) \in Nat
      /\ events # <<>> => Len(events) # 0
  BY EmptySeq, LenProperties DEF NodeTypeOK, Event
<1>1. ASSUME NEW x \in Event
      PROVE  /\ Len(Append(events, x)) = Len(events) + 1
             /\ Append(events, x)[Len(events) + 1] = x
             /\ \A i \in 1 .. Len(events) : Append(events, x)[i] = events[i]
  BY <1>0, AppendProperties
<1>2. CASE events # <<>> /\ events[Len(events)] = e
  BY <1>0, <1>2 DEF Queued
<1>3. CASE ~(events # <<>> /\ events[Len(events)] = e)
  <2>1. CASE Len(events) < MaxEvents
    <3>1. events' = Append(events, e)
      BY <1>3, <2>1 DEF Queued
    <3> QED
      BY <1>0, <1>1, <3>1
  <2>2. CASE ~(Len(events) < MaxEvents)
    <3>1. CASE \E i \in 1 .. Len(events) : events[i] = Overflow
      BY <1>3, <2>2, <3>1 DEF Queued, NoneLost
    <3>2. CASE ~(\E i \in 1 .. Len(events) : events[i] = Overflow)
      <4>1. events' = Append(events, Overflow)
        BY <1>3, <2>2, <3>2 DEF Queued
      <4>2. Len(events') = Len(events) + 1 /\ events'[Len(events) + 1] = Overflow
        BY <1>0, <1>1, <4>1
      <4>3. Len(events) + 1 \in 1 .. Len(events')
        BY <1>0, <4>2
      <4> QED
        BY <4>2, <4>3 DEF NoneLost
    <3> QED
      BY <3>1, <3>2
  <2> QED
    BY <2>1, <2>2
<1> QED
  BY <1>2, <1>3

(***************************************************************************)
(* What a step of the node leaves: a guest runs as it did, or no longer,   *)
(* or a Write that is still queued tells that it runs as another process.  *)
(***************************************************************************)
NodeSeen ==
    /\ \A v \in VMs : /\ Status(v)' \in {0, Status(v)} \/ Wrote(v)'
                      /\ Wrote(v) => Wrote(v)'
    /\ RemovesOld'

LEMMA EmitSeen ==
    ASSUME NodeTypeOK, RemovesOld, NoneLost',
           NEW kind \in {"create", "write", "remove"}, NEW g \in VMs \cup {NoVM}, Emit(kind, g),
           \A v \in VMs : \/ Status(v)' = 0
                          \/ Status(v)' = Status(v) /\ (kind = "remove" => g # v)
                          \/ kind = "write" /\ g = v
    PROVE  NodeSeen
<1> DEFINE e == [kind |-> kind, vm |-> g]
<1>1. e \in Event /\ e # Overflow /\ events' = Queued(e)
  BY DEF Event, Overflow, Emit
<1>2. /\ \A v \in VMs : e = RemoveOf(v) => kind = "remove" /\ g = v
      /\ \A v \in VMs : kind = "write" /\ g = v => e = WriteOf(v)
      /\ \A v \in VMs : e = WriteOf(v) => e # RemoveOf(v)
  BY DEF RemoveOf, WriteOf
<1> HIDE DEF e
<1>3. /\ Len(events') \in {Len(events), Len(events) + 1} /\ Len(events') \in Nat \ {0}
      /\ events'[Len(events')] = e
      /\ \A i \in 1 .. Len(events) : events'[i] = events[i]
      /\ Len(events) \in Nat
  BY <1>1, QueuedLast, LenProperties DEF NodeTypeOK
<1>4. \A v \in VMs : Wrote(v) => Wrote(v)'
  BY <1>3 DEF Wrote
<1>5. \A v \in VMs : e = WriteOf(v) => Wrote(v)'
  BY <1>3 DEF Wrote
<1>6. ASSUME NEW v \in VMs, Status(v)' # 0, NEW i \in 1 .. Len(events'),
             events'[i] = RemoveOf(v)
      PROVE  \E j \in i + 1 .. Len(events') : events'[j] = WriteOf(v)
  <2>1. CASE e = WriteOf(v)
    <3>1. i # Len(events')
      BY <1>2, <1>3, <1>6, <2>1
    <3>2. Len(events') \in i + 1 .. Len(events')
      BY <1>3, <3>1
    <3> QED
      BY <1>3, <2>1, <3>2
  <2>2. CASE e # WriteOf(v)
    <3>1. Status(v) # 0 /\ e # RemoveOf(v)
      BY <1>2, <1>6, <2>2
    <3>2. i # Len(events')
      BY <1>3, <1>6, <3>1
    <3>3. i \in 1 .. Len(events)
      BY <1>3, <3>2
    <3>4. PICK j \in i + 1 .. Len(events) : events[j] = WriteOf(v)
      BY <1>3, <1>6, <3>1, <3>3 DEF RemovesOld
    <3> QED
      BY <1>3, <3>3, <3>4
  <2> QED
    BY <2>1, <2>2
<1> QED
  BY <1>2, <1>4, <1>5, <1>6 DEF NodeSeen, RemovesOld

LEMMA NodeSees ==
    ASSUME IInv, RemovesOld, Node, NoneLost'
    PROVE  NodeSeen
<1>0. /\ NodeTypeOK
      /\ pidFile \in [VMs -> Pids \cup {Blank, NoFile}] /\ proc \in [Pids -> VMs \cup {NoVM}]
      /\ NoVM \notin VMs /\ Blank \notin Pids /\ NoFile \notin Pids /\ 0 \notin Pids
  BY PidsAssumption, VMsAssumption DEF IInv, TypeOK, NodeTypeOK, NoFile, Blank, NoVM
<1>1. ASSUME events' = events, \A v \in VMs : Status(v)' \in {0, Status(v)} PROVE NodeSeen
  BY <1>1 DEF NodeSeen, Wrote, RemovesOld
<1>2. CASE OtherFile
  <2>1. Emit("create", NoVM) /\ \A v \in VMs : Status(v)' = Status(v)
    BY <1>2 DEF OtherFile, Status
  <2> QED
    BY <1>0, <2>1, EmitSeen
<1>3. CASE Remount
  BY <1>1, <1>3 DEF Remount, Status
<1>4. ASSUME NEW g \in VMs, CreatePidFile(g) PROVE NodeSeen
  <2>1. Emit("create", g) /\ \A v \in VMs : Status(v)' = Status(v)
    BY <1>0, <1>4 DEF CreatePidFile, Status
  <2> QED
    BY <1>0, <2>1, EmitSeen
<1>5. ASSUME NEW g \in VMs, CleanUp(g) PROVE NodeSeen
  <2>1. /\ Emit("remove", g) /\ Status(g)' = 0
        /\ \A v \in VMs \ {g} : Status(v)' = Status(v)
    BY <1>0, <1>5 DEF CleanUp, Status
  <2> QED
    BY <1>0, <2>1, EmitSeen
<1>6. ASSUME NEW g \in VMs, NEW p \in Pids, Launch(g, p) PROVE NodeSeen
  <2>1. events' = events /\ pidFile' = pidFile /\ proc' = [proc EXCEPT ![p] = g]
    BY <1>6 DEF Launch
  <2>2. proc[p] = NoVM /\ pidFile[g] # p
    BY <1>6 DEF Launch
  <2>3. \A v \in VMs : Status(v)' \in {0, Status(v)}
    BY <1>0, <2>1, <2>2 DEF Status
  <2> QED
    BY <1>1, <2>1, <2>3
<1>7. ASSUME NEW g \in VMs, NEW p \in Pids, WritePid(g, p) PROVE NodeSeen
  <2>1. Emit("write", g) /\ \A v \in VMs \ {g} : Status(v)' = Status(v)
    BY <1>0, <1>7 DEF WritePid, Status
  <2> QED
    BY <1>0, <2>1, EmitSeen
<1>8. ASSUME NEW g \in VMs, NEW p \in Pids, Exit(g, p) PROVE NodeSeen
  <2>1. /\ Emit("remove", g) /\ Status(g)' = 0
        /\ \A v \in VMs \ {g} : Status(v)' = Status(v)
    BY <1>0, <1>8 DEF Exit, Status
  <2> QED
    BY <1>0, <2>1, EmitSeen
<1>9. ASSUME NEW g \in VMs, NEW c \in ConfigValues, Configure(g, c) PROVE NodeSeen
  BY <1>1, <1>9 DEF Configure, Status
<1>10. ASSUME NEW p \in Pids, Killed(p) PROVE NodeSeen
  <2>1. events' = events /\ pidFile' = pidFile /\ proc' = [proc EXCEPT ![p] = NoVM]
    BY <1>10 DEF Killed
  <2>2. \A v \in VMs : Status(v)' \in {0, Status(v)}
    BY <1>0, <2>1 DEF Status
  <2> QED
    BY <1>1, <2>1, <2>2
<1> QED
  BY <1>2, <1>3, <1>4, <1>5, <1>6, <1>7, <1>8, <1>9, <1>10 DEF Node

(***************************************************************************)
(* The node's steps keep what the loop has seen fresh, or tell of it.      *)
(***************************************************************************)
LEMMA NodeKeepsAll ==
    ASSUME IInv, KeepsInv, Node, HistoryNext, ~lost, NoneLost'
    PROVE  PendingFresh' /\ FoundFresh' /\ AllReported' /\ RemovesOld'
<1>0. /\ UNCHANGED <<pc, reported, pending, synced, scan, found, skipped, looking>>
      /\ call' = NoCall
  BY DEF Node, OtherFile, Remount, CreatePidFile, CleanUp, Launch, WritePid, Exit, Configure,
         Killed, NodeStep, syncVars
<1>1. gaveUp' = gaveUp
  BY <1>0 DEF HistoryNext, KeepsInv, Refused, Accepted, NoCall, Stopped
<1>2. NodeSeen
  BY NodeSees DEF KeepsInv
<1>3. PendingFresh /\ FoundFresh /\ AllReported
  BY DEF KeepsInv
<1>4. ASSUME NEW v \in VMs, NEW p, Fresh(v, p) PROVE Status(v)' \in {0, p} \/ Wrote(v)'
  BY <1>2, <1>4 DEF NodeSeen, Fresh
<1>5. PendingFresh' /\ FoundFresh'
  BY <1>0, <1>3, <1>4 DEF PendingFresh, FoundFresh, Listed, Fresh
<1>6. AllReported'
  BY <1>0, <1>1, <1>2, <1>3 DEF NodeSeen, AllReported, Reported, LookLeft
<1> QED
  BY <1>2, <1>5, <1>6 DEF NodeSeen

-----------------------------------------------------------------------------
(* What a body leaves of its guest.                                        *)

\* The events and the processes are as they were.
Reads == events' = events /\ \A v \in VMs : Status(v)' = Status(v)

LEMMA ReadsOf ==
    ASSUME Watching, UNCHANGED nodeVars
    PROVE  Reads /\ \A v \in VMs : Wrote(v)' = Wrote(v)
BY LoopReads DEF Reads, Wrote, nodeVars

\* v's start is told, or has a look left, or its retries have run out.
Left(v) == Status(v) \in {0, reported'[v], gaveUp'[v]} \/ Wrote(v) \/ pending'[v] # NoLook

LEMMA StartLeaves ==
    ASSUME IInv, KeepsInv, HistoryNext,
           NEW left \in [VMs -> Look], NEW v \in VMs, NEW pid \in Pids,
           NEW prev \in Look, NEW ok \in BOOLEAN, Start(left, v, pid, prev, ok), Fresh(v, pid)
    PROVE  Left(v)
<1>1. CASE ok
  <2>1. reported'[v] = pid
    BY <1>1 DEF Start, IInv, TypeOK, LoopTypeOK
  <2> QED
    BY <2>1 DEF Left, Fresh
<1>2. CASE ~ok
  <2>1. Refused(v) /\ call'.pid = pid
    BY <1>2 DEF Start, Started, Refused
  <2>2. pending'[v] = NoLook => gaveUp'[v] = pid
    BY <2>1 DEF HistoryNext
  <2> QED
    BY <2>2 DEF Left, Fresh
<1> QED
  BY <1>1, <1>2

LEMMA LookLeaves ==
    ASSUME IInv, KeepsInv, PendingFresh, HistoryNext,
           NEW left \in [VMs -> Look], NEW v \in VMs, NEW prev \in Look, NEW ok \in BOOLEAN,
           prev \in {NoLook, pending[v]}, LookAt(left, v, prev, ok)
    PROVE  Left(v)
<1>1. CASE RetryStart(left, v, prev, ok)
  <2>1. prev.pid # 0 /\ prev = pending[v] /\ prev.pid \in Pids
    BY <1>1 DEF RetryStart, NoLook, Look
  <2>2. Fresh(v, prev.pid)
    BY <2>1 DEF PendingFresh
  <2>3. CASE ~RunsAs(v, prev.pid)
    BY <2>2, <2>3 DEF Fresh, RunsAs, Left
  <2>4. CASE Start(left, v, prev.pid, prev, ok)
    BY <2>1, <2>2, <2>4, StartLeaves
  <2> QED
    BY <1>1, <2>3, <2>4 DEF RetryStart
<1>2. CASE LookForStart(left, v, prev, ok)
  <2>1. CASE Status(v) = 0
    BY <2>1 DEF Left
  <2>2. CASE Status(v) = reported[v] /\ Silent(left)
    BY <2>2 DEF Silent, Left
  <2>3. CASE Status(v) # 0 /\ Start(left, v, Status(v), prev, ok)
    <3>1. Status(v) \in Pids /\ Fresh(v, Status(v))
      BY <2>3, StatusType DEF Fresh
    <3> QED
      BY <2>3, <3>1, StartLeaves
  <2> QED
    BY <1>2, <2>1, <2>2, <2>3 DEF LookForStart
<1> QED
  BY <1>1, <1>2 DEF LookAt

(***************************************************************************)
(* A body that looks at one guest leaves the others as they were.          *)
(***************************************************************************)
Others(v) ==
    \A w \in VMs \ {v} :
        reported'[w] = reported[w] /\ pending'[w] = pending[w] /\ gaveUp'[w] = gaveUp[w]

LEMMA StartOthers ==
    ASSUME IInv, HistoryNext,
           NEW left \in [VMs -> Look], NEW v \in VMs, NEW pid \in Pids,
           NEW prev \in Look, NEW ok \in BOOLEAN, Start(left, v, pid, prev, ok),
           \A w \in VMs \ {v} : left[w] = pending[w]
    PROVE  Others(v)
<1>1. call' = Started(v, pid, ok)
  BY DEF Start
<1>2. ASSUME NEW w \in VMs \ {v} PROVE gaveUp'[w] = gaveUp[w]
  BY <1>1 DEF HistoryNext, Refused, Accepted, Started, Stopped
<1>3. ASSUME NEW w \in VMs \ {v} PROVE pending'[w] = pending[w]
  BY ScheduleEffect DEF Start
<1> QED
  BY <1>2, <1>3 DEF Others, Start, IInv, TypeOK, LoopTypeOK

LEMMA SilentOthers ==
    ASSUME HistoryNext, NEW v \in VMs, call' = NoCall,
           \A w \in VMs \ {v} : reported'[w] = reported[w] /\ pending'[w] = pending[w]
    PROVE  Others(v)
BY DEF HistoryNext, Refused, Accepted, NoCall, Stopped, Others

LEMMA LookOthers ==
    ASSUME IInv, HistoryNext,
           NEW left \in [VMs -> Look], NEW v \in VMs, NEW prev \in Look, NEW ok \in BOOLEAN,
           \A w \in VMs \ {v} : left[w] = pending[w], LookAt(left, v, prev, ok)
    PROVE  Others(v)
<1>1. ASSUME NEW looks, Silent(looks), \A w \in VMs \ {v} : looks[w] = pending[w]
      PROVE  Others(v)
  BY <1>1, SilentOthers DEF Silent
<1>2. \A w \in VMs \ {v} : Schedule(left, v, 0, prev)[w] = pending[w]
  BY ScheduleEffect
<1>3. CASE RetryStart(left, v, prev, ok)
  BY <1>1, <1>3, StartOthers DEF RetryStart, Look
<1>4. CASE LookForStart(left, v, prev, ok)
  BY <1>1, <1>2, <1>4, StartOthers, StatusType DEF LookForStart
<1> QED
  BY <1>3, <1>4 DEF LookAt

(***************************************************************************)
(* What the loop has seen stays fresh while it works through its bodies.   *)
(***************************************************************************)
LEMMA BodiesKeepPending ==
    ASSUME IInv, DoneQuiet, Next, PendingFresh, FoundFresh, Reads,
           \A v \in VMs : Wrote(v)' = Wrote(v)
    PROVE  PendingFresh'
<1> SUFFICES ASSUME NEW v \in VMs, pending'[v].pid # 0
             PROVE  Status(v) \in {0, pending'[v].pid} \/ Wrote(v)
  BY DEF PendingFresh, Fresh, Reads
<1>1. StepOf(v)
  BY StepKinds
<1>2. CASE Untouched(v) \/ Dropped(v)
  BY <1>2 DEF Untouched, Dropped, PendingFresh, Fresh
<1>3. CASE Told(v)
  <2>1. PICK p \in Pids, ok \in BOOLEAN, left \in [VMs -> Look] : ToldAs(v, p, ok, left)
    BY <1>3 DEF Told
  <2>2. Fresh(v, p)
    BY <2>1 DEF ToldAs, Fresh, FoundFresh, Listed
  <2>3. pending[v] \in Look
    BY DEF IInv, TypeOK, LoopTypeOK
  <2>4. pending'[v].pid \in {0, p}
    BY <2>1, <2>3, ScheduleEffect DEF ToldAs, NoLook
  <2> QED
    BY <2>2, <2>4 DEF Fresh
<1> QED
  BY <1>1, <1>2, <1>3 DEF StepOf

LEMMA BodiesKeepFound ==
    ASSUME IInv, PlainConfigs, KeepsInv, Watching, FoundFresh,
           Reads, \A v \in VMs : Wrote(v)' = Wrote(v)
    PROVE  FoundFresh'
<1>0. /\ found \in [VMs -> Pids \cup {0}] /\ scan \subseteq VMs /\ mounted
      /\ \A v \in VMs : config[v] \in {"ok", "unreadable"}
  <2>1. config \in [VMs -> ConfigValues]
    BY DEF IInv, TypeOK, NodeTypeOK
  <2> QED
    BY <2>1 DEF IInv, TypeOK, LoopTypeOK, KeepsInv, PlainConfigs
<1>1. ASSUME \A v \in VMs : Listed(v)' => Listed(v) /\ found'[v] = found[v] PROVE FoundFresh'
  BY <1>1 DEF FoundFresh, Fresh, Reads
<1>2. ASSUME NEW n, BeginSync(n) PROVE FoundFresh'
  <2>1. \A v \in VMs : v \in scan'
    BY <1>0, <1>2 DEF BeginSync, Directory
  <2> QED
    BY <1>2, <2>1 DEF BeginSync, FoundFresh, Listed
<1>3. CASE ListGuest
  <2>1. PICK g \in VMs : g = First(scan) /\ g \in scan
    BY <1>0, <1>3, FirstIsMember DEF ListGuest
  <2>2. /\ scan' = scan \ {g} /\ pc' = "list" /\ pc = "list"
        /\ found' = IF config[g] = "ok" THEN [found EXCEPT ![g] = Status(g)] ELSE found
        /\ skipped' = (skipped \/ config[g] = "unreadable")
    BY <1>0, <1>3, <2>1 DEF ListGuest, ReadConfig
  <2>3. ASSUME NEW v \in VMs, Listed(v)' PROVE Status(v) \in {0, found'[v]} \/ Wrote(v)
    BY <1>0, <2>2, <2>3 DEF Listed, FoundFresh, Fresh
  <2> QED
    BY <2>3 DEF FoundFresh, Fresh, Reads
<1>4. CASE SyncRunning
  BY <1>1, <1>4 DEF SyncRunning, Listed
<1>5. ASSUME NEW ok \in BOOLEAN, SyncGuest(ok) PROVE FoundFresh'
  BY <1>1, <1>5 DEF SyncGuest, Listed
<1>6. CASE pc' \notin {"list", "report"}
  BY <1>1, <1>6 DEF Listed
<1> QED
  BY <1>2, <1>3, <1>4, <1>5, <1>6
     DEF Watching, Step, FirstSync, Tick, RetryDue, Return, SyncFailed, SyncEnd, EventLook,
         RetryLook, WatcherError, OtherFileEvent, RemoveEvent, ChangeEvent, TakeEvent,
         StartSync, AfterSync

(***************************************************************************)
(* No body ends without a report of its guest, or a look left at it.       *)
(***************************************************************************)
LEMMA QuietKeepsReports ==
    ASSUME HistoryNext, AllReported, Reads, \A v \in VMs : Wrote(v)' = Wrote(v),
           call' = NoCall, UNCHANGED <<reported, pending>>,
           \A v \in VMs : LookLeft(v) => LookLeft(v)'
    PROVE  AllReported'
<1>1. \A v \in VMs : gaveUp'[v] = gaveUp[v]
  BY DEF HistoryNext, Refused, Accepted, NoCall, Stopped
<1> QED
  BY <1>1 DEF AllReported, Reported, Reads

LEMMA OneLookKeepsReports ==
    ASSUME AllReported, Reads, \A v \in VMs : Wrote(v)' = Wrote(v),
           NEW g \in VMs, Left(g), Others(g),
           \A v \in VMs \ {g} : LookLeft(v) => LookLeft(v)'
    PROVE  AllReported'
<1>1. ASSUME NEW v \in VMs PROVE (Reported(v) \/ LookLeft(v))'
  <2>1. CASE v = g
    BY <2>1 DEF Left, Reported, LookLeft, Reads
  <2>2. CASE v # g
    BY <2>2 DEF AllReported, Others, Reported, Reads
  <2> QED
    BY <2>1, <2>2
<1> QED
  BY <1>1 DEF AllReported

LEMMA BodiesKeepReports ==
    ASSUME IInv, KeepsInv, PendingFresh, FoundFresh, AllReported, HistoryNext,
           Watching, UNCHANGED nodeVars
    PROVE  AllReported'
<1>0. /\ Reads /\ \A v \in VMs : Wrote(v)' = Wrote(v)
      /\ pending \in [VMs -> Look] /\ reported \in [VMs -> Pids \cup {0}]
      /\ scan \subseteq VMs /\ NoLook \in Look
  BY ReadsOf, NoLookIsLook DEF NoLookType, IInv, TypeOK, LoopTypeOK
<1>1. ASSUME NEW n, BeginSync(n), pc # "look", pc # "report" PROVE AllReported'
  BY <1>0, <1>1, QuietKeepsReports DEF BeginSync, LookLeft
<1>2. CASE FirstSync \/ Tick \/ RetryDue
  <2>1. CASE UNCHANGED <<reported, pending, syncVars, looking>> /\ RetryDue /\ call' = NoCall
             /\ pc' = "retry"
    BY <1>0, <2>1, QuietKeepsReports DEF RetryDue, LookLeft, syncVars
  <2> QED
    BY <1>1, <1>2, <2>1 DEF FirstSync, Tick, RetryDue, StartSync
<1>3. CASE Return \/ ListGuest \/ SyncFailed
  BY <1>0, <1>3, QuietKeepsReports DEF Return, ListGuest, SyncFailed, AfterSync, LookLeft, syncVars
<1>4. CASE SyncEnd
  BY <1>0, <1>4, QuietKeepsReports DEF SyncEnd, LookLeft
<1>5. CASE SyncRunning
  <2>1. ASSUME NEW v \in VMs PROVE (Reported(v) \/ LookLeft(v))'
    <3>1. Fresh(v, found[v])
      BY <1>5 DEF SyncRunning, FoundFresh, Listed
    <3>2. CASE found[v] = 0
      BY <1>0, <3>1, <3>2 DEF Fresh, Reported, Reads
    <3>3. CASE found[v] # 0
      BY <1>5, <3>3 DEF SyncRunning, LookLeft
    <3> QED
      BY <3>2, <3>3
  <2> QED
    BY <2>1 DEF AllReported
<1>6. ASSUME NEW ok \in BOOLEAN, SyncGuest(ok) PROVE AllReported'
  <2>1. PICK g \in VMs : g = First(scan) /\ g \in scan
    BY <1>0, <1>6, FirstIsMember DEF SyncGuest
  <2>2. /\ scan' = scan \ {g} /\ pc = "report" /\ pc' = pc
        /\ Fresh(g, found[g]) /\ found[g] \in Pids
    BY <1>6, <2>1 DEF SyncGuest, FoundFresh, Listed, IInv, ReportsFound
  <2>3. Left(g) /\ Others(g)
    <3>1. CASE Known(g) /\ call' = NoCall /\ UNCHANGED <<reported, pending>>
      BY <2>2, <3>1, SilentOthers DEF Known, Left, Fresh
    <3>2. CASE /\ reported' = [reported EXCEPT ![g] = found[g]]
               /\ call' = NoCall /\ UNCHANGED pending
      BY <1>0, <2>2, <3>2, SilentOthers DEF Left, Fresh
    <3>3. CASE Start(pending, g, found[g], NoLook, ok)
      BY <1>0, <2>2, <3>3, StartLeaves, StartOthers
    <3> QED
      BY <1>6, <2>1, <3>1, <3>2, <3>3 DEF SyncGuest
  <2>4. \A v \in VMs \ {g} : LookLeft(v) => LookLeft(v)'
    BY <2>2, <2>3 DEF LookLeft, Others
  <2> QED
    BY <1>0, <2>3, <2>4, OneLookKeepsReports
<1>7. ASSUME NEW ok \in BOOLEAN, EventLook(ok) PROVE AllReported'
  <2>1. /\ looking \in VMs /\ LookAt(pending, looking, NoLook, ok) /\ synced' = synced
        /\ pc = "look" /\ pc' = "select"
    BY <1>7 DEF EventLook, IInv, LookIsFresh, syncVars
  <2>2. Left(looking) /\ Others(looking)
    BY <1>0, <2>1, LookLeaves, LookOthers
  <2>3. \A v \in VMs \ {looking} : LookLeft(v) => LookLeft(v)'
    BY <2>1, <2>2 DEF LookLeft, Others
  <2> QED
    BY <1>0, <2>1, <2>2, <2>3, OneLookKeepsReports
<1>8. ASSUME NEW ok \in BOOLEAN, NEW g \in VMs, RetryLook(g, ok) PROVE AllReported'
  <2> DEFINE left == [pending EXCEPT ![g] = NoLook]
  <2>1. /\ LookAt(left, g, pending[g], ok) /\ synced' = synced
        /\ pc = "retry" /\ pc' \in {"select", "retry"}
    BY <1>8 DEF RetryLook, syncVars
  <2>2. /\ left \in [VMs -> Look] /\ \A w \in VMs \ {g} : left[w] = pending[w]
        /\ pending[g] \in Look
    BY <1>0
  <2> HIDE DEF left
  <2>3. Left(g) /\ Others(g)
    BY <2>1, <2>2, LookLeaves, LookOthers
  <2>4. \A v \in VMs \ {g} : LookLeft(v) => LookLeft(v)'
    BY <2>1, <2>3 DEF LookLeft, Others
  <2> QED
    BY <1>0, <2>3, <2>4, OneLookKeepsReports
<1>9. ~(WatcherError \/ OtherFileEvent \/ RemoveEvent \/ ChangeEvent)
  <2>1. events' = events /\ events \in Seq(Event)
    BY DEF nodeVars, IInv, TypeOK, NodeTypeOK
  <2>2. ~TakeEvent
    BY <2>1, HeadTailProperties DEF TakeEvent
  <2> QED
    BY <2>2 DEF WatcherError, OtherFileEvent, RemoveEvent, ChangeEvent
<1> QED
  BY <1>2, <1>3, <1>4, <1>5, <1>6, <1>7, <1>8, <1>9 DEF Watching, Step

(***************************************************************************)
(* A file event that is taken off the queue.                               *)
(***************************************************************************)
LEMMA TakenEvent ==
    ASSUME IInv, KeepsInv, RemovesOld, NoneLost, TakeEvent
    PROVE  /\ NextEvent \in Event \ {Overflow} /\ pc = "select" /\ RemovesOld'
           /\ \A v \in VMs : Status(v)' = Status(v)
           /\ \A v \in VMs : NextEvent # WriteOf(v) => Wrote(v)' = Wrote(v)
           /\ \A v \in VMs : NextEvent = RemoveOf(v) => Status(v) = 0 \/ Wrote(v)
<1>0. /\ events \in Seq(Event) /\ events # <<>> /\ pc = "select" /\ events' = Tail(events)
      /\ UNCHANGED <<pidFile, proc>> /\ Len(events) \in Nat \ {0}
  BY EmptySeq, LenProperties DEF TakeEvent, IInv, TypeOK, NodeTypeOK
<1>1. /\ Head(events) = events[1] /\ Len(events') = Len(events) - 1
      /\ \A i \in 1 .. Len(events') : events'[i] = events[i + 1]
  BY <1>0, HeadTailProperties
<1>2. NextEvent \in Event \ {Overflow}
  BY <1>0, <1>1, TakeEventType DEF NextEvent, NoneLost
<1>3. \A v \in VMs : Status(v)' = Status(v)
  BY <1>0 DEF Status
<1>4. ASSUME NEW v \in VMs, NEW i \in 2 .. Len(events)
      PROVE  i - 1 \in 1 .. Len(events') /\ events'[i - 1] = events[i]
  BY <1>0, <1>1
<1>5. ASSUME NEW v \in VMs, NextEvent # WriteOf(v) PROVE Wrote(v)' = Wrote(v)
  <2>1. ASSUME Wrote(v) PROVE Wrote(v)'
    <3>1. PICK i \in 1 .. Len(events) : events[i] = WriteOf(v)
      BY <2>1 DEF Wrote
    <3>2. i \in 2 .. Len(events)
      BY <1>0, <1>1, <1>5, <3>1 DEF NextEvent
    <3> QED
      BY <1>4, <3>1, <3>2 DEF Wrote
  <2>2. ASSUME Wrote(v)' PROVE Wrote(v)
    <3>1. PICK i \in 1 .. Len(events') : events'[i] = WriteOf(v)
      BY <2>2 DEF Wrote
    <3>2. i + 1 \in 1 .. Len(events) /\ events[i + 1] = WriteOf(v)
      BY <1>0, <1>1, <3>1
    <3> QED
      BY <3>2 DEF Wrote
  <2> QED
    BY <2>1, <2>2 DEF Wrote
<1>6. ASSUME NEW v \in VMs, Status(v)' # 0, NEW i \in 1 .. Len(events'),
             events'[i] = RemoveOf(v)
      PROVE  \E j \in i + 1 .. Len(events') : events'[j] = WriteOf(v)
  <2>1. i + 1 \in 1 .. Len(events) /\ events[i + 1] = RemoveOf(v) /\ Status(v) # 0
    BY <1>0, <1>1, <1>3, <1>6
  <2>2. PICK j \in i + 2 .. Len(events) : events[j] = WriteOf(v)
    BY <2>1 DEF RemovesOld
  <2>3. j \in 2 .. Len(events) /\ j - 1 \in i + 1 .. Len(events')
    BY <1>0, <1>1, <2>2
  <2> QED
    BY <1>4, <2>2, <2>3
<1>7. ASSUME NEW v \in VMs, NextEvent = RemoveOf(v), Status(v) # 0 PROVE Wrote(v)
  <2>1. 1 \in 1 .. Len(events) /\ events[1] = RemoveOf(v)
    BY <1>0, <1>1, <1>7 DEF NextEvent
  <2>2. PICK j \in 1 + 1 .. Len(events) : events[j] = WriteOf(v)
    BY <1>7, <2>1 DEF RemovesOld
  <2> QED
    BY <1>0, <2>2 DEF Wrote
<1> QED
  BY <1>0, <1>2, <1>3, <1>5, <1>6, <1>7 DEF RemovesOld

LEMMA EventsKeepAll ==
    ASSUME IInv, KeepsInv, ~lost, HistoryNext,
           WatcherError \/ OtherFileEvent \/ RemoveEvent \/ ChangeEvent
    PROVE  PendingFresh' /\ FoundFresh' /\ AllReported' /\ RemovesOld'
<1>0. /\ PendingFresh /\ AllReported /\ RemovesOld /\ NoneLost
      /\ pending \in [VMs -> Look] /\ reported \in [VMs -> Pids \cup {0}] /\ NoVM \notin VMs
  BY VMsAssumption DEF NoVM, KeepsInv, IInv, TypeOK, LoopTypeOK
<1>1. /\ NextEvent \in Event \ {Overflow} /\ pc = "select" /\ RemovesOld'
      /\ \A v \in VMs : Status(v)' = Status(v)
      /\ \A v \in VMs : NextEvent # WriteOf(v) => Wrote(v)' = Wrote(v)
      /\ \A v \in VMs : NextEvent = RemoveOf(v) => Status(v) = 0 \/ Wrote(v)
  BY <1>0, TakenEvent DEF WatcherError, OtherFileEvent, RemoveEvent, ChangeEvent
<1>2. \A v \in VMs : NextEvent = WriteOf(v) => NextEvent.kind = "write" /\ NextEvent.vm = v
  BY DEF WriteOf
<1>3. \A v \in VMs : NextEvent.kind = "remove" /\ NextEvent.vm = v => NextEvent = RemoveOf(v)
  BY <1>1 DEF Event, RemoveOf
<1>4. ~WatcherError
  BY <1>1 DEF WatcherError
<1>5. FoundFresh'
  BY <1>1, <1>4 DEF OtherFileEvent, RemoveEvent, ChangeEvent, FoundFresh, Listed
<1>6. CASE OtherFileEvent
  <2>1. /\ \A v \in VMs : Wrote(v)' = Wrote(v)
        /\ call' = NoCall /\ UNCHANGED <<pc, reported, pending, synced, looking>>
    BY <1>0, <1>1, <1>2, <1>6 DEF OtherFileEvent, syncVars
  <2>2. \A v \in VMs : gaveUp'[v] = gaveUp[v]
    BY <2>1 DEF HistoryNext, Refused, Accepted, NoCall, Stopped
  <2>3. PendingFresh' /\ AllReported'
    BY <1>0, <1>1, <2>1, <2>2
       DEF PendingFresh, Fresh, AllReported, Reported, LookLeft
  <2> QED
    BY <1>1, <1>5, <2>3
<1>7. CASE RemoveEvent
  <2>1. PICK g \in VMs : g = NextEvent.vm
    BY <1>1, <1>7 DEF RemoveEvent, Event, Overflow
  <2>2. /\ reported' = [reported EXCEPT ![g] = 0] /\ pending' = [pending EXCEPT ![g] = NoLook]
        /\ call' = Stopped(g) /\ NextEvent = RemoveOf(g) /\ pc' = pc /\ synced' = synced
        /\ \A v \in VMs : Wrote(v)' = Wrote(v)
    BY <1>1, <1>2, <1>3, <1>7, <2>1 DEF RemoveEvent, syncVars
  <2>3. \A v \in VMs \ {g} : gaveUp'[v] = gaveUp[v]
    BY <2>2 DEF HistoryNext, Refused, Accepted, Stopped
  <2>4. PendingFresh'
    BY <1>0, <1>1, <2>2 DEF PendingFresh, Fresh, NoLook
  <2>5. ASSUME NEW v \in VMs PROVE (Reported(v) \/ LookLeft(v))'
    <3>1. CASE v = g
      BY <1>1, <2>2, <3>1 DEF Reported
    <3>2. CASE v # g
      BY <1>0, <1>1, <2>2, <2>3, <3>2 DEF AllReported, Reported, LookLeft
    <3> QED
      BY <3>1, <3>2
  <2> QED
    BY <1>1, <1>5, <2>4, <2>5 DEF AllReported
<1>8. CASE ChangeEvent
  <2>1. PICK g \in VMs : g = NextEvent.vm
    BY <1>1, <1>8 DEF ChangeEvent, Event
  <2>2. /\ call' = NoCall /\ reported' = reported /\ synced' = synced
        /\ \/ KeepsBackoff(g) /\ UNCHANGED <<pc, pending>>
           \/ pending' = [pending EXCEPT ![g] = NoLook] /\ looking' = g /\ pc' = "look"
        /\ \A v \in VMs \ {g} : Wrote(v)' = Wrote(v) /\ pending'[v] = pending[v]
    BY <1>0, <1>1, <1>2, <1>8, <2>1 DEF ChangeEvent, syncVars
  <2>3. \A v \in VMs : gaveUp'[v] = gaveUp[v]
    BY <2>2 DEF HistoryNext, Refused, Accepted, NoCall, Stopped
  <2>4. ASSUME NEW v \in VMs, pending'[v].pid # 0
        PROVE  Status(v) \in {0, pending'[v].pid} \/ Wrote(v)'
    <3>1. CASE v = g
      BY <1>0, <2>2, <2>4, <3>1 DEF KeepsBackoff, RunsAs, NoLook
    <3>2. CASE v # g
      BY <1>0, <2>2, <2>4, <3>2 DEF PendingFresh, Fresh
    <3> QED
      BY <3>1, <3>2
  <2>5. ASSUME NEW v \in VMs PROVE (Reported(v) \/ LookLeft(v))'
    <3>1. CASE v = g
      BY <2>2, <3>1 DEF KeepsBackoff, LookLeft, NoLook
    <3>2. CASE v # g
      BY <1>0, <1>1, <2>2, <2>3, <3>2 DEF AllReported, Reported, LookLeft
    <3> QED
      BY <3>1, <3>2
  <2> QED
    BY <1>1, <1>5, <2>4, <2>5 DEF AllReported, PendingFresh, Fresh
<1> QED
  BY <1>4, <1>6, <1>7, <1>8

-----------------------------------------------------------------------------

LEMMA KeepsInvInit ==
    ASSUME HInit
    PROVE  KeepsInv
<1>1. /\ events = <<>> /\ mounted /\ gaveUp = [v \in VMs |-> 0] /\ ~synced /\ pc = "init"
      /\ pending = [v \in VMs |-> NoLook]
  BY DEF HInit, Init, NodeInit, HistoryInit
<1>2. NoneLost /\ RemovesOld
  BY <1>1 DEF NoneLost, RemovesOld
<1>3. PendingFresh /\ FoundFresh /\ AllReported
  BY <1>1 DEF PendingFresh, FoundFresh, Listed, AllReported, LookLeft, NoLook
<1> QED
  BY <1>1, <1>2, <1>3 DEF KeepsInv

LEMMA KeepsInvNext ==
    ASSUME PlainConfigs, HistoryInv, HistoryInv', KeepsInv, [HNext]_hVars
    PROVE  KeepsInv'
<1>0. IInv /\ DoneQuiet /\ IInv' /\ mounted
  BY DEF HistoryInv, KeepsInv
<1>1. CASE HNext
  <2>0. HistoryNext /\ Next
    BY <1>1 DEF HNext
  <2>1. gaveUp' \in [VMs -> Pids \cup {0}]
    <3>1. call'.pid \in Pids \cup {0} /\ gaveUp \in [VMs -> Pids \cup {0}]
      BY <1>0 DEF KeepsInv, IInv, TypeOK, LoopTypeOK, Call
    <3> QED
      BY <2>0, <3>1 DEF HistoryNext
  <2>2. mounted'
    BY <1>0, <2>0, LoopReads
       DEF Next, Node, OtherFile, Remount, CreatePidFile, CleanUp, Launch, WritePid, Exit,
           Configure, Killed, PlainConfigs, Done, vars, nodeVars
  <2>3. ASSUME ~lost'
        PROVE  /\ ~lost /\ NoneLost' /\ NoneLost /\ RemovesOld /\ PendingFresh
               /\ FoundFresh /\ AllReported
    <3>1. ~lost /\ \A i \in DOMAIN events' : events'[i] # Overflow
      BY <2>0, <2>3 DEF HistoryNext
    <3>2. DOMAIN events' = 1 .. Len(events')
      BY <1>0, LenProperties DEF IInv, TypeOK, NodeTypeOK
    <3> QED
      BY <3>1, <3>2 DEF KeepsInv, NoneLost
  <2>4. ASSUME Node, ~lost' PROVE RemovesOld' /\ PendingFresh' /\ FoundFresh' /\ AllReported'
    BY <1>0, <2>0, <2>3, <2>4, NodeKeepsAll
  <2>5. ASSUME Watching, ~lost'
        PROVE  RemovesOld' /\ PendingFresh' /\ FoundFresh' /\ AllReported'
    <3>1. CASE UNCHANGED nodeVars
      <4>1. Reads /\ \A v \in VMs : Wrote(v)' = Wrote(v)
        BY <2>5, <3>1, ReadsOf
      <4>2. RemovesOld'
        BY <2>3, <2>5, <4>1 DEF Reads, RemovesOld
      <4> QED
        BY <1>0, <2>0, <2>3, <2>5, <3>1, <4>1, <4>2,
           BodiesKeepPending, BodiesKeepFound, BodiesKeepReports
    <3>2. CASE WatcherError \/ OtherFileEvent \/ RemoveEvent \/ ChangeEvent
      BY <1>0, <2>0, <2>3, <2>5, <3>2, EventsKeepAll
    <3> QED
      BY <2>5, <3>1, <3>2
         DEF Watching, Step, FirstSync, Tick, RetryDue, Return, ListGuest, SyncFailed,
             SyncRunning, SyncEnd, SyncGuest, EventLook, RetryLook
  <2>6. ASSUME Done, ~lost' PROVE RemovesOld' /\ PendingFresh' /\ FoundFresh' /\ AllReported'
    <3>1. UNCHANGED vars /\ call' = NoCall
      BY <1>0, <2>6 DEF Done, DoneQuiet, vars, loopVars
    <3>2. gaveUp' = gaveUp
      BY <2>0, <3>1 DEF HistoryNext, KeepsInv, Refused, Accepted, NoCall, Stopped
    <3> QED
      BY <2>3, <2>6, <3>1, <3>2
         DEF RemovesOld, PendingFresh, FoundFresh, AllReported, Fresh, Listed, Reported,
             LookLeft, Wrote, Status, vars, nodeVars, loopVars, syncVars
  <2> QED
    BY <2>0, <2>1, <2>2, <2>3, <2>4, <2>5, <2>6 DEF KeepsInv, Next
<1>2. CASE UNCHANGED hVars
  <2>1. UNCHANGED <<vars, gaveUp, lost>>
    BY <1>2 DEF hVars
  <2> QED
    BY <2>1 DEF KeepsInv, NoneLost, RemovesOld, PendingFresh, FoundFresh, AllReported, Fresh,
                Listed, Reported, LookLeft, Wrote, Status, vars, nodeVars, loopVars, syncVars
<1> QED
  BY <1>1, <1>2

(***************************************************************************)
(* While the config dir stays, no guest's config is a template's, gone or  *)
(* unparsable, and the kernel drops no event, no start is lost: when the   *)
(* loop is idle, with no sync or retry to come, every guest runs as the    *)
(* PID it was reported with, or as the one whose retries ran out.  PIDs    *)
(* may be used again, and any events, ticks, kills, restarts and refusals  *)
(* may come between.                                                       *)
(***************************************************************************)
THEOREM EventsTellStarts ==
    ASSUME PlainConfigs
    PROVE  HSpec => []StartsKept
<1>1. HInit => KeepsInv
  BY KeepsInvInit
<1>2. HistoryInv /\ HistoryInv' /\ KeepsInv /\ [HNext]_hVars => KeepsInv'
  BY KeepsInvNext
<1>3. HSpec => []KeepsInv
  BY <1>1, <1>2, HistoryInvariance, PTL DEF HSpec
<1>4. HistoryInv /\ KeepsInv => StartsKept
  <2> SUFFICES ASSUME KeepsInv, ~lost, NEW v \in VMs, NothingLeft(v)
               PROVE  Status(v) \in {0, reported[v], gaveUp[v]}
    BY DEF StartsKept, NoStartLost
  <2>1. ~Wrote(v)
    BY DEF NothingLeft, Wrote
  <2>2. ~LookLeft(v)
    BY DEF NothingLeft, LookLeft
  <2> QED
    BY <2>1, <2>2 DEF KeepsInv, AllReported, Reported
<1> QED
  BY <1>3, <1>4, HistoryInvariance, PTL
=============================================================================
