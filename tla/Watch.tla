-------------------------------- MODULE Watch --------------------------------
(***************************************************************************)
(* The watch loop of qemu/watch.go: Client.Watch, the watchLoop methods it *)
(* calls from its one goroutine, and the node it observes: the pid files   *)
(* of the run dir, the processes behind them, the guests' config files and *)
(* the queue of file events between the kernel and the loop.               *)
(*                                                                         *)
(* The loop and the node interleave at every read the loop makes.  A       *)
(* handler body is cut into steps at those reads: the pending look and the *)
(* status check of a file event, and each guest that List visits, are      *)
(* steps of their own.  Every step makes at most one call to the           *)
(* EventHandler, and `call` shows it.                                      *)
(*                                                                         *)
(* Time is abstracted: any look or sync that is scheduled may come due,    *)
(* alone or together with others, whenever the loop is back at its select. *)
(***************************************************************************)
EXTENDS Integers, Sequences, FiniteSets

CONSTANTS
    VMs,          \* the VM ids of the node
    Pids,         \* the process ids a guest's QEMU may run as
    ConfigValues, \* what reading a guest's config may give
    Unmounts,     \* whether the config dir may go away
    ReusesPids,   \* whether a guest's process may get a PID used before
    MaxRetries,   \* WatchOptions.MaxRetries
    Ticks,        \* whether WatchOptions.SyncInterval is positive
    MaxEvents,    \* bound: length of the event queue before it overflows
    MaxNodeSteps  \* bound: steps the node takes in one behaviour

ASSUME VMsAssumption == VMs \subseteq Nat \ {0}
ASSUME PidsAssumption == Pids \subseteq Nat \ {0}
ASSUME NodeAssumption ==
    /\ ConfigValues \subseteq {"ok", "template", "unparsable", "unreadable", "gone"}
    /\ Unmounts \in BOOLEAN /\ ReusesPids \in BOOLEAN
ASSUME RetriesAssumption == MaxRetries \in Nat
ASSUME TicksAssumption == Ticks \in BOOLEAN
ASSUME BoundsAssumption == MaxEvents \in Nat \ {0} /\ MaxNodeSteps \in Nat

(***************************************************************************)
(* PID 0 is "not running", as in the code.  A pid file that is there but   *)
(* names no process (empty, or being written) is Blank.                    *)
(***************************************************************************)
Blank  == 0
NoFile == -1
NoVM   == 0

(***************************************************************************)
(* A pendingStart.  An entry of the map always has attempts >= 1 (schedule *)
(* stores attempts + 1), so attempts = 0 stands for "no entry".            *)
(***************************************************************************)
Look   == [pid : Pids \cup {0}, attempts : 0 .. MaxRetries]
NoLook == [pid |-> 0, attempts |-> 0]

Overflow == [kind |-> "overflow", vm |-> NoVM]
Event    == [kind : {"create", "write", "remove"}, vm : VMs \cup {NoVM}]
                \cup {Overflow}

NoCall      == [fn |-> "none", vm |-> NoVM, pid |-> 0, ok |-> TRUE]
Call        == [fn : {"none", "VMStarted", "VMStopped", "VMsRunning"},
                vm : VMs \cup {NoVM}, pid : Pids \cup {0}, ok : BOOLEAN]
Started(v, p, ok) == [fn |-> "VMStarted", vm |-> v, pid |-> p, ok |-> ok]
Stopped(v)        == [fn |-> "VMStopped", vm |-> v, pid |-> 0, ok |-> TRUE]
\* The map VMsRunning is called with is `found`.
RunningCall == [fn |-> "VMsRunning", vm |-> NoVM, pid |-> 0, ok |-> TRUE]

VARIABLES
    \* the node
    pidFile,       \* per VM: its pid file's content, Blank or NoFile
    proc,          \* per PID: the VM whose QEMU it is; NoVM if none, or another program
    config,        \* per VM: what reading its config file gives
    used,          \* the PIDs that have been some process's
    mounted,       \* whether the config dir (pmxcfs) is there to read
    events,        \* file events on their way to the loop, oldest first
    nodeSteps,     \* steps the node has taken
    \* the loop
    pc,            \* where Watch's goroutine is
    reported,      \* watchLoop.reported; 0 for a guest that has no entry
    pending,       \* watchLoop.pending
    synced,        \* watchLoop.synced
    syncDue,       \* whether watchLoop.syncDue is set
    syncAttempts,  \* watchLoop.syncAttempts
    scan,          \* guests this sync has still to visit
    found,         \* List's result: the PID of each guest it found running, else 0
    skipped,       \* List's skipped # nil, or the dir could not be read
    due,           \* guests whose due look retryDue has still to run
    looking,       \* the guest a file event has looked at
    call           \* the EventHandler call of the last step

nodeVars == <<pidFile, proc, used, config, mounted, events, nodeSteps>>
syncVars == <<synced, syncDue, syncAttempts, scan, found, skipped>>
loopVars == <<pc, reported, pending, syncVars, due, looking, call>>
vars     == <<nodeVars, loopVars>>

-----------------------------------------------------------------------------
(* Reading the node.                                                       *)

(***************************************************************************)
(* Client.status, as a PID: the process the pid file names, if its command *)
(* line is this guest's QEMU, and 0 ("stopped") otherwise.                 *)
(***************************************************************************)
Status(v) ==
    IF pidFile[v] \in Pids /\ proc[pidFile[v]] = v THEN pidFile[v] ELSE 0

RunsAs(v, p) == Status(v) = p

\* ReadDir of qemu-server: the guests with a config file.
Directory == {v \in VMs : config[v] # "gone"}

\* With the mount gone between ReadDir and the read, the file is gone too.
ReadConfig(v) == IF mounted THEN config[v] ELSE "gone"

First(S) == CHOOSE v \in S : \A w \in S : v <= w

-----------------------------------------------------------------------------
(* Looks and starts.                                                       *)

\* Faulty variant: a retry starts its count over.
ScheduleAnew(left, v, pid, prev) ==
    IF MaxRetries = 0 THEN left
    ELSE [left EXCEPT ![v] = [pid |-> pid, attempts |-> 1]]

(***************************************************************************)
(* watchLoop.schedule.  `left` is pending as the caller left it, usually   *)
(* with guest v's entry deleted; prev is the look that this one continues, *)
(* NoLook for none.  Out of retries, nothing is scheduled.                 *)
(***************************************************************************)
Schedule(left, v, pid, prev) ==
    LET attempts == IF prev.pid = pid THEN prev.attempts ELSE 0
    IN  IF attempts >= MaxRetries THEN left
        ELSE [left EXCEPT ![v] = [pid |-> pid, attempts |-> attempts + 1]]

(***************************************************************************)
(* watchLoop.start: the handler is told, and either accepts (ok) or has    *)
(* the start retried.                                                      *)
(***************************************************************************)
Start(left, v, pid, prev, ok) ==
    /\ call' = Started(v, pid, ok)
    /\ reported' = IF ok THEN [reported EXCEPT ![v] = pid] ELSE reported
    /\ pending' = IF ok THEN left ELSE Schedule(left, v, pid, prev)

Silent(looks) == pending' = looks /\ call' = NoCall /\ UNCHANGED reported

\* watchLoop.look, the branch that retries a failed VMStarted.
RetryStart(left, v, prev, ok) ==
    /\ prev.pid # 0
    /\ \/ ~RunsAs(v, prev.pid) /\ Silent(left)
       \/ RunsAs(v, prev.pid) /\ Start(left, v, prev.pid, prev, ok)

\* Faulty variant: a file event is a start, whatever was reported.
LookAndTell(left, v, prev, ok) ==
    /\ prev.pid = 0
    /\ \/ Status(v) = 0 /\ Silent(Schedule(left, v, 0, prev))
       \/ Status(v) # 0 /\ Start(left, v, Status(v), prev, ok)

\* watchLoop.look, the branch that looks whether the guest has started.
LookForStart(left, v, prev, ok) ==
    /\ prev.pid = 0
    /\ \/ Status(v) = 0 /\ Silent(Schedule(left, v, 0, prev))
       \/ Status(v) # 0 /\ Status(v) = reported[v] /\ Silent(left)
       \/ Status(v) \notin {0, reported[v]} /\ Start(left, v, Status(v), prev, ok)

LookAt(left, v, prev, ok) ==
    RetryStart(left, v, prev, ok) \/ LookForStart(left, v, prev, ok)

-----------------------------------------------------------------------------
(* The sync.  It runs in steps: BeginSync reads the directory, ListGuest   *)
(* one guest's config and status, and the rest is sync itself.             *)

BeginSync(attempts) ==
    /\ syncDue' = FALSE
    /\ syncAttempts' = attempts
    /\ found' = [v \in VMs |-> 0]
    /\ scan' = IF mounted THEN Directory ELSE {}
    /\ skipped' = ~mounted
    /\ pc' = "list"
    /\ call' = NoCall
    /\ UNCHANGED <<reported, pending, synced, looking>>

StartSync == BeginSync(0) /\ UNCHANGED due

\* Where the goroutine goes after a sync: the other looks of the same
\* retryDue, if it was a retry that ran the sync.
AfterSync == IF due = {} THEN "select" ELSE "retry"

\* Faulty variant: an unreadable config is passed over like one that is gone.
ListGuestQuietly ==
    /\ pc = "list" /\ scan # {}
    /\ LET v == First(scan)
       IN  /\ scan' = scan \ {v}
           /\ found' = IF ReadConfig(v) = "ok"
                         THEN [found EXCEPT ![v] = Status(v)] ELSE found
    /\ call' = NoCall
    /\ UNCHANGED <<nodeVars, pc, reported, pending, synced, syncDue, syncAttempts,
                   skipped, due, looking>>

\* The guest is in List's result only if it runs and is no template.
ListGuest ==
    /\ pc = "list" /\ scan # {}
    /\ LET v == First(scan)
       IN  /\ scan' = scan \ {v}
           /\ found' = IF ReadConfig(v) = "ok"
                         THEN [found EXCEPT ![v] = Status(v)] ELSE found
           /\ skipped' = (skipped \/ ReadConfig(v) = "unreadable")
    /\ call' = NoCall
    /\ UNCHANGED <<nodeVars, pc, reported, pending, synced, syncDue, syncAttempts,
                   due, looking>>

\* Faulty variant: one retry too many.
SyncFailedOnceMore ==
    /\ pc = "list" /\ scan = {} /\ skipped
    /\ syncDue' = (syncAttempts <= MaxRetries)
    /\ pc' = AfterSync
    /\ call' = NoCall
    /\ UNCHANGED <<nodeVars, reported, pending, synced, syncAttempts, scan, found,
                   skipped, due, looking>>

SyncFailed ==
    /\ pc = "list" /\ scan = {} /\ skipped
    /\ syncDue' = (syncAttempts < MaxRetries)
    /\ pc' = AfterSync
    /\ call' = NoCall
    /\ UNCHANGED <<nodeVars, reported, pending, synced, syncAttempts, scan, found,
                   skipped, due, looking>>

\* Faulty variant: guests that no longer run stay reported.
SyncRunningKeeping ==
    /\ pc = "list" /\ scan = {} /\ ~skipped
    /\ call' = RunningCall
    /\ scan' = {v \in VMs : found[v] # 0}
    /\ pc' = "report"
    /\ UNCHANGED <<nodeVars, reported, pending, synced, syncDue, syncAttempts, found,
                   skipped, due, looking>>

\* Guests that no longer run are forgotten, then VMsRunning is called.
SyncRunning ==
    /\ pc = "list" /\ scan = {} /\ ~skipped
    /\ reported' = [v \in VMs |-> IF found[v] = 0 THEN 0 ELSE reported[v]]
    /\ call' = RunningCall
    /\ scan' = {v \in VMs : found[v] # 0}
    /\ pc' = "report"
    /\ UNCHANGED <<nodeVars, pending, synced, syncDue, syncAttempts, found, skipped,
                   due, looking>>

\* Faulty variants: what was reported before is told again on every sync, or
\* what has a retry pending is.
KnownIfPending(v)  == pending[v] # NoLook
KnownIfReported(v) == reported[v] = found[v]

Known(v) == pending[v] # NoLook \/ reported[v] = found[v]

SyncGuest(ok) ==
    /\ pc = "report" /\ scan # {}
    /\ LET v == First(scan)
       IN  /\ scan' = scan \ {v}
           /\ \/ /\ Known(v)
                 /\ call' = NoCall
                 /\ UNCHANGED <<reported, pending>>
              \/ /\ ~Known(v) /\ ~synced
                 /\ reported' = [reported EXCEPT ![v] = found[v]]
                 /\ call' = NoCall
                 /\ UNCHANGED pending
              \/ /\ ~Known(v) /\ synced
                 /\ Start(pending, v, found[v], NoLook, ok)
    /\ UNCHANGED <<nodeVars, pc, synced, syncDue, syncAttempts, found, skipped, due,
                   looking>>

SyncEnd ==
    /\ pc = "report" /\ scan = {}
    /\ synced' = TRUE
    /\ pc' = AfterSync
    /\ call' = NoCall
    /\ UNCHANGED <<nodeVars, reported, pending, syncDue, syncAttempts, scan, found,
                   skipped, due, looking>>

-----------------------------------------------------------------------------
(* The branches of Watch's select.                                         *)

\* Watch before its loop: the run dir is watched, then the first sync runs.
FirstSync ==
    /\ pc = "init"
    /\ StartSync
    /\ UNCHANGED nodeVars

Tick ==
    /\ pc = "select" /\ Ticks
    /\ StartSync
    /\ UNCHANGED nodeVars

\* ctx is canceled: Watch returns nil.
Return ==
    /\ pc = "select"
    /\ pc' = "done"
    /\ call' = NoCall
    /\ UNCHANGED <<nodeVars, reported, pending, syncVars, due, looking>>

\* retryDue: some of what is scheduled is due, the sync first.
RetryDue ==
    /\ pc = "select"
    /\ \E S \in SUBSET {v \in VMs : pending[v] # NoLook} :
          /\ due' = S
          /\ \/ syncDue /\ BeginSync(syncAttempts + 1)
             \/ /\ S # {}
                /\ pc' = "retry"
                /\ call' = NoCall
                /\ UNCHANGED <<reported, pending, syncVars, looking>>
    /\ UNCHANGED nodeVars

\* One iteration of retryDue's loop over the pending looks, in any order.
RetryLook(v, ok) ==
    /\ pc = "retry" /\ v \in due
    /\ LookAt([pending EXCEPT ![v] = NoLook], v, pending[v], ok)
    /\ due' = due \ {v}
    /\ pc' = IF due = {v} THEN "select" ELSE "retry"
    /\ UNCHANGED <<nodeVars, syncVars, looking>>

NextEvent == Head(events)

TakeEvent ==
    /\ pc = "select" /\ events # <<>>
    /\ events' = Tail(events)
    /\ UNCHANGED <<pidFile, proc, used, config, mounted, nodeSteps>>

\* A watcher error: events may have been lost.
WatcherError == TakeEvent /\ NextEvent = Overflow /\ StartSync

\* fileEvent: a file of the run dir that is not <vmid>.pid.
OtherFileEvent ==
    /\ TakeEvent /\ NextEvent # Overflow /\ NextEvent.vm = NoVM
    /\ call' = NoCall
    /\ UNCHANGED <<pc, reported, pending, syncVars, due, looking>>

RemoveEvent ==
    /\ TakeEvent /\ NextEvent.kind = "remove" /\ NextEvent.vm # NoVM
    /\ LET v == NextEvent.vm
       IN  /\ reported' = [reported EXCEPT ![v] = 0]
           /\ pending' = [pending EXCEPT ![v] = NoLook]
           /\ call' = Stopped(v)
    /\ UNCHANGED <<pc, syncVars, due, looking>>

\* Faulty variants: every file event replaces the pending look, or none does
\* that meets a retry.
KeepsNoBackoff(v)  == FALSE
KeepsAnyBackoff(v) == pending[v].pid # 0

\* The pending look is a retry of the start the pid file still names.
KeepsBackoff(v) == pending[v].pid # 0 /\ RunsAs(v, pending[v].pid)

\* A Create or a Write: the pending look is replaced, and the fresh look that
\* follows (EventLook) reads the pid file once more.
ChangeEvent ==
    /\ TakeEvent /\ NextEvent.kind \in {"create", "write"} /\ NextEvent.vm # NoVM
    /\ LET v == NextEvent.vm
       IN  \/ /\ KeepsBackoff(v)
              /\ UNCHANGED <<pc, pending, looking>>
           \/ /\ ~KeepsBackoff(v)
              /\ pending' = [pending EXCEPT ![v] = NoLook]
              /\ looking' = v
              /\ pc' = "look"
    /\ call' = NoCall
    /\ UNCHANGED <<reported, syncVars, due>>

EventLook(ok) ==
    /\ pc = "look"
    /\ LookAt(pending, looking, NoLook, ok)
    /\ looking' = NoVM
    /\ pc' = "select"
    /\ UNCHANGED <<nodeVars, syncVars, due>>

Step(ok) ==
    \/ SyncGuest(ok)
    \/ EventLook(ok)
    \/ \E v \in VMs : RetryLook(v, ok)

Watching ==
    \/ FirstSync \/ Tick \/ RetryDue \/ Return
    \/ ListGuest \/ SyncFailed \/ SyncRunning \/ SyncEnd
    \/ WatcherError \/ OtherFileEvent \/ RemoveEvent \/ ChangeEvent
    \/ \E ok \in BOOLEAN : Step(ok)

-----------------------------------------------------------------------------
(* The node.  The loop does none of this and sees only what it leaves      *)
(* behind: files, processes and events.                                    *)

NodeStep ==
    /\ nodeSteps < MaxNodeSteps
    /\ nodeSteps' = nodeSteps + 1
    /\ call' = NoCall
    /\ UNCHANGED <<pc, reported, pending, syncVars, due, looking>>

(***************************************************************************)
(* The kernel merges an event into an equal one at the tail.  In a full    *)
(* queue an event is lost, and an overflow entry is queued once in place   *)
(* of all that are lost while it waits.                                    *)
(***************************************************************************)
Queued(e) ==
    IF events # <<>> /\ events[Len(events)] = e THEN events
    ELSE IF Len(events) < MaxEvents THEN Append(events, e)
    ELSE IF \E i \in 1 .. Len(events) : events[i] = Overflow THEN events
    ELSE Append(events, Overflow)

Emit(kind, v) == events' = Queued([kind |-> kind, vm |-> v])

Alive(v) == \E p \in Pids : proc[p] = v

\* QEMU is launched as p: PVE starts a guest only while none of its runs.  A
\* new process does not get the PID its guest's own old pid file still names.
Launch(v, p) ==
    /\ NodeStep
    /\ proc[p] = NoVM /\ ~Alive(v) /\ pidFile[v] # p
    /\ p \in used => ReusesPids
    /\ used' = used \cup {p}
    /\ proc' = [proc EXCEPT ![p] = v]
    /\ UNCHANGED <<pidFile, config, mounted, events>>

\* It creates its pid file and then writes its PID into it; a file left
\* behind by a killed process is written over.
CreatePidFile(v) ==
    /\ NodeStep
    /\ Alive(v) /\ pidFile[v] = NoFile
    /\ pidFile' = [pidFile EXCEPT ![v] = Blank]
    /\ Emit("create", v)
    /\ UNCHANGED <<proc, used, config, mounted>>

WritePid(v, p) ==
    /\ NodeStep
    /\ proc[p] = v /\ pidFile[v] # NoFile
    /\ pidFile' = [pidFile EXCEPT ![v] = p]
    /\ Emit("write", v)
    /\ UNCHANGED <<proc, used, config, mounted>>

\* A process that ends in order takes its pid file with it.
Exit(v, p) ==
    /\ NodeStep
    /\ proc[p] = v /\ pidFile[v] = p
    /\ proc' = [proc EXCEPT ![p] = NoVM]
    /\ pidFile' = [pidFile EXCEPT ![v] = NoFile]
    /\ Emit("remove", v)
    /\ UNCHANGED <<used, config, mounted>>

\* A killed one leaves it behind, until someone cleans up.
Killed(p) ==
    /\ NodeStep
    /\ proc[p] # NoVM
    /\ proc' = [proc EXCEPT ![p] = NoVM]
    /\ UNCHANGED <<pidFile, used, config, mounted, events>>

CleanUp(v) ==
    /\ NodeStep
    /\ pidFile[v] # NoFile /\ ~Alive(v)
    /\ pidFile' = [pidFile EXCEPT ![v] = NoFile]
    /\ Emit("remove", v)
    /\ UNCHANGED <<proc, used, config, mounted>>

\* Sockets and other files come and go in the same directory.
OtherFile ==
    /\ NodeStep
    /\ Emit("create", NoVM)
    /\ UNCHANGED <<pidFile, proc, used, config, mounted>>

Configure(v, c) ==
    /\ NodeStep
    /\ c \in ConfigValues \ {config[v]}
    /\ config' = [config EXCEPT ![v] = c]
    /\ UNCHANGED <<pidFile, proc, used, mounted, events>>

Remount ==
    /\ NodeStep
    /\ Unmounts
    /\ mounted' = ~mounted
    /\ UNCHANGED <<pidFile, proc, used, config, events>>

Node ==
    \/ OtherFile \/ Remount
    \/ \E v \in VMs :
          \/ CreatePidFile(v) \/ CleanUp(v)
          \/ \E p \in Pids : Launch(v, p) \/ WritePid(v, p) \/ Exit(v, p)
          \/ \E c \in ConfigValues : Configure(v, c)
    \/ \E p \in Pids : Killed(p)

\* Watch has returned.
Done == pc = "done" /\ UNCHANGED vars

-----------------------------------------------------------------------------

(***************************************************************************)
(* Watch finds the node with some guests running, some stopped, and some   *)
(* stopped with a pid file left behind.                                    *)
(***************************************************************************)
NodeInit ==
    /\ pidFile \in [VMs -> Pids \cup {NoFile}]
    /\ proc \in [Pids -> VMs \cup {NoVM}]
    /\ \A p \in Pids : proc[p] # NoVM => pidFile[proc[p]] = p
    /\ used = {p \in Pids : proc[p] # NoVM \/ \E v \in VMs : pidFile[v] = p}
    /\ config \in [VMs -> ConfigValues]
    /\ mounted = TRUE
    /\ events = <<>>
    /\ nodeSteps = 0

Init ==
    /\ NodeInit
    /\ pc = "init"
    /\ reported = [v \in VMs |-> 0]
    /\ pending = [v \in VMs |-> NoLook]
    /\ synced = FALSE
    /\ syncDue = FALSE /\ syncAttempts = 0
    /\ scan = {} /\ found = [v \in VMs |-> 0] /\ skipped = FALSE
    /\ due = {} /\ looking = NoVM
    /\ call = NoCall

Next == Watching \/ Node \/ Done

Spec == Init /\ [][Next]_vars

(***************************************************************************)
(* A body that runs goes on running.  Go's select takes one of its ready   *)
(* branches at random, so a branch that is ready again and again is taken; *)
(* time passes, so ticks and retries do come due.  Nothing is assumed of   *)
(* the node.  A handler that is asked again and again accepts in the end.  *)
(***************************************************************************)
Fairness ==
    /\ WF_vars(FirstSync \/ ListGuest \/ SyncFailed \/ SyncRunning \/ SyncEnd)
    /\ WF_vars(\E ok \in BOOLEAN : Step(ok))
    /\ SF_vars(Tick)
    /\ SF_vars(RetryDue)
    /\ SF_vars(WatcherError \/ OtherFileEvent \/ RemoveEvent \/ ChangeEvent)

HandlerFairness ==
    /\ SF_vars(SyncGuest(TRUE))
    /\ SF_vars(EventLook(TRUE))
    /\ \A v \in VMs : SF_vars(RetryLook(v, TRUE))

FairSpec == Spec /\ Fairness /\ HandlerFairness

-----------------------------------------------------------------------------

NodeTypeOK ==
    /\ pidFile \in [VMs -> Pids \cup {Blank, NoFile}]
    /\ proc \in [Pids -> VMs \cup {NoVM}]
    /\ used \in SUBSET Pids
    /\ config \in [VMs -> ConfigValues]
    /\ mounted \in BOOLEAN
    /\ events \in Seq(Event)
    /\ nodeSteps \in 0 .. MaxNodeSteps

LoopTypeOK ==
    /\ pc \in {"init", "select", "list", "report", "retry", "look", "done"}
    /\ reported \in [VMs -> Pids \cup {0}]
    /\ pending \in [VMs -> Look]
    /\ synced \in BOOLEAN
    /\ syncDue \in BOOLEAN
    /\ syncAttempts \in 0 .. MaxRetries
    /\ scan \in SUBSET VMs
    /\ found \in [VMs -> Pids \cup {0}]
    /\ skipped \in BOOLEAN
    /\ due \in SUBSET VMs
    /\ looking \in VMs \cup {NoVM}
    /\ call \in Call

TypeOK == NodeTypeOK /\ LoopTypeOK

(***************************************************************************)
(* A guest's pending retry is of a start the handler has not accepted:     *)
(* whichever of the sync, the file events and the retries got to a guest   *)
(* first, the others do not report the same process again.                 *)
(***************************************************************************)
RetryNotReported ==
    \A v \in VMs : pending[v].pid # 0 => reported[v] # pending[v].pid

(***************************************************************************)
(* What the code has at each point where it is about to tell the handler:  *)
(* a failed sync is retried within MaxRetries, a fresh look is at a guest  *)
(* whose pending look fileEvent has deleted, and sync reports the guests   *)
(* that List found.                                                        *)
(***************************************************************************)
SyncRetryBound == syncDue => syncAttempts < MaxRetries
LookIsFresh == pc = "look" => looking \in VMs /\ pending[looking] = NoLook
ReportsFound == pc = "report" => \A v \in scan : found[v] \in Pids

IInv ==
    /\ TypeOK
    /\ SyncRetryBound
    /\ LookIsFresh
    /\ ReportsFound
    /\ RetryNotReported

(***************************************************************************)
(* The handler sees no call that WatchContract forbids: each start is told *)
(* until it is accepted and then not again, and a guest is taken as        *)
(* running unasked only by the first sync.                                 *)
(***************************************************************************)
Contract == INSTANCE WatchContract WITH last <- reported, listed <- synced
MeetsContract == Contract!Spec
=============================================================================
