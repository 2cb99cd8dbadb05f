----------------------------- MODULE WatchHistory -----------------------------
(***************************************************************************)
(* What the watch loop of module Watch must never do, stated over its      *)
(* steps and over a history of what went before that the loop itself does  *)
(* not keep.  The history variables constrain nothing.                     *)
(***************************************************************************)
EXTENDS Watch

VARIABLES
    ranBefore,  \* per VM: the PID it ran as when Watch was called, or 0
    acked,      \* per VM: the live process whose start the handler has accepted
                \*   since the last VMStopped, or 0
    refused,    \* per VM: VMStarted calls that failed since a file event, a look or
                \*   a sync told the start that is being retried
    gaveUp,     \* per VM: the PID of the last start whose retries ran out, or 0
    lost,       \* whether the kernel has dropped an event
    steady      \* guests whose config and status are as they were when List began

hVars == <<vars, ranBefore, acked, refused, gaveUp, lost, steady>>

HistoryInit ==
    /\ ranBefore = [v \in VMs |-> Status(v)]
    /\ acked = [v \in VMs |-> 0]
    /\ refused = [v \in VMs |-> 0]
    /\ gaveUp = [v \in VMs |-> 0]
    /\ lost = FALSE
    /\ steady = {}

Accepted(v) == call'.fn = "VMStarted" /\ call'.vm = v /\ call'.ok
Refused(v)  == call'.fn = "VMStarted" /\ call'.vm = v /\ ~call'.ok

AckedNext(v) ==
    IF Accepted(v) THEN (IF proc'[call'.pid] = v THEN call'.pid ELSE 0)
    ELSE IF call' = Stopped(v) \/ (acked[v] # 0 /\ proc'[acked[v]] # v) THEN 0
    ELSE acked[v]

HistoryNext ==
    /\ acked' = [v \in VMs |-> AckedNext(v)]
    /\ refused' = [v \in VMs |-> IF Refused(v) THEN refused[v] + 1
                                 ELSE IF pending'[v].pid = 0 THEN 0 ELSE refused[v]]
    /\ gaveUp' = [v \in VMs |->
                    IF Refused(v) /\ pending'[v] = NoLook THEN call'.pid
                    ELSE IF Accepted(v) \/ call' = Stopped(v) THEN 0 ELSE gaveUp[v]]
    /\ lost' = (lost \/ \E i \in DOMAIN events' : events'[i] = Overflow)
    /\ steady' = IF pc # "list" /\ pc' = "list" THEN VMs
                 ELSE IF pc' \notin {"list", "report"} THEN {}
                 ELSE {v \in steady : config'[v] = config[v] /\ Status(v)' = Status(v)}
    /\ UNCHANGED ranBefore

HInit == Init /\ HistoryInit
HNext == Next /\ HistoryNext

HSpec     == HInit /\ [][HNext]_hVars
HFairSpec == HSpec /\ Fairness /\ HandlerFairness

-----------------------------------------------------------------------------

(***************************************************************************)
(* While a retry is pending, it counts every VMStarted that failed, those  *)
(* that file events, ticks and watcher errors had no part in and those     *)
(* they had; and its start is given up after MaxRetries retries, no more   *)
(* and no fewer.  A start that was given up has no retry pending: a later  *)
(* sync or file event tells it anew, with as many retries.                 *)
(***************************************************************************)
RetryBudget ==
    \A v \in VMs :
        IF pending[v].pid # 0 THEN refused[v] = pending[v].attempts
        ELSE refused[v] \in {0, MaxRetries + 1}

(***************************************************************************)
(* The same process of a guest is reported as started once, until the      *)
(* guest is reported as stopped.                                           *)
(***************************************************************************)
StartedOnce ==
    [][call'.fn = "VMStarted" => acked[call'.vm] # call'.pid]_hVars

(***************************************************************************)
(* While a process whose start failed goes on being its guest's, its retry *)
(* stays pending with its backoff until it is run, or the guest's pid file *)
(* is removed: no file event or sync resets or drops it.                   *)
(***************************************************************************)
RetryKept ==
    [][\A v \in VMs :
          LET p == pending[v].pid
          IN  p # 0 /\ RunsAs(v, p) =>
                 \/ pending'[v] = pending[v]
                 \/ Accepted(v) /\ call'.pid = p
                 \/ Refused(v) /\ call'.pid = p
                 \/ call' = Stopped(v)]_hVars

(***************************************************************************)
(* VMsRunning is called only when every guest's state is known, and with   *)
(* each running guest that is no template: a guest that has stayed as it   *)
(* is since List began is in the map exactly if it runs and is no template,*)
(* and none of these has an unreadable config.                             *)
(***************************************************************************)
RunningMapComplete ==
    [][call'.fn = "VMsRunning" =>
         \A v \in steady :
            /\ config[v] # "unreadable"
            /\ found[v] = IF config[v] \in {"template", "gone"} THEN 0
                          ELSE Status(v)]_hVars

(***************************************************************************)
(* The guests that the first sync seeds ran before Watch (watch.go:343).   *)
(***************************************************************************)
SeededRanBefore ==
    [][\A v \in VMs :
          reported'[v] \notin {0, reported[v]} /\ call' = NoCall
             => reported'[v] = ranBefore[v]]_hVars

(***************************************************************************)
(* VMStopped tells that the guest's process is gone (watch.go:37): it is   *)
(* not called for a guest that runs as the process whose start the handler *)
(* was the last to accept.                                                 *)
(***************************************************************************)
StoppedIsGone ==
    [][\A v \in VMs : call' = Stopped(v) => acked[v] = 0 \/ ~RunsAs(v, acked[v])]_hVars

(***************************************************************************)
(* No start is lost: a guest that runs as a PID that was never reported    *)
(* has something left to report it, unless its retries ran out.            *)
(***************************************************************************)
NothingLeft(v) ==
    pc = "select" /\ synced /\ events = <<>> /\ ~syncDue /\ pending[v] = NoLook

NoStartLost ==
    \A v \in VMs : NothingLeft(v) => Status(v) \in {0, reported[v], gaveUp[v]}

(***************************************************************************)
(* As long as the kernel drops no event, the file events alone see to it   *)
(* that no start is lost, with ticks and retries or without.               *)
(***************************************************************************)
StartsKept == ~lost => NoStartLost

-----------------------------------------------------------------------------

(***************************************************************************)
(* With syncs every SyncInterval, the loop's picture of a guest becomes    *)
(* the truth: whatever events were lost or came late, and whatever the     *)
(* handler refused, a guest that goes on running as p is reported as p,    *)
(* and one that stays stopped is forgotten, once the configs can be read.  *)
(***************************************************************************)
Settled(v, p) ==
    /\ Status(v) = p
    /\ mounted /\ config[v] = "ok"
    /\ \A w \in VMs : config[w] # "unreadable"

Converges ==
    \A v \in VMs, p \in Pids \cup {0} :
        <>[]Settled(v, p) => <>[](reported[v] = p \/ pc = "done")
=============================================================================
