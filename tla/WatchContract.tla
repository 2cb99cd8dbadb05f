---------------------------- MODULE WatchContract ----------------------------
(***************************************************************************)
(* What Watch promises its EventHandler, whatever happens on the node: the *)
(* streams of calls a handler may see, with the PID each guest was last    *)
(* told (or seen at the first sync) to run as.  How Watch finds starts out *)
(* -- file events, looks, retries, directory scans -- is hidden.           *)
(***************************************************************************)
EXTENDS Integers

CONSTANTS VMs, Pids

VARIABLES
    last,    \* per guest: the PID last reported or seeded; 0 if none
    listed,  \* whether a sync has completed
    call     \* the call just made

vars == <<last, listed, call>>

CallOf(fn, v, p, ok) == [fn |-> fn, vm |-> v, pid |-> p, ok |-> ok]
Quiet == CallOf("none", 0, 0, TRUE)

Init ==
    /\ last = [v \in VMs |-> 0]
    /\ listed = FALSE
    /\ call = Quiet

\* A start is told only if it is not the pair last reported.
TellStart(v, p, ok) ==
    /\ last[v] # p
    /\ call' = CallOf("VMStarted", v, p, ok)
    /\ last' = IF ok THEN [last EXCEPT ![v] = p] ELSE last
    /\ UNCHANGED listed

TellStop(v) ==
    /\ call' = CallOf("VMStopped", v, 0, TRUE)
    /\ last' = [last EXCEPT ![v] = 0]
    /\ UNCHANGED listed

\* A sync forgets the guests it did not find running.
TellRunning(running) ==
    /\ call' = CallOf("VMsRunning", 0, 0, TRUE)
    /\ last' = [v \in VMs |-> IF v \in running THEN last[v] ELSE 0]
    /\ UNCHANGED listed

\* Only the first sync takes a guest as running without telling its start.
Seed(v, p) ==
    /\ ~listed
    /\ call' = Quiet
    /\ last' = [last EXCEPT ![v] = p]
    /\ UNCHANGED listed

Pause ==
    /\ call' = Quiet
    /\ listed' \in {listed, TRUE}
    /\ UNCHANGED last

Next ==
    \/ \E v \in VMs : TellStop(v)
    \/ \E v \in VMs, p \in Pids : Seed(v, p) \/ \E ok \in BOOLEAN : TellStart(v, p, ok)
    \/ \E running \in SUBSET VMs : TellRunning(running)
    \/ Pause

Spec == Init /\ [][Next]_vars
=============================================================================
