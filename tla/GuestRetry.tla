------------------------------ MODULE GuestRetry ------------------------------
(***************************************************************************)
(* Callers of GuestCommands that repeat an update until it is done, as the *)
(* errors ask of them: docs/design.md 5 has "locked" retried with backoff, *)
(* and an error that leaves open what happened can only be retried too.    *)
(***************************************************************************)
EXTENDS GuestCommands

VARIABLE last   \* per client: its last request

rvars == <<vars, last>>

RInit == Init /\ last = [c \in Clients |-> NoRequest]

\* The last call was an update that failed in a way that is worth a retry.
Owes(c) ==
    /\ last[c] # NoRequest /\ last[c].op = "update"
    /\ answer[c] \in {"error", "locked"}

Retry(c) ==
    /\ Owes(c)
    /\ Begin(c, last[c])
    /\ UNCHANGED <<calls, last>>

NewCall(c) ==
    /\ ~Owes(c) /\ Call(c)
    /\ last' = [last EXCEPT ![c] = job'[c]]

RNext ==
    \/ Edit /\ UNCHANGED last
    \/ \E c \in Clients : Progress(c) /\ UNCHANGED last
    \/ \E c \in Clients : Kill(c) /\ UNCHANGED last
    \/ \E c \in Clients : Retry(c) \/ NewCall(c)

RSpec == RInit /\ [][RNext]_rvars
RFairSpec ==
    /\ RSpec
    /\ \A c \in Clients : WF_rvars(Progress(c) /\ UNCHANGED last) /\ WF_rvars(Retry(c))

\* What the node may do to a call at any time.  A command that refuses ends like
\* one that is killed, and is no fault.
Fault == \E c \in Clients :
    Fail(c) \/ LockTimeout(c) \/ (Kill(c) /\ ~Refuse(c))

(***************************************************************************)
(* Once the node stops failing calls, an update that is retried gets done, *)
(* whatever became of its earlier attempts and whoever else writes: each   *)
(* retry reads the config again, and what is there already is not set.     *)
(***************************************************************************)
UpdatesSettle ==
    <>[][~Fault]_rvars =>
        \A c \in Clients :
            (last[c] # NoRequest /\ last[c].op = "update")
                ~> answer[c] \in {"ok", "notfound", "notinstalled"}
=============================================================================
