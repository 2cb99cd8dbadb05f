-------------------------------- MODULE Callers --------------------------------
(***************************************************************************)
(* What callers make of several calls in a row: NextID of                  *)
(* cluster/cluster.go and then Create, and Get, a change of the config it  *)
(* returned, and then Update with the whole of it.  Nothing ties the       *)
(* second call to the first: NextID reserves nothing, and Update does not  *)
(* look at the Digest that Get has put into the config.                    *)
(***************************************************************************)
EXTENDS GuestCommands

CONSTANT Wishes   \* what callers create guests with
ASSUME WishesAssumption == Wishes \subseteq Options

VARIABLES
    named,   \* per client: the id that NextID has named, if any
    copy,    \* per client: the update that its last Get is to become, if any
    \* history
    edited,  \* per client: the options the caller itself has changed in its copy
    stale,   \* per client: the options others have changed since its Get and
             \*   until its Update reads the config
    maker    \* per id: the client whose create has made the guest

callerVars == <<named, copy, edited>>
cVars == <<vars, callerVars, stale, maker>>

Free == {id \in Ids : guests[id] = NoGuest}

\* Without output, in a dry run say, NextID fails: such a caller brings its own id.
NextID(c) ==
    /\ pc[c] = "idle" /\ c \notin Dry
    /\ \E id \in Free :
          /\ \A other \in Free : id <= other
          /\ named' = [named EXCEPT ![c] = {id}]
    /\ UNCHANGED <<vars, copy, edited>>

CreateNamed(c) ==
    /\ calls < MaxCalls /\ calls' = calls + 1
    /\ \E id \in IF c \in Dry THEN Ids ELSE named[c], kind \in Kinds, options \in Wishes :
          Begin(c, [op |-> "create", id |-> id, kind |-> kind, desired |-> options])
    /\ named' = [named EXCEPT ![c] = {}]
    /\ UNCHANGED <<copy, edited>>

\* Get, of qemu and of lxc.  Its config's options are what Update will be given.
Get(c) ==
    /\ pc[c] = "idle" /\ copy[c] = NoRequest
    /\ \E id \in Ids \ Free :
          copy' = [copy EXCEPT ![c] = [op |-> "update", id |-> id, kind |-> guests[id].kind,
                                       desired |-> guests[id].options]]
    /\ edited' = [edited EXCEPT ![c] = {}]
    /\ UNCHANGED <<vars, named>>

Change(c) ==
    /\ pc[c] = "idle" /\ copy[c] # NoRequest /\ edited[c] = {}
    /\ \E k \in Keys, w \in Values :
          /\ copy[c].desired[k] # w
          /\ copy' = [copy EXCEPT ![c].desired[k] = w]
          /\ edited' = [edited EXCEPT ![c] = {k}]
    /\ UNCHANGED <<vars, named>>

UpdateCopy(c) ==
    /\ calls < MaxCalls /\ calls' = calls + 1
    /\ copy[c] # NoRequest
    /\ Begin(c, copy[c])
    /\ copy' = [copy EXCEPT ![c] = NoRequest]
    /\ UNCHANGED <<named, edited>>

CallDelete(c) ==
    /\ calls < MaxCalls /\ calls' = calls + 1
    /\ \E id \in Ids, kind \in Kinds :
          Begin(c, [op |-> "delete", id |-> id, kind |-> kind, desired |-> NoOptions])
    /\ UNCHANGED callerVars

\* The options of a guest that the step changes.
Changed(id) ==
    IF guests[id] = NoGuest \/ guests'[id] = NoGuest
    THEN IF guests'[id] = guests[id] THEN {} ELSE Keys
    ELSE {k \in Keys : guests'[id].options[k] # guests[id].options[k]}

Remember ==
    /\ stale' = [c \in Clients |->
          CASE copy[c] # NoRequest -> stale[c] \cup Changed(copy[c].id)
            [] copy[c] = NoRequest /\ pc[c] = "read" -> stale[c] \cup Changed(job[c].id)
            [] copy[c] = NoRequest /\ pc[c] = "idle" -> {}
            [] OTHER -> stale[c]]
    /\ maker' = [id \in Ids |->
          IF guests'[id] = NoGuest THEN Nobody
          ELSE IF guests[id] # NoGuest THEN maker[id]
          ELSE CHOOSE c \in Clients : written'[c] /\ ~written[c]]

CInit ==
    /\ Init
    /\ named = [c \in Clients |-> {}]
    /\ copy = [c \in Clients |-> NoRequest]
    /\ edited = [c \in Clients |-> {}]
    /\ stale = [c \in Clients |-> {}]
    /\ maker = [id \in Ids |-> Nobody]

CNext ==
    /\ \/ Edit /\ UNCHANGED callerVars
       \/ \E c \in Clients :
             \/ NextID(c) \/ CreateNamed(c) \/ CallDelete(c)
             \/ Get(c) \/ Change(c) \/ UpdateCopy(c)
             \/ Progress(c) /\ UNCHANGED callerVars
             \/ Kill(c) /\ UNCHANGED callerVars
    /\ Remember

CSpec == CInit /\ [][CNext]_cVars
-----------------------------------------------------------------------------
(* What is checked.                                                        *)

(***************************************************************************)
(* Two callers may be named the same id, but one of them at most is told   *)
(* that its Create succeeded, and the guest is then its own: the other's   *)
(* qm create is refused, with an error.                                    *)
(***************************************************************************)
OwnGuest(c) == maker[job[c].id] = c /\ guests[job[c].id].options = job[c].desired
CreatedOnce ==
    [][\A c \in Clients \ Dry :
          job[c] # NoRequest /\ job[c].op = "create" /\ pc'[c] = "idle" /\ answer'[c] = "ok"
          => OwnGuest(c)]_cVars

(***************************************************************************)
(* An Update that is given the config of an earlier Get changes no option  *)
(* but those its caller has changed in it and those that others changed    *)
(* after the Get and before Update read the config: the latter it puts     *)
(* back, for its digest is of its own read, and it never puts back what    *)
(* was changed after that.                                                 *)
(***************************************************************************)
PutsBackOnlyStale ==
    [][\A c \in Clients :
          pc[c] = "write" /\ pc'[c] = "exit" /\ job[c].op = "update"
          => Changed(job[c].id) \subseteq edited[c] \cup stale[c]]_cVars
=============================================================================
