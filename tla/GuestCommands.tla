---------------------------- MODULE GuestCommands ----------------------------
(***************************************************************************)
(* Create, Update and Delete of qemu/qemu.go and lxc/lxc.go, and the       *)
(* commandRunner of exec.go that runs their qm and pct commands.  Several  *)
(* callers work on the same node; what qm and pct do with the guest's lock *)
(* and config file is the part of PVE that these files rely on.            *)
(*                                                                         *)
(* A digest is the sha1 of the config file: here it is the config itself,  *)
(* so a digest matches exactly when the file is what it was.               *)
(***************************************************************************)
EXTENDS Integers

CONSTANTS
    Clients, Dry, Ids, Kinds, Keys, Values, NoGuest, NoRequest,
    Missing,    \* the kinds whose command is not installed on the node
    Deadlines,  \* the clients whose calls have a deadline (ctx or WithTimeout)
    Nobody,     \* no command holds the guest's lock
    MaxCalls,   \* bound: calls made in one behaviour
    MaxEdits    \* bound: changes made by others in one behaviour

ASSUME ClientsAssumption == Dry \subseteq Clients /\ Deadlines \subseteq Clients
ASSUME CommandBounds == MaxCalls \in Nat /\ MaxEdits \in Nat

Unset   == "unset"
Options == [Keys -> Values \cup {Unset}]
Guest   == [kind : Kinds, options : Options]
Config(kind, options) == [kind |-> kind, options |-> options]
NoOptions == [k \in Keys |-> Unset]
Request == [op : {"create", "update"}, id : Ids, kind : Kinds, desired : Options]
           \cup [op : {"delete"}, id : Ids, kind : Kinds, desired : {NoOptions}]

ASSUME AbsentAssumption ==
    /\ Nobody \notin Clients /\ Unset \notin Values
    /\ NoGuest \notin Guest /\ NoRequest \notin Request

VARIABLES
    guests,    \* per id: the guest's config file
    lock,      \* per lock file: the client whose command holds it
    pc,        \* per client: where its call is
    job,       \* per client: the call in progress
    digest,    \* per client: of the file its last Update read, its --digest
    changed,   \* per client: the options its command sets
    written,   \* per client: whether its command has written the guest
    answer,    \* per client: what its last call returned
    calls, edits

callVars == <<job, digest, changed>>
vars == <<guests, lock, pc, callVars, written, answer, calls, edits>>

\* The lock file of a guest: qemu-server/lock-<id>.conf and its like for pct.
LockFile(r) == <<r.kind, r.id>>
LockFiles == Kinds \X Ids

IsGuest(r) == guests[r.id] # NoGuest /\ guests[r.id].kind = r.kind

\* The options a command sets, over those the guest has.
Over(set, options) == [k \in Keys |-> IF set[k] = Unset THEN options[k] ELSE set[k]]

\* Faulty: the loop goes over the current keys; a map has "" for those it lacks.
FilterChangedByCurrent(current, desired) ==
    [k \in Keys |-> IF current[k] \in {Unset, desired[k]} THEN Unset
                    ELSE IF desired[k] = Unset THEN "" ELSE desired[k]]

(***************************************************************************)
(* filterChangedOptions: of the options desired, those that the current    *)
(* config does not have with the same value.  An option that is only in    *)
(* the current config is not in desired and is left alone.                 *)
(***************************************************************************)
FilterChanged(current, desired) ==
    [k \in Keys |-> IF desired[k] = current[k] THEN Unset ELSE desired[k]]

-----------------------------------------------------------------------------
(* The calls.                                                              *)

FirstStep == [create |-> "encode", update |-> "read", delete |-> "run"]

(***************************************************************************)
(* The caller's config may carry any Digest: encodeForWrite clears it.     *)
(* Create and Delete read nothing and their commands carry no digest.      *)
(***************************************************************************)
Begin(c, r) ==
    /\ pc[c] = "idle"
    /\ job' = [job EXCEPT ![c] = r]
    /\ changed' = [changed EXCEPT ![c] = r.desired]
    /\ pc' = [pc EXCEPT ![c] = FirstStep[r.op]]
    /\ written' = [written EXCEPT ![c] = FALSE]
    /\ answer' = [answer EXCEPT ![c] = "none"]
    /\ UNCHANGED <<guests, lock, digest, edits>>

Call(c) ==
    /\ calls < MaxCalls
    /\ calls' = calls + 1
    /\ \E r \in Request : Begin(c, r)

Return(c, ans) ==
    /\ answer' = [answer EXCEPT ![c] = ans]
    /\ pc' = [pc EXCEPT ![c] = "idle"]
    /\ job' = [job EXCEPT ![c] = NoRequest]
    /\ UNCHANGED <<digest, changed, written, calls, edits>>

Create(c) ==
    /\ pc[c] = "encode"
    /\ pc' = [pc EXCEPT ![c] = "run"]
    /\ UNCHANGED <<guests, lock, callVars, written, answer, calls, edits>>

\* Faulty: no digest is sent.
UpdateWithoutDigest(c) ==
    /\ pc[c] = "read"
    /\ LET r == job[c]
           diff == FilterChanged(guests[r.id].options, r.desired)
       IN  \/ ~IsGuest(r) /\ Return(c, "notfound")
           \/ IsGuest(r) /\ diff = NoOptions /\ Return(c, "ok")
           \/ /\ IsGuest(r) /\ diff # NoOptions
              /\ changed' = [changed EXCEPT ![c] = diff]
              /\ digest' = [digest EXCEPT ![c] = NoGuest]
              /\ pc' = [pc EXCEPT ![c] = "run"]
              /\ UNCHANGED <<job, written, answer, calls, edits>>
    /\ UNCHANGED <<guests, lock>>

\* Faulty: a digest that the caller's config carries is sent as it is.
UpdateTrustingDigest(c) ==
    /\ pc[c] = "read"
    /\ LET r == job[c]
           diff == FilterChanged(guests[r.id].options, r.desired)
       IN  \/ ~IsGuest(r) /\ Return(c, "notfound")
           \/ IsGuest(r) /\ diff = NoOptions /\ Return(c, "ok")
           \/ /\ IsGuest(r) /\ diff # NoOptions
              /\ changed' = [changed EXCEPT ![c] = diff]
              /\ digest' = [digest EXCEPT ![c] = IF @ = NoGuest THEN guests[r.id] ELSE @]
              /\ pc' = [pc EXCEPT ![c] = "run"]
              /\ UNCHANGED <<job, written, answer, calls, edits>>
    /\ UNCHANGED <<guests, lock>>

\* Faulty: all of the config is sent, and no digest.
UpdateAll(c) ==
    /\ pc[c] = "read"
    /\ \/ ~IsGuest(job[c]) /\ Return(c, "notfound")
       \/ IsGuest(job[c]) /\ pc' = [pc EXCEPT ![c] = "run"]
          /\ UNCHANGED <<callVars, written, answer, calls, edits>>
    /\ UNCHANGED <<guests, lock>>

(***************************************************************************)
(* Update reads the config file once: what it compares with and the digest *)
(* it sends are of the same bytes.  Nothing changed, no command.           *)
(***************************************************************************)
Update(c) ==
    /\ pc[c] = "read"
    /\ LET r == job[c]
           diff == FilterChanged(guests[r.id].options, r.desired)
       IN  \/ ~IsGuest(r) /\ Return(c, "notfound")
           \/ IsGuest(r) /\ diff = NoOptions /\ Return(c, "ok")
           \/ /\ IsGuest(r) /\ diff # NoOptions
              /\ changed' = [changed EXCEPT ![c] = diff]
              /\ digest' = [digest EXCEPT ![c] = guests[r.id]]
              /\ pc' = [pc EXCEPT ![c] = "run"]
              /\ UNCHANGED <<job, written, answer, calls, edits>>
    /\ UNCHANGED <<guests, lock>>

\* The file cannot be read, parsed or decoded, or the config cannot be encoded.
Fail(c) ==
    /\ pc[c] \in {"encode", "read"}
    /\ Return(c, "error")
    /\ UNCHANGED <<guests, lock>>

-----------------------------------------------------------------------------
(* commandRunner.Run.                                                      *)

\* Faulty: WithDryRun is not looked at.
RunRegardless(c) ==
    /\ pc[c] = "run"
    /\ \/ job[c].kind \in Missing /\ Return(c, "notinstalled")
       \/ /\ job[c].kind \notin Missing
          /\ pc' = [pc EXCEPT ![c] = "lock"]
          /\ UNCHANGED <<callVars, written, answer, calls, edits>>
    /\ UNCHANGED <<guests, lock>>

Run(c) ==
    /\ pc[c] = "run"
    /\ \/ c \in Dry /\ Return(c, "ok")
       \/ c \notin Dry /\ job[c].kind \in Missing /\ Return(c, "notinstalled")
       \/ /\ c \notin Dry /\ job[c].kind \notin Missing
          /\ pc' = [pc EXCEPT ![c] = "lock"]
          /\ UNCHANGED <<callVars, written, answer, calls, edits>>
    /\ UNCHANGED <<guests, lock>>

\* The locks as they are once c's command is gone.
Unlocked(c) == [f \in LockFiles |-> IF lock[f] = c THEN Nobody ELSE lock[f]]

\* The command's exit status 0.
Succeed(c) ==
    /\ pc[c] = "exit"
    /\ lock' = Unlocked(c)
    /\ Return(c, "ok")
    /\ UNCHANGED guests

\* A non-zero exit whose stderr has "can't lock file" is ErrLocked.
LockTimeout(c) ==
    /\ pc[c] = "lock"
    /\ lock[LockFile(job[c])] # Nobody
    /\ Return(c, "locked")
    /\ UNCHANGED <<guests, lock>>

\* The deadline passes: the command is killed, wherever it is.
Kill(c) ==
    /\ c \in Deadlines
    /\ pc[c] \in {"lock", "write", "exit"}
    /\ lock' = Unlocked(c)
    /\ Return(c, "error")
    /\ UNCHANGED guests

-----------------------------------------------------------------------------
(* The commands: qm and pct take the guest's lock, check, and write.       *)

TakeLock(c) ==
    /\ pc[c] = "lock"
    /\ lock[LockFile(job[c])] = Nobody
    /\ lock' = [lock EXCEPT ![LockFile(job[c])] = c]
    /\ pc' = [pc EXCEPT ![c] = "write"]
    /\ UNCHANGED <<guests, callVars, written, answer, calls, edits>>

\* Without a digest the command takes the file as it is.
Allowed(c) ==
    LET r == job[c]
    IN  \/ r.op = "create" /\ guests[r.id] = NoGuest
        \/ r.op = "update" /\ IsGuest(r) /\ digest[c] \in {NoGuest, guests[r.id]}
        \/ r.op = "delete" /\ IsGuest(r)

Write(c) ==
    /\ pc[c] = "write" /\ Allowed(c)
    /\ LET r == job[c]
       IN  \/ r.op = "create" /\ guests' = [guests EXCEPT ![r.id] = Config(r.kind, changed[c])]
           \/ r.op = "update" /\ guests' = [guests EXCEPT
                 ![r.id] = Config(r.kind, Over(changed[c], guests[r.id].options))]
           \/ r.op = "delete" /\ guests' = [guests EXCEPT ![r.id] = NoGuest]
    /\ written' = [written EXCEPT ![c] = TRUE]
    /\ pc' = [pc EXCEPT ![c] = "exit"]
    /\ UNCHANGED <<lock, callVars, answer, calls, edits>>

\* Faulty: the exit status is not looked at.
RefuseUnseen(c) ==
    /\ pc[c] = "write" /\ ~Allowed(c)
    /\ lock' = Unlocked(c)
    /\ Return(c, "ok")
    /\ UNCHANGED guests

\* The guest is there already, is gone, or is not what the digest is of.
Refuse(c) ==
    /\ pc[c] = "write" /\ ~Allowed(c)
    /\ lock' = Unlocked(c)
    /\ Return(c, "error")
    /\ UNCHANGED guests

\* Someone else sets or unsets an option, with the same lock.
Edit ==
    /\ edits < MaxEdits
    /\ edits' = edits + 1
    /\ \E id \in Ids, k \in Keys, w \in Values \cup {Unset} :
          /\ guests[id] # NoGuest /\ lock[<<guests[id].kind, id>>] = Nobody
          /\ guests' = [guests EXCEPT ![id] =
                Config(guests[id].kind, [guests[id].options EXCEPT ![k] = w])]
    /\ UNCHANGED <<lock, pc, callVars, written, answer, calls>>

-----------------------------------------------------------------------------

Init ==
    /\ guests \in [Ids -> Guest \cup {NoGuest}]
    /\ lock = [f \in LockFiles |-> Nobody]
    /\ pc = [c \in Clients |-> "idle"]
    /\ job = [c \in Clients |-> NoRequest]
    /\ digest = [c \in Clients |-> NoGuest]
    /\ changed = [c \in Clients |-> NoOptions]
    /\ written = [c \in Clients |-> FALSE]
    /\ answer = [c \in Clients |-> "none"]
    /\ calls = 0 /\ edits = 0

Progress(c) ==
    \/ Create(c) \/ Update(c) \/ Fail(c) \/ Run(c) \/ TakeLock(c)
    \/ LockTimeout(c) \/ Write(c) \/ Refuse(c) \/ Succeed(c)

Next == Edit \/ \E c \in Clients : Call(c) \/ Progress(c) \/ Kill(c)

Spec == Init /\ [][Next]_vars

-----------------------------------------------------------------------------
(* What is checked.                                                        *)

PCs == {"idle", "encode", "read", "run", "lock", "write", "exit"}

\* The variables have the values they are declared to have.
TypeOK ==
    /\ guests \in [Ids -> Guest \cup {NoGuest}]
    /\ lock \in [LockFiles -> Clients \cup {Nobody}]
    /\ pc \in [Clients -> PCs]
    /\ job \in [Clients -> Request \cup {NoRequest}]
    /\ digest \in [Clients -> Guest \cup {NoGuest}]
    /\ changed \in [Clients -> Options]
    /\ written \in [Clients -> BOOLEAN]
    /\ answer \in [Clients -> {"none", "ok", "notfound", "locked", "notinstalled", "error"}]
    /\ calls \in 0..MaxCalls /\ edits \in 0..MaxEdits

(***************************************************************************)
(* What a call in progress rests on.  A command that is about to run or    *)
(* running for an Update sets what differs between what the caller wants   *)
(* and the very file its digest is of, and there is something to set.  One *)
(* that writes, or has written, holds the lock; before that it has written *)
(* nothing.  No dry run gets as far as a lock.                             *)
(***************************************************************************)
CommandMatchesRead ==
    \A c \in Clients :
        LET r == job[c]
        IN  /\ r = NoRequest <=> pc[c] = "idle"
            /\ pc[c] = "encode" => r.op = "create"
            /\ pc[c] = "read" => r.op = "update"
            /\ pc[c] # "idle" /\ r.op = "update" /\ pc[c] \in {"run", "lock", "write"} =>
                  /\ digest[c] # NoGuest /\ digest[c].kind = r.kind
                  /\ changed[c] = FilterChanged(digest[c].options, r.desired)
                  /\ changed[c] # NoOptions
            /\ pc[c] # "idle" /\ r.op = "create" => changed[c] = r.desired
            /\ pc[c] \in {"write", "exit"} => lock[LockFile(r)] = c
            /\ pc[c] \in {"lock", "write", "exit"} => c \notin Dry
            /\ pc[c] # "idle" => (written[c] <=> pc[c] = "exit")

\* The inductive invariant.
IInv == TypeOK /\ CommandMatchesRead

(***************************************************************************)
(* Each call takes effect at once, between its request and its answer, on  *)
(* the guest as it then is, or not at all, and its answer says no more     *)
(* than what is so: in particular an update never undoes what others did   *)
(* after it read the config, "locked" is never said of a change that was   *)
(* made, and a dry run changes nothing.                                    *)
(***************************************************************************)
Store == INSTANCE GuestStore WITH asked <- job, applied <- written
MeetsStore == Store!Spec
=============================================================================
