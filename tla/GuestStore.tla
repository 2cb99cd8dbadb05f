------------------------------ MODULE GuestStore ------------------------------
(***************************************************************************)
(* What Create, Update and Delete promise a caller that shares a node's    *)
(* guests with other callers and with the PVE tools: each call takes       *)
(* effect at once, at one moment between its request and its answer, or    *)
(* not at all, and its answer says what may be concluded of that.          *)
(***************************************************************************)
EXTENDS Integers

CONSTANTS
    Clients,   \* the callers
    Dry,       \* those of them whose Client was made WithDryRun
    Ids,       \* VM and container ids
    Kinds,     \* "qemu" and "lxc"
    Keys,      \* config options
    Values,    \* what an option may be set to
    NoGuest,   \* no config file
    NoRequest  \* no call in progress

Unset == "unset"
Options == [Keys -> Values \cup {Unset}]
Guest   == [kind : Kinds, options : Options]
Config(kind, options) == [kind |-> kind, options |-> options]
Request == [op : {"create", "update"}, id : Ids, kind : Kinds, desired : Options]
           \cup [op : {"delete"}, id : Ids, kind : Kinds,
                 desired : {[k \in Keys |-> Unset]}]

VARIABLES guests, asked, applied, answer

vars == <<guests, asked, applied, answer>>

\* The options of a config that leaves some of them unset: those stay as they
\* are.  A new guest has nothing else.
Over(desired, options) ==
    [k \in Keys |-> IF desired[k] = Unset THEN options[k] ELSE desired[k]]

IsGuest(r) == guests[r.id] # NoGuest /\ guests[r.id].kind = r.kind
Has(r) == IsGuest(r) /\ Over(r.desired, guests[r.id].options) = guests[r.id].options

Init ==
    /\ guests \in [Ids -> Guest \cup {NoGuest}]
    /\ asked = [c \in Clients |-> NoRequest]
    /\ applied = [c \in Clients |-> FALSE]
    /\ answer = [c \in Clients |-> "none"]

Ask(c) ==
    /\ asked[c] = NoRequest
    /\ \E r \in Request : asked' = [asked EXCEPT ![c] = r]
    /\ applied' = [applied EXCEPT ![c] = FALSE]
    /\ answer' = [answer EXCEPT ![c] = "none"]
    /\ UNCHANGED guests

\* The effect of r on the guest as it is now, not as the caller knew it.
Effect(r) ==
    \/ /\ r.op = "create" /\ guests[r.id] = NoGuest
       /\ guests' = [guests EXCEPT ![r.id] = Config(r.kind, r.desired)]
    \/ /\ r.op = "update" /\ IsGuest(r) /\ ~Has(r)
       /\ guests' = [guests EXCEPT
             ![r.id] = Config(r.kind, Over(r.desired, guests[r.id].options))]
    \/ /\ r.op = "delete" /\ IsGuest(r)
       /\ guests' = [guests EXCEPT ![r.id] = NoGuest]

\* A dry run writes nothing.  Nothing is written twice.
Apply(c) ==
    /\ asked[c] # NoRequest /\ ~applied[c] /\ c \notin Dry
    /\ Effect(asked[c])
    /\ applied' = [applied EXCEPT ![c] = TRUE]
    /\ UNCHANGED <<asked, answer>>

(***************************************************************************)
(* A nil error: the call was applied, or the guest has all that an update  *)
(* asks for.  "notfound", "locked" and "notinstalled": it was not applied. *)
(* Any other error leaves that open.                                       *)
(***************************************************************************)
Justified(c, ans) ==
    LET r == asked[c]
    IN  \/ ans = "ok" /\ (applied[c] \/ c \in Dry \/ (r.op = "update" /\ Has(r)))
        \/ ans = "notfound" /\ ~applied[c] /\ r.op = "update" /\ ~IsGuest(r)
        \/ ans \in {"locked", "notinstalled"} /\ ~applied[c]
        \/ ans = "error"

Answer(c) ==
    /\ asked[c] # NoRequest
    /\ \E ans \in {"ok", "notfound", "locked", "notinstalled", "error"} :
          /\ Justified(c, ans)
          /\ answer' = [answer EXCEPT ![c] = ans]
    /\ asked' = [asked EXCEPT ![c] = NoRequest]
    /\ UNCHANGED <<guests, applied>>

\* Someone else's change: an option set or unset by qm, pct or the web UI.
Edit ==
    /\ \E id \in Ids, k \in Keys, w \in Values \cup {Unset} :
          /\ guests[id] # NoGuest
          /\ guests' = [guests EXCEPT ![id] =
                Config(guests[id].kind, [guests[id].options EXCEPT ![k] = w])]
    /\ UNCHANGED <<asked, applied, answer>>

Next == Edit \/ \E c \in Clients : Ask(c) \/ Apply(c) \/ Answer(c)

Spec == Init /\ [][Next]_vars
=============================================================================
