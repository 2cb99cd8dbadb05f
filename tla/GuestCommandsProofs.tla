-------------------------- MODULE GuestCommandsProofs --------------------------
(***************************************************************************)
(* For every set of callers, guests and options, and whatever the bounds:  *)
(* what is in a call's variables goes together, and the calls implement    *)
(* GuestStore; what their callers make of several calls keeps to it too, a *)
(* created guest is its caller's, and an update of a copy puts back what   *)
(* is stale in the copy and no more.                                       *)
(***************************************************************************)
EXTENDS Callers, GuestRetry, TLAPS

USE ClientsAssumption, AbsentAssumption, CommandBounds

\* What one client's call in progress has to satisfy: CommandMatchesRead of c.
CallOK(c) ==
    LET r == job[c]
    IN  /\ r = NoRequest <=> pc[c] = "idle"
        /\ pc[c] = "encode" => r.op = "create"
        /\ pc[c] = "read" => r.op = "update"
        /\ pc[c] # "idle" /\ r.op = "update" /\ pc[c] \in {"run", "lock", "write"} =>
              /\ digest[c] # NoGuest /\ digest[c].kind = r.kind
              /\ changed[c] = FilterChanged(digest[c].options, r.desired)
              /\ changed[c] # NoOptions
        /\ pc[c] # "idle" /\ r.op = "create" => changed[c] = r.desired
        /\ pc[c] \in {"write", "exit"} => lock[LockFile(r)] = c
        /\ pc[c] \in {"lock", "write", "exit"} => c \notin Dry
        /\ pc[c] # "idle" => (written[c] <=> pc[c] = "exit")

LEMMA CallsOK == CommandMatchesRead <=> \A c \in Clients : CallOK(c)
  BY DEF CommandMatchesRead, CallOK

\* The diff is over the options, and so is the config a command leaves.
LEMMA FilterType ==
    ASSUME NEW a \in Options, NEW b \in Options
    PROVE  FilterChanged(a, b) \in Options /\ Over(a, b) \in Options
  BY DEF FilterChanged, Over, Options

LEMMA ConfigType ==
    ASSUME NEW kind \in Kinds, NEW o \in Options
    PROVE  Config(kind, o) \in Guest
  BY DEF Config, Guest

LEMMA RequestType ==
    ASSUME NEW r \in Request
    PROVE  /\ r.op \in {"create", "update", "delete"}
           /\ r.id \in Ids /\ r.kind \in Kinds /\ r.desired \in Options
           /\ LockFile(r) \in LockFiles
  BY DEF Request, LockFile, LockFiles, NoOptions, Options

LEMMA JobType ==
    ASSUME TypeOK, CommandMatchesRead, NEW c \in Clients, pc[c] # "idle"
    PROVE  job[c] \in Request
  BY CallsOK DEF TypeOK, CallOK

-----------------------------------------------------------------------------
(* Types.                                                                  *)

LEMMA UnlockedType ==
    ASSUME TypeOK, NEW c
    PROVE  Unlocked(c) \in [LockFiles -> Clients \cup {Nobody}]
  BY DEF TypeOK, Unlocked

LEMMA ReturnType ==
    ASSUME TypeOK, NEW c \in Clients, Return(c, "ok") \/ Return(c, "notfound")
             \/ Return(c, "locked") \/ Return(c, "notinstalled") \/ Return(c, "error"),
           guests' = guests, lock' \in [LockFiles -> Clients \cup {Nobody}]
    PROVE  TypeOK'
  BY DEF TypeOK, Return, PCs

LEMMA BeginType ==
    ASSUME TypeOK, NEW c \in Clients, NEW r \in Request, Begin(c, r), calls' \in 0..MaxCalls
    PROVE  TypeOK'
<1>1. r.desired \in Options
  BY RequestType
<1>2. pc' \in [Clients -> PCs]
  BY RequestType DEF Begin, TypeOK, PCs, FirstStep
<1> QED
  BY <1>1, <1>2 DEF Begin, TypeOK

LEMMA CallType ==
    ASSUME TypeOK, NEW c \in Clients, Call(c)
    PROVE  TypeOK'
<1>1. PICK r \in Request : Begin(c, r)
  BY DEF Call
<1>2. calls' \in 0..MaxCalls
  BY DEF Call, TypeOK
<1> QED
  BY <1>1, <1>2, BeginType

LEMMA UpdateType ==
    ASSUME TypeOK, CommandMatchesRead, NEW c \in Clients, Update(c)
    PROVE  TypeOK'
<1> DEFINE r == job[c]
           diff == FilterChanged(guests[r.id].options, r.desired)
<1>1. CASE Return(c, "notfound") \/ Return(c, "ok")
  BY <1>1, ReturnType DEF Update, TypeOK
<1>2. CASE IsGuest(r) /\ changed' = [changed EXCEPT ![c] = diff]
           /\ digest' = [digest EXCEPT ![c] = guests[r.id]]
           /\ pc' = [pc EXCEPT ![c] = "run"]
           /\ UNCHANGED <<job, written, answer, calls, edits>>
  <2>1. r \in Request
    BY JobType DEF Update
  <2>2. guests[r.id] \in Guest
    BY <1>2, <2>1, RequestType DEF TypeOK, IsGuest
  <2>3. guests[r.id].options \in Options /\ r.desired \in Options
    BY <2>1, <2>2, RequestType DEF Guest
  <2>4. diff \in Options
    BY <2>3, FilterType
  <2> QED
    BY <1>2, <2>2, <2>4 DEF TypeOK, Update, PCs
<1> QED
  BY <1>1, <1>2 DEF Update

LEMMA WriteType ==
    ASSUME TypeOK, CommandMatchesRead, NEW c \in Clients, Write(c)
    PROVE  TypeOK'
<1> DEFINE r == job[c]
<1>1. r \in Request
  BY JobType DEF Write
<1>2. r.id \in Ids /\ r.kind \in Kinds /\ r.op \in {"create", "update", "delete"}
  BY <1>1, RequestType
<1>3. changed[c] \in Options
  BY DEF TypeOK
<1>4. guests' \in [Ids -> Guest \cup {NoGuest}]
  <2>1. CASE r.op = "create"
    BY <1>2, <1>3, <2>1, ConfigType DEF Write, TypeOK
  <2>2. CASE r.op = "update"
    <3>1. guests[r.id] \in Guest
      BY <1>2, <2>2 DEF Write, Allowed, IsGuest, TypeOK
    <3>2. Over(changed[c], guests[r.id].options) \in Options
      BY <1>3, <3>1, FilterType DEF Guest
    <3> QED
      BY <1>2, <2>2, <3>2, ConfigType DEF Write, TypeOK
  <2>3. CASE r.op = "delete"
    BY <1>2, <2>3 DEF Write, TypeOK
  <2> QED
    BY <1>2, <2>1, <2>2, <2>3
<1> QED
  BY <1>4 DEF Write, TypeOK, callVars, PCs

LEMMA EditType ==
    ASSUME TypeOK, Edit
    PROVE  TypeOK'
<1> PICK id \in Ids, k \in Keys, w \in Values \cup {Unset} :
        /\ guests[id] # NoGuest
        /\ guests' = [guests EXCEPT ![id] =
              Config(guests[id].kind, [guests[id].options EXCEPT ![k] = w])]
  BY DEF Edit
<1>1. guests[id] \in Guest
  BY DEF TypeOK
<1>2. guests[id].kind \in Kinds /\ guests[id].options \in Options
  BY <1>1 DEF Guest
<1>3. [guests[id].options EXCEPT ![k] = w] \in Options
  BY <1>2 DEF Options
<1>4. guests' \in [Ids -> Guest \cup {NoGuest}]
  BY <1>2, <1>3, ConfigType DEF TypeOK
<1>5. edits' \in 0..MaxEdits
  BY DEF Edit, TypeOK
<1> QED
  BY <1>4, <1>5 DEF Edit, TypeOK, callVars

LEMMA NextType ==
    ASSUME TypeOK, CommandMatchesRead, [Next]_vars
    PROVE  TypeOK'
<1>1. ASSUME NEW c \in Clients, Create(c) \/ TakeLock(c) PROVE TypeOK'
  <2>1. job[c] \in Request
    BY <1>1, JobType DEF Create, TakeLock
  <2> QED
    BY <1>1, <2>1, RequestType DEF Create, TakeLock, TypeOK, callVars, PCs
<1>2. ASSUME NEW c \in Clients, Fail(c) \/ LockTimeout(c) PROVE TypeOK'
  BY <1>2, ReturnType DEF Fail, LockTimeout, TypeOK
<1>3. ASSUME NEW c \in Clients, Succeed(c) \/ Refuse(c) \/ Kill(c) PROVE TypeOK'
  BY <1>3, ReturnType, UnlockedType DEF Succeed, Refuse, Kill
<1>4. ASSUME NEW c \in Clients, Run(c) PROVE TypeOK'
  <2>1. CASE Return(c, "ok") \/ Return(c, "notinstalled")
    BY <1>4, <2>1, ReturnType DEF Run, TypeOK
  <2>2. CASE pc' = [pc EXCEPT ![c] = "lock"]
             /\ UNCHANGED <<callVars, written, answer, calls, edits>>
    BY <1>4, <2>2 DEF Run, TypeOK, callVars, PCs
  <2> QED
    BY <1>4, <2>1, <2>2 DEF Run
<1>5. CASE UNCHANGED vars
  BY <1>5 DEF vars, callVars, TypeOK
<1> QED
  BY <1>1, <1>2, <1>3, <1>4, <1>5, CallType, UpdateType, WriteType, EditType
     DEF Next, Progress

-----------------------------------------------------------------------------
(* Calls.                                                                  *)

\* What c does leaves the call of another client as it is.
OthersKept(c) ==
    \A d \in Clients \ {c} :
        /\ pc'[d] = pc[d] /\ job'[d] = job[d] /\ digest'[d] = digest[d]
        /\ changed'[d] = changed[d] /\ written'[d] = written[d]
        /\ \A f \in LockFiles : lock[f] = d => lock'[f] = d

LEMMA Others ==
    ASSUME TypeOK, CommandMatchesRead, NEW c \in Clients, OthersKept(c), CallOK(c)'
    PROVE  CommandMatchesRead'
<1> SUFFICES ASSUME NEW d \in Clients, d # c PROVE CallOK(d)'
  BY CallsOK DEF CommandMatchesRead, CallOK
<1>1. CallOK(d)
  BY CallsOK
<1>2. pc[d] # "idle" => LockFile(job[d]) \in LockFiles
  BY JobType, RequestType
<1> QED
  BY <1>1, <1>2 DEF CallOK, OthersKept, LockFile

LEMMA ReturnKeeps ==
    ASSUME TypeOK, CommandMatchesRead, NEW c \in Clients, NEW ans, Return(c, ans),
           lock' = lock \/ lock' = Unlocked(c)
    PROVE  CommandMatchesRead'
<1>1. CallOK(c)'
  BY DEF Return, CallOK, TypeOK
<1>2. OthersKept(c)
  BY DEF Return, OthersKept, TypeOK, Unlocked
<1> QED
  BY <1>1, <1>2, Others

LEMMA BeginKeeps ==
    ASSUME TypeOK, CommandMatchesRead, NEW c \in Clients, NEW r \in Request, Begin(c, r)
    PROVE  CommandMatchesRead'
<1>1. CallOK(c)'
  <2>1. job'[c] = r /\ changed'[c] = r.desired /\ ~written'[c]
    BY DEF Begin, TypeOK
  <2>2. /\ pc'[c] \in {"encode", "read", "run"}
        /\ r.op = "update" <=> pc'[c] = "read"
        /\ r.op = "create" <=> pc'[c] = "encode"
    BY RequestType DEF Begin, TypeOK, FirstStep
  <2> QED
    BY <2>1, <2>2 DEF CallOK
<1>2. OthersKept(c)
  BY DEF Begin, OthersKept, TypeOK
<1> QED
  BY <1>1, <1>2, Others

\* The one step that brings about what a command rests on.
LEMMA UpdateKeeps ==
    ASSUME TypeOK, CommandMatchesRead, NEW c \in Clients, Update(c)
    PROVE  CommandMatchesRead'
<1> DEFINE r == job[c]
           diff == FilterChanged(guests[r.id].options, r.desired)
<1>1. CASE Return(c, "notfound") \/ Return(c, "ok")
  BY <1>1, ReturnKeeps DEF Update
<1>2. CASE /\ IsGuest(r) /\ diff # NoOptions
           /\ changed' = [changed EXCEPT ![c] = diff]
           /\ digest' = [digest EXCEPT ![c] = guests[r.id]]
           /\ pc' = [pc EXCEPT ![c] = "run"]
           /\ UNCHANGED <<job, written, answer, calls, edits>>
  <2>1. CallOK(c)
    BY CallsOK
  <2>2. r \in Request /\ ~written[c] /\ pc'[c] = "run" /\ r.op # "create"
    BY <1>2, <2>1, JobType DEF Update, CallOK, TypeOK
  <2>3. changed'[c] = diff /\ digest'[c] = guests[r.id] /\ job'[c] = r
    BY <1>2 DEF TypeOK
  <2>4. CallOK(c)'
    BY <1>2, <2>2, <2>3 DEF CallOK, IsGuest
  <2>5. OthersKept(c)
    BY <1>2 DEF Update, OthersKept, TypeOK
  <2> QED
    BY <2>4, <2>5, Others
<1> QED
  BY <1>1, <1>2 DEF Update

LEMMA StepKeeps ==
    ASSUME TypeOK, CommandMatchesRead, NEW c \in Clients,
           Create(c) \/ TakeLock(c) \/ Write(c)
           \/ (/\ pc[c] = "run" /\ c \notin Dry
               /\ pc' = [pc EXCEPT ![c] = "lock"]
               /\ UNCHANGED <<callVars, written, answer, calls, edits>>
               /\ UNCHANGED <<guests, lock>>)
    PROVE  CommandMatchesRead'
<1>1. CallOK(c) /\ LockFile(job[c]) \in LockFiles
  BY CallsOK, JobType, RequestType DEF Create, TakeLock, Write
<1>2. CallOK(c)'
  <2>1. /\ job'[c] = job[c] /\ digest'[c] = digest[c] /\ changed'[c] = changed[c]
        /\ LockFile(job'[c]) = LockFile(job[c])
    BY DEF Create, TakeLock, Write, callVars
  <2>2. CASE Create(c)
    BY <1>1, <2>1, <2>2 DEF CallOK, Create, TypeOK
  <2>3. CASE TakeLock(c)
    <3>1. lock'[LockFile(job[c])] = c /\ pc'[c] = "write" /\ written'[c] = written[c]
      BY <1>1, <2>3 DEF TakeLock, TypeOK
    <3> QED
      BY <1>1, <2>1, <2>3, <3>1 DEF CallOK, TakeLock
  <2>4. CASE Write(c)
    <3>1. lock' = lock /\ pc'[c] = "exit" /\ written'[c] = TRUE
      BY <2>4 DEF Write, TypeOK
    <3> QED
      BY <1>1, <2>1, <2>4, <3>1 DEF CallOK, Write
  <2>5. CASE pc[c] = "run" /\ c \notin Dry /\ pc' = [pc EXCEPT ![c] = "lock"]
             /\ UNCHANGED <<callVars, written, answer, calls, edits>>
             /\ UNCHANGED <<guests, lock>>
    BY <1>1, <2>1, <2>5 DEF CallOK, TypeOK
  <2> QED
    BY <2>2, <2>3, <2>4, <2>5
<1>3. OthersKept(c)
  BY <1>1 DEF OthersKept, Create, TakeLock, Write, TypeOK, callVars
<1> QED
  BY <1>2, <1>3, Others

LEMMA NextKeeps ==
    ASSUME TypeOK, CommandMatchesRead, [Next]_vars
    PROVE  CommandMatchesRead'
<1>1. ASSUME NEW c \in Clients, Fail(c) \/ LockTimeout(c) \/ Succeed(c) \/ Refuse(c) \/ Kill(c)
      PROVE  CommandMatchesRead'
  BY <1>1, ReturnKeeps DEF Fail, LockTimeout, Succeed, Refuse, Kill
<1>2. ASSUME NEW c \in Clients, Run(c) PROVE CommandMatchesRead'
  BY <1>2, ReturnKeeps, StepKeeps DEF Run
<1>3. CASE Edit \/ UNCHANGED vars
  BY <1>3 DEF Edit, vars, callVars, CommandMatchesRead, LockFile
<1> QED
  BY <1>1, <1>2, <1>3, BeginKeeps, UpdateKeeps, StepKeeps DEF Next, Call, Progress

LEMMA InitIInv == Init => IInv
<1> SUFFICES ASSUME Init PROVE IInv
  OBVIOUS
<1>1. TypeOK
  BY DEF Init, TypeOK, PCs, NoOptions, Options
<1>2. CommandMatchesRead
  BY DEF Init, CommandMatchesRead
<1> QED
  BY <1>1, <1>2 DEF IInv

LEMMA Invariance == Spec => []IInv
<1>1. IInv /\ [Next]_vars => IInv'
  BY NextType, NextKeeps DEF IInv
<1> QED
  BY <1>1, InitIInv, PTL DEF Spec

\* The variables have their types, whatever the number of callers and guests.
THEOREM CommandTypes == Spec => []TypeOK
<1>1. IInv => TypeOK
  BY DEF IInv
<1> QED
  BY <1>1, Invariance, PTL

\* A running update sets the diff to the very config its digest is of.
THEOREM CommandsMatch == Spec => []CommandMatchesRead
<1>1. IInv => CommandMatchesRead
  BY DEF IInv
<1> QED
  BY <1>1, Invariance, PTL

-----------------------------------------------------------------------------
(* The refinement: what was asked is job, what was applied is written.     *)

\* The abstract module has the same operators of its own.
LEMMA SameOperators ==
    /\ Store!Request = Request /\ Store!Guest = Guest
    /\ \A set, options : Store!Over(set, options) = Over(set, options)
    /\ \A kind, options : Store!Config(kind, options) = Config(kind, options)
    /\ \A r : Store!IsGuest(r) <=> IsGuest(r)
  BY DEF Store!Request, Request, Store!Guest, Guest, Store!Options, Options,
         Store!Unset, Unset, NoOptions, Store!Over, Over, Store!Config, Config,
         Store!IsGuest, IsGuest

(***************************************************************************)
(* The diff says it all: over a config, what differs from it is the same   *)
(* as all that is desired, and it is empty when the config has that.       *)
(***************************************************************************)
LEMMA DiffSuffices ==
    ASSUME NEW current \in Options, NEW desired \in Options
    PROVE  /\ Over(FilterChanged(current, desired), current) = Over(desired, current)
           /\ (FilterChanged(current, desired) = NoOptions) <=>
                 (Over(desired, current) = current)
<1>1. ASSUME NEW k \in Keys
      PROVE  /\ Over(FilterChanged(current, desired), current)[k] = Over(desired, current)[k]
             /\ (FilterChanged(current, desired)[k] = Unset) <=>
                   (Over(desired, current)[k] = current[k])
  BY <1>1 DEF Over, FilterChanged
<1>2. Over(FilterChanged(current, desired), current) = Over(desired, current)
  BY <1>1 DEF Over
<1>3. FilterChanged(current, desired) = NoOptions <=>
        \A k \in Keys : FilterChanged(current, desired)[k] = Unset
  BY DEF FilterChanged, NoOptions
<1>4. Over(desired, current) = current <=>
        \A k \in Keys : Over(desired, current)[k] = current[k]
  BY DEF Over, Options
<1> QED
  BY <1>1, <1>2, <1>3, <1>4

LEMMA ReturnRefines ==
    ASSUME TypeOK, CommandMatchesRead, NEW c \in Clients, pc[c] # "idle",
           NEW ans \in {"ok", "notfound", "locked", "notinstalled", "error"},
           Return(c, ans), Store!Justified(c, ans), guests' = guests
    PROVE  Store!Next
<1>1. job[c] # NoRequest
  BY CallsOK DEF CallOK
<1>2. Store!Answer(c)
  BY <1>1 DEF Store!Answer, Return
<1> QED
  BY <1>2 DEF Store!Next

LEMMA WriteRefines ==
    ASSUME TypeOK, CommandMatchesRead, NEW c \in Clients, Write(c)
    PROVE  Store!Next
<1> DEFINE r == job[c]
<1>1. CallOK(c) /\ r \in Request /\ r # NoRequest /\ ~written[c] /\ c \notin Dry
  BY CallsOK, JobType DEF Write, CallOK, TypeOK
<1>2. r.id \in Ids /\ r.desired \in Options
  BY <1>1, RequestType
<1>3. Store!Effect(r)
  <2>1. CASE r.op = "create"
    <3>1. changed[c] = r.desired
      BY <1>1, <2>1 DEF CallOK, Write
    <3> QED
      BY <2>1, <3>1, SameOperators DEF Write, Allowed, Store!Effect
  <2>2. CASE r.op = "update"
    <3>1. IsGuest(r) /\ digest[c] = guests[r.id] /\ changed[c] # NoOptions
          /\ changed[c] = FilterChanged(digest[c].options, r.desired)
      BY <1>1, <2>2 DEF CallOK, Write, Allowed
    <3>2. guests[r.id].options \in Options
      BY <1>2, <3>1 DEF IsGuest, TypeOK, Guest
    <3>3. Over(changed[c], guests[r.id].options) = Over(r.desired, guests[r.id].options)
          /\ Over(r.desired, guests[r.id].options) # guests[r.id].options
      BY <1>2, <3>1, <3>2, DiffSuffices
    <3>4. guests' = [guests EXCEPT
             ![r.id] = Config(r.kind, Over(changed[c], guests[r.id].options))]
      BY <2>2 DEF Write
    <3> QED
      BY <2>2, <3>1, <3>3, <3>4, SameOperators DEF Store!Effect, Store!Has
  <2>3. CASE r.op = "delete"
    BY <2>3, SameOperators DEF Write, Allowed, Store!Effect
  <2> QED
    BY <1>1, <2>1, <2>2, <2>3, RequestType
<1>4. Store!Apply(c)
  BY <1>1, <1>3 DEF Store!Apply, Write, callVars
<1> QED
  BY <1>4 DEF Store!Next

LEMMA UpdateRefines ==
    ASSUME TypeOK, CommandMatchesRead, NEW c \in Clients, Update(c)
    PROVE  Store!Next \/ UNCHANGED Store!vars
<1> DEFINE r == job[c]
           diff == FilterChanged(guests[r.id].options, r.desired)
<1>1. CallOK(c) /\ r \in Request /\ pc[c] # "idle"
  BY CallsOK, JobType DEF Update
<1>2. r.op = "update" /\ ~written[c] /\ r.id \in Ids /\ r.desired \in Options
  BY <1>1, RequestType DEF Update, CallOK, TypeOK
<1>3. CASE ~IsGuest(r) /\ Return(c, "notfound")
  <2>1. Store!Justified(c, "notfound")
    BY <1>2, <1>3, SameOperators DEF Store!Justified
  <2> QED
    BY <1>1, <1>3, <2>1, ReturnRefines DEF Update
<1>4. CASE IsGuest(r) /\ diff = NoOptions /\ Return(c, "ok")
  <2>1. guests[r.id].options \in Options
    BY <1>2, <1>4 DEF IsGuest, TypeOK, Guest
  <2>2. Store!Has(r)
    BY <1>2, <1>4, <2>1, DiffSuffices, SameOperators DEF Store!Has
  <2>3. Store!Justified(c, "ok")
    BY <1>2, <2>2 DEF Store!Justified
  <2> QED
    BY <1>1, <1>4, <2>3, ReturnRefines DEF Update
<1>5. CASE UNCHANGED <<job, written, answer>>
  BY <1>5 DEF Update, Store!vars
<1> QED
  BY <1>3, <1>4, <1>5 DEF Update

LEMMA BeginRefines ==
    ASSUME IInv, NEW c \in Clients, NEW r \in Request, Begin(c, r)
    PROVE  Store!Next
<1>1. job[c] = NoRequest
  BY CallsOK DEF IInv, Begin, CallOK
<1>2. Store!Ask(c)
  BY <1>1, SameOperators DEF Begin, Store!Ask
<1> QED
  BY <1>2 DEF Store!Next

LEMMA StepRefines ==
    ASSUME IInv, [Next]_vars
    PROVE  [Store!Next]_(Store!vars)
<1> USE DEF IInv
<1>1. ASSUME NEW c \in Clients, Call(c) PROVE Store!Next
  BY <1>1, BeginRefines DEF Call
<1>2. ASSUME NEW c \in Clients, Fail(c) \/ Refuse(c) \/ Kill(c) PROVE Store!Next
  <2>1. Return(c, "error") /\ guests' = guests /\ pc[c] # "idle"
    BY <1>2 DEF Fail, Refuse, Kill
  <2>2. Store!Justified(c, "error")
    BY DEF Store!Justified
  <2> QED
    BY <2>1, <2>2, ReturnRefines
<1>3. ASSUME NEW c \in Clients, LockTimeout(c) PROVE Store!Next
  <2>1. ~written[c] /\ pc[c] # "idle"
    BY <1>3, CallsOK DEF LockTimeout, CallOK, TypeOK
  <2>2. Store!Justified(c, "locked")
    BY <2>1 DEF Store!Justified
  <2> QED
    BY <1>3, <2>1, <2>2, ReturnRefines DEF LockTimeout
<1>4. ASSUME NEW c \in Clients, Succeed(c) PROVE Store!Next
  <2>1. written[c] /\ pc[c] # "idle"
    BY <1>4, CallsOK DEF Succeed, CallOK, TypeOK
  <2>2. Store!Justified(c, "ok")
    BY <2>1 DEF Store!Justified
  <2> QED
    BY <1>4, <2>1, <2>2, ReturnRefines DEF Succeed
<1>5. ASSUME NEW c \in Clients, Run(c) PROVE Store!Next \/ UNCHANGED Store!vars
  <2>1. ~written[c] /\ pc[c] # "idle"
    BY <1>5, CallsOK DEF Run, CallOK, TypeOK
  <2>2. CASE c \in Dry /\ Return(c, "ok")
    <3>1. Store!Justified(c, "ok")
      BY <2>2 DEF Store!Justified
    <3> QED
      BY <1>5, <2>1, <2>2, <3>1, ReturnRefines DEF Run
  <2>3. CASE Return(c, "notinstalled")
    <3>1. Store!Justified(c, "notinstalled")
      BY <2>1 DEF Store!Justified
    <3> QED
      BY <1>5, <2>1, <2>3, <3>1, ReturnRefines DEF Run
  <2>4. CASE UNCHANGED <<callVars, written, answer>>
    BY <1>5, <2>4 DEF Run, Store!vars, callVars
  <2> QED
    BY <1>5, <2>2, <2>3, <2>4 DEF Run
<1>6. ASSUME NEW c \in Clients, Create(c) \/ TakeLock(c) PROVE UNCHANGED Store!vars
  BY <1>6 DEF Create, TakeLock, Store!vars, callVars
<1>7. CASE Edit
  <2>1. Store!Edit
    BY <1>7, SameOperators DEF Edit, Store!Edit, Store!Unset, Unset, callVars
  <2> QED
    BY <2>1 DEF Store!Next
<1>8. CASE UNCHANGED vars
  BY <1>8 DEF vars, callVars, Store!vars
<1> QED
  BY <1>1, <1>2, <1>3, <1>4, <1>5, <1>6, <1>7, <1>8, UpdateRefines, WriteRefines
     DEF Next, Progress

(***************************************************************************)
(* Whatever the callers, the guests and their options: calls are atomic,   *)
(* no update undoes another's change, and no answer claims too much.       *)
(***************************************************************************)
THEOREM CallsAreAtomic == Spec => MeetsStore
<1>1. Init => Store!Init
  BY SameOperators DEF Init, Store!Init
<1>2. IInv /\ [Next]_vars => [Store!Next]_(Store!vars)
  BY StepRefines
<1> QED
  BY <1>1, <1>2, Invariance, PTL DEF Spec, MeetsStore, Store!Spec

-----------------------------------------------------------------------------
(* Callers of several calls, and callers that keep copies.                 *)

USE WishesAssumption, AbsentAssumption

CallerTypes ==
    /\ named \in [Clients -> SUBSET Ids]
    /\ copy \in [Clients -> {r \in Request : r.op = "update"} \cup {NoRequest}]
    /\ edited \in [Clients -> SUBSET Keys]
    /\ stale \in [Clients -> SUBSET Keys]
    /\ maker \in [Ids -> Clients \cup {Nobody}]

\* An update in progress is of a copy that its caller no longer has.
CopyNotInUse ==
    \A c \in Clients : copy[c] # NoRequest /\ pc[c] # "idle" => job[c].op # "update"

\* The options in which the guest is not what r has, all if there is no guest.
Behind(now, r) ==
    IF now[r.id] = NoGuest THEN Keys ELSE {k \in Keys : now[r.id].options[k] # r.desired[k]}

(***************************************************************************)
(* A copy differs from the guest in what its caller has edited and in what *)
(* is stale, and so does, after Update's read, what its command sets.      *)
(***************************************************************************)
CopyOK(c) ==
    /\ copy[c] # NoRequest => Behind(guests, copy[c]) \subseteq edited[c] \cup stale[c]
    /\ pc[c] = "read" => Behind(guests, job[c]) \subseteq edited[c] \cup stale[c]
    /\ pc[c] \in {"run", "lock", "write"} /\ job[c].op = "update" =>
          {k \in Keys : changed[c][k] # Unset} \subseteq edited[c] \cup stale[c]

CopiesOK == \A c \in Clients : CopyOK(c)

\* A guest that qm create has written stays as it is until its exit.
Created ==
    \A c \in Clients :
        pc[c] = "exit" /\ job[c].op = "create" =>
            guests[job[c].id] = Config(job[c].kind, job[c].desired) /\ maker[job[c].id] = c

CInv == IInv /\ CallerTypes /\ CopyNotInUse /\ CopiesOK /\ Created

-----------------------------------------------------------------------------
(* What a step does to one client's call.                                  *)

Kept(c)  == pc'[c] = pc[c] /\ job'[c] = job[c] /\ changed'[c] = changed[c]
Moved(c) ==
    /\ pc[c] \in {"encode", "run", "lock"} /\ pc'[c] \in {"run", "lock", "write"}
    /\ job'[c] = job[c] /\ changed'[c] = changed[c]
Diffed(c) ==
    /\ pc[c] = "read" /\ pc'[c] = "run" /\ job'[c] = job[c] /\ guests' = guests
    /\ IsGuest(job[c])
    /\ changed'[c] = FilterChanged(guests[job[c].id].options, job[c].desired)
Ended(c) ==
    /\ pc'[c] = "idle"
    /\ answer'[c] = "ok" => c \in Dry \/ pc[c] = "exit" \/ job[c].op = "update"

CallStep(c) == Kept(c) \/ Moved(c) \/ Diffed(c) \/ Ended(c) \/ Write(c)

LEMMA CallSteps ==
    ASSUME IInv, NEW d \in Clients, Progress(d) \/ Kill(d), NEW c \in Clients
    PROVE  CallStep(c)
<1> USE DEF IInv
<1>1. CASE c # d
  <2>1. Kept(c)
    BY <1>1 DEF Progress, Create, Update, Fail, Run, TakeLock, LockTimeout, Write, Refuse,
                Succeed, Kill, Return, callVars, TypeOK, Kept
  <2> QED
    BY <2>1 DEF CallStep
<1>2. CASE c = d
  <2>0. CallOK(c)
    BY CallsOK
  <2>1. ASSUME NEW ans \in {"error", "locked", "notfound", "notinstalled"}, Return(c, ans)
        PROVE  Ended(c)
    BY <2>1 DEF Return, TypeOK, Ended
  <2>2. CASE Fail(c) \/ LockTimeout(c) \/ Refuse(c) \/ Kill(c)
    BY <2>1, <2>2 DEF Fail, LockTimeout, Refuse, Kill, CallStep
  <2>3. CASE Succeed(c)
    BY <2>3 DEF Succeed, Return, TypeOK, Ended, CallStep
  <2>4. CASE Create(c) \/ TakeLock(c)
    BY <2>4 DEF Create, TakeLock, callVars, TypeOK, Moved, CallStep
  <2>5. CASE Run(c)
    <3>1. CASE c \in Dry /\ Return(c, "ok")
      BY <3>1 DEF Return, TypeOK, Ended, CallStep
    <3>2. CASE Return(c, "notinstalled")
      BY <2>1, <3>2 DEF CallStep
    <3>3. CASE /\ pc' = [pc EXCEPT ![c] = "lock"]
               /\ UNCHANGED <<callVars, written, answer, calls, edits>>
      BY <2>5, <3>3 DEF Run, callVars, TypeOK, Moved, CallStep
    <3> QED
      BY <2>5, <3>1, <3>2, <3>3 DEF Run
  <2>6. CASE Update(c)
    <3>1. CASE Return(c, "notfound")
      BY <2>1, <3>1 DEF CallStep
    <3>2. CASE Return(c, "ok")
      BY <2>0, <2>6, <3>2 DEF Update, Return, TypeOK, CallOK, Ended, CallStep
    <3>3. CASE /\ IsGuest(job[c])
               /\ changed' = [changed EXCEPT
                     ![c] = FilterChanged(guests[job[c].id].options, job[c].desired)]
               /\ pc' = [pc EXCEPT ![c] = "run"]
               /\ UNCHANGED <<job, written, answer, calls, edits>>
      BY <2>6, <3>3 DEF Update, TypeOK, Diffed, CallStep
    <3> QED
      BY <2>6, <3>1, <3>2, <3>3 DEF Update
  <2> QED
    BY <1>2, <2>2, <2>3, <2>4, <2>5, <2>6 DEF Progress, CallStep
<1> QED
  BY <1>1, <1>2

-----------------------------------------------------------------------------
(* A step of the callers is a step of GuestCommands, or leaves that alone. *)

\* The call that a caller begins is of no update, or of its copy.
BeginsOther(c) ==
    /\ \E r \in Request : r.op # "update" /\ Begin(c, r)
    /\ copy'[c] = copy[c] /\ edited'[c] = edited[c]
BeginsCopy(c) ==
    /\ copy[c] # NoRequest /\ Begin(c, copy[c])
    /\ copy'[c] = NoRequest /\ edited'[c] = edited[c]

LEMMA CreateIsCall ==
    ASSUME CallerTypes, NEW c \in Clients, CreateNamed(c)
    PROVE  Call(c) /\ BeginsOther(c)
<1>1. PICK id \in Ids, kind \in Kinds, options \in Options :
         Begin(c, [op |-> "create", id |-> id, kind |-> kind, desired |-> options])
  BY DEF CreateNamed, CallerTypes
<1>2. [op |-> "create", id |-> id, kind |-> kind, desired |-> options] \in Request
  BY DEF Request
<1> QED
  BY <1>1, <1>2 DEF CreateNamed, Call, BeginsOther

LEMMA DeleteIsCall ==
    ASSUME NEW c \in Clients, CallDelete(c)
    PROVE  Call(c) /\ BeginsOther(c)
<1>1. PICK id \in Ids, kind \in Kinds :
         Begin(c, [op |-> "delete", id |-> id, kind |-> kind, desired |-> NoOptions])
  BY DEF CallDelete
<1>2. [op |-> "delete", id |-> id, kind |-> kind, desired |-> NoOptions] \in Request
  BY DEF Request
<1> QED
  BY <1>1, <1>2 DEF CallDelete, Call, BeginsOther, callerVars

LEMMA UpdateIsCall ==
    ASSUME CallerTypes, NEW c \in Clients, UpdateCopy(c)
    PROVE  Call(c) /\ BeginsCopy(c)
<1>1. copy[c] \in Request
  BY DEF UpdateCopy, CallerTypes
<1> QED
  BY <1>1 DEF UpdateCopy, Call, BeginsCopy, CallerTypes

\* What a step is to one of the callers.
CallerStep(c) ==
    \/ BeginsOther(c)
    \/ BeginsCopy(c)
    \/ CallStep(c) /\ copy'[c] = copy[c] /\ edited'[c] = edited[c]
    \/ Get(c)
    \/ Change(c)

LEMMA CallerSteps ==
    ASSUME CInv, CNext
    PROVE  [Next]_vars /\ \A c \in Clients : CallerStep(c)
<1> USE DEF CInv
<1>1. CASE Edit /\ UNCHANGED callerVars
  BY <1>1 DEF Edit, Next, callVars, callerVars, CallerStep, CallStep, Kept
<1>2. ASSUME NEW d \in Clients, (Progress(d) \/ Kill(d)) /\ UNCHANGED callerVars
      PROVE  Next /\ \A c \in Clients : CallerStep(c)
  BY <1>2, CallSteps DEF Next, callerVars, CallerStep
<1>3. ASSUME NEW d \in Clients, CreateNamed(d) \/ CallDelete(d) \/ UpdateCopy(d)
      PROVE  Next /\ \A c \in Clients : CallerStep(c)
  <2>1. Call(d) /\ (BeginsOther(d) \/ BeginsCopy(d))
    BY <1>3, CreateIsCall, DeleteIsCall, UpdateIsCall
  <2>2. ASSUME NEW c \in Clients, c # d PROVE Kept(c)
    BY <2>1, <2>2 DEF Call, Begin, Kept, IInv, TypeOK
  <2>3. ASSUME NEW c \in Clients, c # d PROVE copy'[c] = copy[c] /\ edited'[c] = edited[c]
    BY <1>3, <2>3 DEF CreateNamed, CallDelete, UpdateCopy, callerVars, CallerTypes
  <2> QED
    BY <2>1, <2>2, <2>3 DEF Next, CallerStep, CallStep
<1>4. ASSUME NEW d \in Clients, NextID(d) \/ Get(d) \/ Change(d)
      PROVE  UNCHANGED vars /\ \A c \in Clients : CallerStep(c)
  <2>1. UNCHANGED vars
    BY <1>4 DEF NextID, Get, Change
  <2>2. ASSUME NEW c \in Clients PROVE Kept(c)
    BY <2>1 DEF vars, callVars, Kept
  <2>3. ASSUME NEW c \in Clients, c # d \/ NextID(d)
        PROVE  copy'[c] = copy[c] /\ edited'[c] = edited[c]
    BY <1>4, <2>3 DEF NextID, Get, Change, CallerTypes
  <2> QED
    BY <1>4, <2>1, <2>2, <2>3 DEF CallerStep, CallStep
<1> QED
  BY <1>1, <1>2, <1>3, <1>4 DEF CNext

-----------------------------------------------------------------------------
(* What a step does to the guests.                                         *)

(***************************************************************************)
(* A guest comes and goes, or its options change, by the write of one      *)
(* command that holds its lock, or by an edit, which finds no lock.        *)
(***************************************************************************)
LEMMA GuestSteps ==
    ASSUME IInv, [Next]_vars, NEW id \in Ids
    PROVE  \/ guests'[id] = guests[id]
           \/ \E c \in Clients : Write(c) /\ job[c].id = id
           \/ /\ guests[id] # NoGuest /\ guests'[id] # NoGuest
              /\ lock[<<guests[id].kind, id>>] = Nobody
<1> USE DEF IInv
<1>1. CASE Edit
  <2>1. PICK i \in Ids, k \in Keys, w \in Values \cup {Unset} :
           /\ guests[i] # NoGuest /\ lock[<<guests[i].kind, i>>] = Nobody
           /\ guests' = [guests EXCEPT ![i] =
                 Config(guests[i].kind, [guests[i].options EXCEPT ![k] = w])]
    BY <1>1 DEF Edit
  <2>2. guests[i] \in Guest
    BY <2>1 DEF TypeOK
  <2>3. [guests[i].options EXCEPT ![k] = w] \in Options
    BY <2>2 DEF Guest, Options
  <2>4. Config(guests[i].kind, [guests[i].options EXCEPT ![k] = w]) \in Guest
    BY <2>2, <2>3 DEF Guest, Config
  <2> QED
    BY <2>1, <2>4 DEF TypeOK
<1>2. ASSUME NEW c \in Clients, Write(c)
      PROVE  guests'[id] = guests[id] \/ job[c].id = id
  BY <1>2 DEF Write, TypeOK
<1>3. ASSUME NEW c \in Clients, Call(c) \/ Kill(c) PROVE guests' = guests
  BY <1>3 DEF Call, Begin, Kill
<1>4. ASSUME NEW c \in Clients, Progress(c), ~Write(c) PROVE guests' = guests
  BY <1>4 DEF Progress, Create, Update, Fail, Run, TakeLock, LockTimeout, Refuse, Succeed
<1>5. CASE UNCHANGED vars
  BY <1>5 DEF vars
<1> QED
  BY <1>1, <1>2, <1>3, <1>4, <1>5 DEF Next

\* Who has the lock has the guest: nobody else's step changes it.
LEMMA LockedGuestKept ==
    ASSUME IInv, [Next]_vars, NEW c \in Clients, pc[c] = "exit",
           IsGuest(job[c]), job[c] \in Request, ~Write(c)
    PROVE  guests'[job[c].id] = guests[job[c].id]
<1> DEFINE id == job[c].id
<1>1. id \in Ids /\ lock[<<guests[id].kind, id>>] = c
  BY CallsOK, RequestType DEF IInv, CallOK, LockFile, IsGuest
<1>2. ASSUME NEW d \in Clients, Write(d), job[d].id = id PROVE FALSE
  <2>1. CallOK(d) /\ job[d] \in Request
    BY <1>2, CallsOK, JobType DEF IInv, Write
  <2>2. lock[LockFile(job[d])] = d /\ job[d].op \in {"create", "update", "delete"}
    BY <1>2, <2>1, RequestType DEF CallOK, Write
  <2>3. IsGuest(job[d])
    BY <1>2, <2>2 DEF Write, Allowed, IsGuest
  <2>4. d = c
    BY <1>1, <1>2, <2>2, <2>3 DEF LockFile, IsGuest
  <2> QED
    BY <1>2, <2>4
<1> QED
  BY <1>1, <1>2, GuestSteps

(***************************************************************************)
(* An option in which the guest differs from a config either differed      *)
(* before or has just been changed.                                        *)
(***************************************************************************)
LEMMA BehindChanged ==
    ASSUME IInv, [Next]_vars, NEW r \in Request
    PROVE  /\ Behind(guests', r) \subseteq Behind(guests, r) \cup Changed(r.id)
           /\ Changed(r.id) \subseteq Keys /\ Behind(guests, r) \subseteq Keys
BY DEF Behind, Changed

-----------------------------------------------------------------------------
(* The invariant is inductive.                                             *)

LEMMA StaleNext ==
    ASSUME Remember, NEW c \in Clients
    PROVE  /\ copy[c] # NoRequest => stale'[c] = stale[c] \cup Changed(copy[c].id)
           /\ copy[c] = NoRequest /\ pc[c] = "read" =>
                 stale'[c] = stale[c] \cup Changed(job[c].id)
           /\ copy[c] = NoRequest /\ pc[c] = "idle" => stale'[c] = {}
           /\ copy[c] = NoRequest /\ pc[c] \notin {"read", "idle"} => stale'[c] = stale[c]
BY DEF Remember

LEMMA MakerNext ==
    ASSUME IInv, [Next]_vars, Remember, NEW id \in Ids
    PROVE  /\ guests'[id] = NoGuest => maker'[id] = Nobody
           /\ guests[id] # NoGuest /\ guests'[id] # NoGuest => maker'[id] = maker[id]
           /\ guests[id] = NoGuest /\ guests'[id] # NoGuest =>
                 \E c \in Clients : Write(c) /\ job[c].id = id /\ maker'[id] = c
<1>1. CASE guests[id] = NoGuest /\ guests'[id] # NoGuest
  <2>1. PICK c \in Clients : Write(c) /\ job[c].id = id
    BY <1>1, GuestSteps
  <2>2. \A d \in Clients : written'[d] /\ ~written[d] <=> d = c
    BY <2>1, CallsOK DEF Write, CallOK, IInv, TypeOK
  <2>3. maker'[id] = CHOOSE d \in Clients : written'[d] /\ ~written[d]
    BY <1>1 DEF Remember
  <2>4. maker'[id] = c
    BY <2>2, <2>3
  <2> QED
    BY <1>1, <2>1, <2>4
<1>2. CASE ~(guests[id] = NoGuest /\ guests'[id] # NoGuest)
  BY <1>2 DEF Remember
<1> QED
  BY <1>1, <1>2

LEMMA TypesKept ==
    ASSUME CInv, CNext
    PROVE  CallerTypes' /\ CopyNotInUse'
<1> USE DEF CInv
<1>0. [Next]_vars /\ Remember /\ \A c \in Clients : CallerStep(c)
  BY CallerSteps DEF CNext
<1>1. named' \in [Clients -> SUBSET Ids]
  BY DEF CNext, NextID, Free, CreateNamed, CallDelete, Get, Change, UpdateCopy, callerVars,
         CallerTypes
<1>2. ASSUME NEW c \in Clients, Get(c)
      PROVE  /\ copy'[c] \in Request /\ copy'[c].op = "update" /\ edited'[c] = {}
             /\ pc' = pc /\ pc[c] = "idle"
  <2>1. PICK id \in Ids \ Free :
           copy' = [copy EXCEPT ![c] = [op |-> "update", id |-> id, kind |-> guests[id].kind,
                                        desired |-> guests[id].options]]
    BY <1>2 DEF Get
  <2>2. guests[id] \in Guest
    BY DEF Free, IInv, TypeOK
  <2>3. copy'[c] \in Request /\ copy'[c].op = "update"
    BY <2>1, <2>2 DEF CallerTypes, Guest, Request
  <2> QED
    BY <1>2, <2>3 DEF Get, CallerTypes, vars
<1>3. ASSUME NEW c \in Clients, Change(c)
      PROVE  /\ copy'[c] \in Request /\ copy'[c].op = "update" /\ edited'[c] \in SUBSET Keys
             /\ pc' = pc /\ pc[c] = "idle"
  <2>1. PICK k \in Keys, w \in Values :
           /\ copy' = [copy EXCEPT ![c].desired[k] = w]
           /\ edited' = [edited EXCEPT ![c] = {k}]
    BY <1>3 DEF Change
  <2>2. copy[c] \in Request /\ copy[c].op = "update" /\ copy[c].desired \in Options
    BY <1>3, RequestType DEF Change, CallerTypes
  <2>3. [copy[c].desired EXCEPT ![k] = w] \in Options
    BY <2>2 DEF Options
  <2>4. copy'[c] = [copy[c] EXCEPT !.desired = [copy[c].desired EXCEPT ![k] = w]]
    BY <2>1 DEF CallerTypes
  <2>5. copy'[c] \in Request /\ copy'[c].op = "update"
    BY <2>2, <2>3, <2>4 DEF Request
  <2> QED
    BY <1>3, <2>1, <2>5 DEF Change, CallerTypes, vars
<1>4. ASSUME NEW c \in Clients
      PROVE  /\ copy'[c] \in {r \in Request : r.op = "update"} \cup {NoRequest}
             /\ edited'[c] \in SUBSET Keys
             /\ copy'[c] # NoRequest /\ pc'[c] # "idle" => job'[c].op # "update"
  <2>1. CASE BeginsOther(c)
    <3>1. PICK r \in Request : r.op # "update" /\ job'[c] = r
      BY <2>1 DEF BeginsOther, Begin, IInv, TypeOK
    <3> QED
      BY <2>1, <3>1 DEF BeginsOther, CallerTypes
  <2>2. CASE BeginsCopy(c)
    BY <2>2 DEF BeginsCopy, CallerTypes
  <2>3. CASE CallStep(c) /\ copy'[c] = copy[c] /\ edited'[c] = edited[c]
    <3>1. pc'[c] # "idle" => pc[c] # "idle" /\ job'[c] = job[c]
      BY <2>3 DEF CallStep, Kept, Moved, Diffed, Ended, Write, callVars
    <3> QED
      BY <2>3, <3>1 DEF CallerTypes, CopyNotInUse
  <2> QED
    BY <1>0, <1>2, <1>3, <2>1, <2>2, <2>3 DEF CallerStep
<1>5. copy' = [c \in Clients |-> copy'[c]] /\ edited' = [c \in Clients |-> edited'[c]]
  BY DEF CNext, NextID, CreateNamed, CallDelete, Get, Change, UpdateCopy, callerVars,
         CallerTypes
<1>6. stale' \in [Clients -> SUBSET Keys]
  <2>1. \A id : Changed(id) \subseteq Keys
    BY DEF Changed
  <2> QED
    BY <1>0, <2>1 DEF Remember, CallerTypes
<1>7. maker' \in [Ids -> Clients \cup {Nobody}]
  <2>1. \A id \in Ids : maker'[id] \in Clients \cup {Nobody}
    BY <1>0, MakerNext DEF CallerTypes
  <2> QED
    BY <1>0, <2>1 DEF Remember
<1> QED
  BY <1>1, <1>4, <1>5, <1>6, <1>7 DEF CallerTypes, CopyNotInUse

(***************************************************************************)
(* What differs from a copy is known: Get makes it the guest, others make  *)
(* it stale, and Update's diff is of what differs when it reads.           *)
(***************************************************************************)
LEMMA CopiesKept ==
    ASSUME CInv, CNext, CallerTypes'
    PROVE  CopiesOK'
<1> USE DEF CInv
<1>0. [Next]_vars /\ Remember /\ \A c \in Clients : CallerStep(c)
  BY CallerSteps DEF CNext
<1> SUFFICES ASSUME NEW c \in Clients PROVE CopyOK(c)'
  BY DEF CopiesOK
<1>1. /\ CopyOK(c) /\ CallOK(c)
      /\ copy[c] # NoRequest => copy[c] \in Request
      /\ pc[c] # "idle" => job[c] \in Request
      /\ pc[c] = "read" => copy[c] = NoRequest
  BY CallsOK, JobType DEF CopiesOK, CopyNotInUse, CallerTypes, IInv, CallOK
<1>2. CASE BeginsOther(c)
  <2>1. PICK r \in Request : r.op # "update" /\ Begin(c, r)
    BY <1>2 DEF BeginsOther
  <2>2. job'[c] = r /\ pc'[c] # "read"
    BY <2>1, RequestType DEF Begin, FirstStep, IInv, TypeOK
  <2>3. copy'[c] = copy[c] /\ edited'[c] = edited[c] /\ guests' = guests
    BY <1>2, <2>1 DEF BeginsOther, Begin
  <2>4. copy[c] # NoRequest => stale[c] \subseteq stale'[c]
    BY <1>0, StaleNext
  <2> QED
    BY <1>1, <2>1, <2>2, <2>3, <2>4 DEF CopyOK, Behind
<1>3. CASE BeginsCopy(c)
  <2>1. copy[c] \in Request /\ copy[c].op = "update" /\ Begin(c, copy[c])
    BY <1>3 DEF BeginsCopy, CallerTypes
  <2>2. job'[c] = copy[c] /\ pc'[c] = "read" /\ guests' = guests
    BY <2>1 DEF Begin, FirstStep, IInv, TypeOK
  <2>3. copy'[c] = NoRequest /\ edited'[c] = edited[c] /\ stale[c] \subseteq stale'[c]
    BY <1>0, <1>3, StaleNext DEF BeginsCopy
  <2> QED
    BY <1>1, <1>3, <2>2, <2>3 DEF CopyOK, Behind, BeginsCopy
<1>4. CASE CallStep(c) /\ copy'[c] = copy[c] /\ edited'[c] = edited[c]
  <2>1. copy'[c] # NoRequest => Behind(guests', copy'[c]) \subseteq edited'[c] \cup stale'[c]
    <3>1. CASE copy[c] # NoRequest
      <4>1. /\ Behind(guests', copy[c]) \subseteq Behind(guests, copy[c]) \cup Changed(copy[c].id)
            /\ stale'[c] = stale[c] \cup Changed(copy[c].id)
        BY <1>0, <1>1, <3>1, BehindChanged, StaleNext
      <4> QED
        BY <1>1, <1>4, <3>1, <4>1 DEF CopyOK, Behind
    <3> QED
      BY <1>4, <3>1
  <2>2. pc'[c] = "read" => Behind(guests', job'[c]) \subseteq edited'[c] \cup stale'[c]
    <3>1. CASE pc'[c] = "read"
      <4>1. pc[c] = "read" /\ job'[c] = job[c]
        BY <1>4, <3>1 DEF CallStep, Kept, Moved, Diffed, Ended, Write, IInv, TypeOK
      <4>2. /\ Behind(guests', job[c]) \subseteq Behind(guests, job[c]) \cup Changed(job[c].id)
            /\ stale'[c] = stale[c] \cup Changed(job[c].id)
        BY <1>0, <1>1, <4>1, BehindChanged, StaleNext
      <4> QED
        BY <1>1, <1>4, <4>1, <4>2 DEF CopyOK, Behind
    <3> QED
      BY <3>1
  <2>3. ASSUME pc'[c] \in {"run", "lock", "write"}, job'[c].op = "update"
        PROVE  {k \in Keys : changed'[c][k] # Unset} \subseteq edited'[c] \cup stale'[c]
    <3>1. CASE Diffed(c)
      <4>1. stale[c] \subseteq stale'[c] /\ guests[job[c].id] # NoGuest
        BY <1>0, <1>1, <3>1, StaleNext DEF Diffed, IsGuest
      <4>2. {k \in Keys : changed'[c][k] # Unset} \subseteq Behind(guests, job[c])
        BY <3>1, <4>1 DEF Diffed, FilterChanged, Behind
      <4> QED
        BY <1>1, <1>4, <3>1, <4>1, <4>2 DEF CopyOK, Diffed
    <3>2. CASE Kept(c) \/ Moved(c)
      <4>1. /\ changed'[c] = changed[c] /\ pc[c] # "idle" /\ job[c].op = "update"
            /\ pc[c] \in {"run", "lock", "write"}
        BY <1>1, <2>3, <3>2 DEF Kept, Moved, CallOK
      <4>2. copy[c] = NoRequest /\ stale'[c] = stale[c]
        BY <1>0, <4>1, StaleNext DEF CopyNotInUse
      <4> QED
        BY <1>1, <1>4, <4>1, <4>2 DEF CopyOK
    <3>3. ~Ended(c) /\ ~Write(c)
      BY <2>3 DEF Ended, Write, IInv, TypeOK
    <3> QED
      BY <1>4, <3>1, <3>2, <3>3 DEF CallStep
  <2> QED
    BY <2>1, <2>2, <2>3 DEF CopyOK
<1>5. CASE Get(c)
  <2>1. PICK id \in Ids \ Free :
           copy' = [copy EXCEPT ![c] = [op |-> "update", id |-> id, kind |-> guests[id].kind,
                                        desired |-> guests[id].options]]
    BY <1>5 DEF Get
  <2>2. copy'[c].id = id /\ copy'[c].desired = guests'[id].options /\ guests'[id] # NoGuest
    BY <1>5, <2>1 DEF Get, Free, vars, CallerTypes
  <2>3. pc'[c] = "idle"
    BY <1>5 DEF Get, vars
  <2> QED
    BY <2>2, <2>3 DEF CopyOK, Behind
<1>6. CASE Change(c)
  <2>1. PICK k \in Keys, w \in Values :
           /\ copy' = [copy EXCEPT ![c].desired[k] = w]
           /\ edited' = [edited EXCEPT ![c] = {k}]
    BY <1>6 DEF Change
  <2>2. copy[c] \in Request /\ copy[c].desired \in Options /\ edited[c] = {}
    BY <1>1, <1>6, RequestType DEF Change
  <2>3. /\ copy'[c].id = copy[c].id /\ edited'[c] = {k}
        /\ \A j \in Keys \ {k} : copy'[c].desired[j] = copy[c].desired[j]
    BY <2>1, <2>2 DEF CallerTypes, Options
  <2>4. stale[c] \subseteq stale'[c] /\ pc'[c] = "idle" /\ guests' = guests
    BY <1>0, <1>6, StaleNext DEF Change, vars
  <2>5. Behind(guests', copy'[c]) \subseteq Behind(guests, copy[c]) \cup {k}
    BY <2>3, <2>4 DEF Behind
  <2>6. Behind(guests, copy[c]) \subseteq stale[c]
    BY <1>1, <1>6, <2>2 DEF CopyOK, Change
  <2> QED
    BY <2>3, <2>4, <2>5, <2>6 DEF CopyOK
<1> QED
  BY <1>0, <1>2, <1>3, <1>4, <1>5, <1>6 DEF CallerStep

(***************************************************************************)
(* What qm create has written is there at its exit: it has the lock.       *)
(***************************************************************************)
LEMMA CreatedKept ==
    ASSUME CInv, CNext
    PROVE  Created'
<1> USE DEF CInv
<1>0. [Next]_vars /\ Remember /\ \A c \in Clients : CallerStep(c)
  BY CallerSteps DEF CNext
<1> SUFFICES ASSUME NEW c \in Clients, pc'[c] = "exit", job'[c].op = "create"
             PROVE  /\ guests'[job'[c].id] = Config(job'[c].kind, job'[c].desired)
                    /\ maker'[job'[c].id] = c
  BY DEF Created
<1>1. pc[c] # "idle" => job[c] \in Request /\ job[c].id \in Ids /\ CallOK(c)
  BY CallsOK, JobType, RequestType DEF IInv
<1>2. CASE Write(c)
  <2>1. /\ job'[c] = job[c] /\ job[c].op = "create" /\ changed[c] = job[c].desired
        /\ guests[job[c].id] = NoGuest /\ job[c].id \in Ids
    BY <1>1, <1>2 DEF Write, Allowed, CallOK, callVars
  <2>2. guests'[job[c].id] = Config(job[c].kind, job[c].desired)
    BY <1>2, <2>1 DEF Write, IInv, TypeOK
  <2>3. guests'[job[c].id] # NoGuest
    <3>1. Config(job[c].kind, job[c].desired) \in Guest
      BY <1>1, <1>2, RequestType, ConfigType DEF Write
    <3> QED
      BY <2>2, <3>1
  <2>4. PICK d \in Clients : Write(d) /\ maker'[job[c].id] = d
    BY <1>0, <2>1, <2>3, MakerNext
  <2>5. d = c
    BY <1>2, <2>4 DEF Write, IInv, TypeOK
  <2> QED
    BY <2>1, <2>2, <2>4, <2>5
<1>3. CASE Kept(c) /\ ~Write(c)
  <2>1. /\ pc[c] = "exit" /\ job'[c] = job[c] /\ job[c].op = "create" /\ job[c] \in Request
        /\ guests[job[c].id] = Config(job[c].kind, job[c].desired)
        /\ maker[job[c].id] = c
    BY <1>1, <1>3 DEF Kept, Created
  <2>2. Config(job[c].kind, job[c].desired) \in Guest
    BY <2>1, RequestType, ConfigType
  <2>3. IsGuest(job[c])
    BY <2>1, <2>2 DEF IsGuest, Config
  <2>4. guests'[job[c].id] = guests[job[c].id]
    BY <1>0, <1>3, <2>1, <2>3, LockedGuestKept
  <2>5. maker'[job[c].id] = maker[job[c].id]
    BY <1>0, <1>1, <2>1, <2>2, <2>4, MakerNext
  <2> QED
    BY <2>1, <2>4, <2>5
<1>4. ~Moved(c) /\ ~Diffed(c) /\ ~Ended(c)
  BY DEF Moved, Diffed, Ended
<1>5. ~BeginsOther(c) /\ ~BeginsCopy(c)
  BY RequestType DEF BeginsOther, BeginsCopy, CallerTypes, Begin, FirstStep, IInv, TypeOK
<1>6. Get(c) \/ Change(c) => Kept(c) /\ ~Write(c)
  BY DEF Get, Change, vars, callVars, Kept, Write
<1> QED
  BY <1>0, <1>2, <1>3, <1>4, <1>5, <1>6 DEF CallerStep, CallStep

LEMMA CallersInvInit == CInit => CInv
<1> SUFFICES ASSUME CInit PROVE CInv
  OBVIOUS
<1>1. IInv
  BY InitIInv DEF CInit
<1> QED
  BY <1>1 DEF CInit, Init, CInv, CallerTypes, CopyNotInUse, CopiesOK, CopyOK, Created

LEMMA CallersInvNext == CInv /\ [CNext]_cVars => CInv'
<1>1. ASSUME CInv, CNext PROVE CInv'
  <2>1. [Next]_vars
    BY <1>1, CallerSteps
  <2>2. IInv'
    BY <1>1, <2>1, NextType, NextKeeps DEF CInv, IInv
  <2> QED
    BY <1>1, <2>2, TypesKept, CopiesKept, CreatedKept DEF CInv
<1>2. ASSUME CInv, UNCHANGED cVars PROVE CInv'
  <2>1. IInv'
    BY <1>2, NextType, NextKeeps DEF cVars, CInv, IInv
  <2> QED
    BY <1>2, <2>1 DEF CInv, CallerTypes, CopyNotInUse, CopiesOK, CopyOK, Created, Behind,
                      cVars, callerVars, vars, callVars
<1> QED
  BY <1>1, <1>2

LEMMA CallersInvariance == CSpec => []CInv
BY CallersInvInit, CallersInvNext, PTL DEF CSpec

-----------------------------------------------------------------------------

(***************************************************************************)
(* NextID, Get and the calls that callers then make are calls like any     *)
(* other: whatever ids and copies they are made with, each is atomic.      *)
(***************************************************************************)
THEOREM CallersAreAtomic == CSpec => MeetsStore
<1>1. CInit => Store!Init
  BY SameOperators DEF CInit, Init, Store!Init
<1>2. CInv /\ [CNext]_cVars => [Store!Next]_(Store!vars)
  <2> SUFFICES ASSUME CInv, [CNext]_cVars PROVE [Store!Next]_(Store!vars)
    OBVIOUS
  <2>1. [Next]_vars
    BY CallerSteps DEF cVars
  <2> QED
    BY <2>1, StepRefines DEF CInv
<1> QED
  BY <1>1, <1>2, CallersInvariance, PTL DEF CSpec, MeetsStore, Store!Spec

(***************************************************************************)
(* Of any number of callers that NextID has named one id, one creates the  *)
(* guest: who is told of success has made the guest that is there, and it  *)
(* is as desired.                                                          *)
(***************************************************************************)
THEOREM CreatesOnce == CSpec => CreatedOnce
<1>1. ASSUME CInv, CNext, NEW c \in Clients \ Dry, job[c] # NoRequest, job[c].op = "create",
             pc'[c] = "idle", answer'[c] = "ok"
      PROVE  OwnGuest(c)
  <2>1. CallOK(c) /\ CallerStep(c)
    BY <1>1, CallsOK, CallerSteps DEF CInv, IInv
  <2>2. pc[c] # "idle"
    BY <1>1, <2>1 DEF CallOK
  <2>3. Ended(c)
    BY <1>1, <2>1, <2>2 DEF CallerStep, CallStep, BeginsOther, BeginsCopy, Begin, Get, Change,
                            Kept, Moved, Diffed, Write, CInv, IInv, TypeOK
  <2>4. pc[c] = "exit"
    BY <1>1, <2>3 DEF Ended
  <2>5. guests[job[c].id] = Config(job[c].kind, job[c].desired) /\ maker[job[c].id] = c
    BY <1>1, <2>4 DEF CInv, Created
  <2> QED
    BY <2>5 DEF OwnGuest, Config
<1>2. CInv /\ [CNext]_cVars =>
        [\A c \in Clients \ Dry :
            job[c] # NoRequest /\ job[c].op = "create" /\ pc'[c] = "idle" /\ answer'[c] = "ok"
            => OwnGuest(c)]_cVars
  BY <1>1
<1> QED
  BY <1>2, CallersInvariance, PTL DEF CSpec, CreatedOnce

(***************************************************************************)
(* An update of a copy, however old, undoes nothing that others changed    *)
(* after it read the config, and before that only what its copy has stale. *)
(***************************************************************************)
THEOREM StaleCopies == CSpec => PutsBackOnlyStale
<1>1. ASSUME CInv, CNext, NEW c \in Clients, pc[c] = "write", pc'[c] = "exit",
             job[c].op = "update"
      PROVE  Changed(job[c].id) \subseteq edited[c] \cup stale[c]
  <2>1. CallerStep(c) /\ CopyOK(c) /\ job[c] \in Request
    BY <1>1, CallerSteps, JobType DEF CInv, CopiesOK, IInv
  <2>2. Write(c)
    BY <1>1, <2>1 DEF CallerStep, CallStep, BeginsOther, BeginsCopy, Begin, Get, Change,
                      Kept, Moved, Diffed, Ended, vars
  <2>3. /\ guests[job[c].id] # NoGuest /\ job[c].id \in Ids
        /\ guests' = [guests EXCEPT
              ![job[c].id] = Config(job[c].kind, Over(changed[c], guests[job[c].id].options))]
    BY <1>1, <2>1, <2>2, RequestType DEF Write, Allowed, IsGuest
  <2>4. /\ guests \in [Ids -> Guest \cup {NoGuest}] /\ changed[c] \in Options
        /\ guests[job[c].id].options \in Options
    <3>1. guests \in [Ids -> Guest \cup {NoGuest}] /\ changed[c] \in Options
      BY <1>1 DEF CInv, IInv, TypeOK
    <3>2. guests[job[c].id] \in Guest
      BY <2>3, <3>1
    <3> QED
      BY <3>1, <3>2 DEF Guest
  <2>5. Over(changed[c], guests[job[c].id].options) \in Options
    BY <2>4, FilterType
  <2>6. /\ guests'[job[c].id] # NoGuest
        /\ guests'[job[c].id].options = Over(changed[c], guests[job[c].id].options)
    <3> DEFINE new == Config(job[c].kind, Over(changed[c], guests[job[c].id].options))
    <3>1. new \in Guest
      BY <2>1, <2>5, RequestType, ConfigType
    <3>2. guests'[job[c].id] = new
      BY <2>3, <2>4
    <3> QED
      BY <3>1, <3>2 DEF Config
  <2>7. Changed(job[c].id) \subseteq {k \in Keys : changed[c][k] # Unset}
    BY <2>3, <2>6 DEF Changed, Over
  <2> QED
    BY <1>1, <2>1, <2>7 DEF CopyOK
<1>2. CInv /\ [CNext]_cVars =>
        [\A c \in Clients :
            pc[c] = "write" /\ pc'[c] = "exit" /\ job[c].op = "update"
            => Changed(job[c].id) \subseteq edited[c] \cup stale[c]]_cVars
  BY <1>1
<1> QED
  BY <1>2, CallersInvariance, PTL DEF CSpec, PutsBackOnlyStale

-----------------------------------------------------------------------------
(* Callers that repeat an update until it is done.                         *)

\* What a client owes is a request of its own.
RInv == IInv /\ last \in [Clients -> Request \cup {NoRequest}]

LEMMA RetryIsBegin ==
    ASSUME RInv, NEW c \in Clients, Retry(c)
    PROVE  last[c] \in Request /\ Begin(c, last[c]) /\ calls' = calls /\ last' = last
BY DEF RInv, Retry, Owes

LEMMA RetryInvariance == RSpec => []RInv
<1>1. RInit => RInv
  BY InitIInv DEF RInit, RInv
<1>2. ASSUME RInv, [RNext]_rvars PROVE RInv'
  <2>1. IInv
    BY <1>2 DEF RInv
  <2>2. ASSUME [Next]_vars, last' = last PROVE RInv'
    BY <1>2, <2>1, <2>2, NextType, NextKeeps DEF RInv, IInv
  <2>3. ASSUME NEW c \in Clients, NewCall(c) PROVE RInv'
    <3>1. IInv'
      BY <2>1, <2>3, NextType, NextKeeps DEF IInv, NewCall, Next
    <3>2. job'[c] \in Request \cup {NoRequest}
      BY <3>1 DEF IInv, TypeOK
    <3> QED
      BY <1>2, <2>3, <3>1, <3>2 DEF RInv, NewCall
  <2>4. ASSUME NEW c \in Clients, Retry(c) PROVE RInv'
    <3>1. last[c] \in Request /\ Begin(c, last[c]) /\ calls' = calls /\ last' = last
      BY <1>2, <2>4, RetryIsBegin
    <3>2. calls' \in 0..MaxCalls
      BY <2>1, <3>1 DEF IInv, TypeOK
    <3> QED
      BY <1>2, <2>1, <3>1, <3>2, BeginType, BeginKeeps DEF RInv, IInv
  <2>5. CASE UNCHANGED rvars
    BY <2>2, <2>5 DEF rvars
  <2> QED
    BY <1>2, <2>2, <2>3, <2>4, <2>5 DEF RNext, Next
<1> QED
  BY <1>1, <1>2, PTL DEF RSpec

(***************************************************************************)
(* Repeating an update after an error that leaves open what happened keeps *)
(* to GuestStore: each attempt is atomic or does nothing, rests on its own *)
(* read, and no answer claims too much.                                    *)
(***************************************************************************)
THEOREM RetriesAreAtomic == RSpec => MeetsStore /\ []CommandMatchesRead
<1>1. RInit => Store!Init
  BY SameOperators DEF RInit, Init, Store!Init
<1>2. ASSUME RInv, [RNext]_rvars PROVE [Store!Next]_(Store!vars)
  <2>1. IInv
    BY <1>2 DEF RInv
  <2>2. CASE [Next]_vars
    BY <2>1, <2>2, StepRefines
  <2>3. ASSUME NEW c \in Clients, Retry(c) PROVE Store!Next
    BY <1>2, <2>1, <2>3, RetryIsBegin, BeginRefines
  <2> QED
    BY <1>2, <2>2, <2>3 DEF RNext, Next, NewCall, rvars
<1>3. RInv => CommandMatchesRead
  BY DEF RInv, IInv
<1> QED
  BY <1>1, <1>2, <1>3, RetryInvariance, PTL DEF RSpec, MeetsStore, Store!Spec
================================================================================
