------------------------------ MODULE WatchTimed ------------------------------
(***************************************************************************)
(* The watch loop of module Watch with the times qemu/watch.go keeps: when *)
(* each pending look and a failed sync are due, the backoff between        *)
(* retries, and the one timer that Watch sets to the earliest of them      *)
(* before every select.  Every step of the loop and of the node is one of  *)
(* Watch; time passes between any two of them, and while a body runs.      *)
(***************************************************************************)
EXTENDS Watch

CONSTANTS
    Options,      \* WatchOptions, as the caller gives them: BaseDelay and MaxDelay
    DefaultBase,  \* defaultBaseDelay
    DefaultMax,   \* defaultMaxDelay
    Idle,         \* idle: how long the loop waits when nothing is due
    MaxDuration,  \* the largest time.Duration; beyond it they wrap around
    MaxTime       \* bound: how far time goes in one behaviour

ASSUME TimesAssumption ==
    /\ Options \subseteq [base : Int, max : Int]
    /\ DefaultBase \in Nat \ {0} /\ DefaultMax \in Nat \ {0} /\ Idle \in Nat \ {0}
    /\ MaxDuration \in Nat /\ MaxTime \in Nat

VARIABLES
    opts,       \* watchLoop.opts
    now,        \* the time
    dueAt,      \* per VM: pendingStart.due
    syncDueAt,  \* watchLoop.syncDue, while it is set
    wake,       \* when the timer fires
    refusal     \* history: per VM, the start that was refused last, how many
                \*   times in a row, and when; its process has not ended since

timeVars == <<opts, now, dueAt, syncDueAt, wake>>
tVars    == <<vars, timeVars, refusal>>

AtMost(d, m) == IF d <= m THEN d ELSE m

\* WatchOptions.withDefaults
WithDefaults(o) ==
    [base |-> IF o.base <= 0 THEN DefaultBase ELSE o.base,
     max  |-> IF o.max <= 0 THEN DefaultMax ELSE o.max]

Duration(d) == ((d + MaxDuration + 1) % (2 * (MaxDuration + 1))) - (MaxDuration + 1)

\* Faulty: doubles to the end and caps then.
DelayCappedLate(o, attempt) ==
    LET d[i \in 0 .. attempt] == IF i = 0 THEN o.base ELSE Duration(2 * d[i - 1])
    IN  AtMost(d[attempt], o.max)

\* WatchOptions.delay: what is at MaxDelay already is not doubled.
Doubled(o, d) == IF d >= o.max THEN d ELSE Duration(2 * d)

Delay(o, attempt) ==
    LET d[i \in 0 .. attempt] == IF i = 0 THEN o.base ELSE Doubled(o, d[i - 1])
    IN  AtMost(d[attempt], o.max)

-----------------------------------------------------------------------------

\* schedule's due, for a look that the step has scheduled.
ScheduleLooks ==
    dueAt' = [v \in VMs |->
                IF pending'[v] = NoLook THEN 0
                ELSE IF pending'[v] = pending[v] THEN dueAt[v]
                ELSE now + Delay(opts, pending'[v].attempts - 1)]

ScheduleSync ==
    syncDueAt' = IF ~syncDue' THEN 0
                 ELSE IF syncDue THEN syncDueAt
                 ELSE now + Delay(opts, syncAttempts')

\* Faulty: a failed sync is not waited for.
WakesForLooksOnly(t) == \A v \in VMs : pending'[v] # NoLook => t <= dueAt'[v]

\* nextDue: no later than any of what is due.
WakesInTime(t) ==
    /\ \A v \in VMs : pending'[v] # NoLook => t <= dueAt'[v]
    /\ syncDue' => t <= syncDueAt'

\* The timer is set to the earliest of what is due, or to idle from now, and
\* to now if that is past.
SetTimer ==
    \E t \in {now + Idle, syncDueAt'} \cup {dueAt'[v] : v \in VMs} :
        /\ t = now + Idle \/ (syncDue' /\ t = syncDueAt')
              \/ \E v \in VMs : pending'[v] # NoLook /\ t = dueAt'[v]
        /\ t <= now + Idle /\ WakesInTime(t)
        /\ wake' = IF t < now THEN now ELSE t

\* Where a step of the loop leaves the times.  While a body runs the timer is
\* not waited for.
Record ==
    /\ ScheduleLooks /\ ScheduleSync
    /\ IF pc' = "select" THEN SetTimer ELSE wake' = 0
    /\ UNCHANGED <<opts, now>>

IsDue(v)  == pending[v] # NoLook /\ dueAt[v] <= now
SyncIsDue == syncDue /\ syncDueAt <= now

\* The timer has fired, and retryDue runs what is due: that and nothing else.
TimerFires ==
    /\ wake <= now
    /\ RetryDue
    /\ due' = {v \in VMs : IsDue(v)}
    /\ pc' = "list" <=> SyncIsDue
    /\ Record

\* It has fired after `idle` with nothing due.
IdleWake ==
    /\ pc = "select" /\ wake <= now
    /\ ~SyncIsDue /\ \A v \in VMs : ~IsDue(v)
    /\ call' = NoCall
    /\ UNCHANGED <<nodeVars, pc, reported, pending, syncVars, due, looking>>
    /\ Record

Body ==
    \/ FirstSync \/ Tick \/ Return
    \/ ListGuest \/ SyncFailed \/ SyncRunning \/ SyncEnd
    \/ WatcherError \/ OtherFileEvent \/ RemoveEvent \/ ChangeEvent
    \/ \E ok \in BOOLEAN : Step(ok)

\* A handler, a read or the scheduler takes its time; a select with a timer
\* that has fired does not wait.
Pass ==
    /\ now < MaxTime
    /\ pc # "done" /\ (pc = "select" => now < wake)
    /\ now' = now + 1
    /\ call' = NoCall
    /\ UNCHANGED <<nodeVars, pc, reported, pending, syncVars, due, looking,
                   opts, dueAt, syncDueAt, wake>>

NoRefusal == [pid |-> 0, times |-> 0, at |-> 0]

Remember ==
    refusal' = [v \in VMs |->
        LET told == call'.fn = "VMStarted" /\ call'.vm = v
            held == IF told /\ ~call'.ok
                    THEN [pid |-> call'.pid, at |-> now,
                          times |-> IF refusal[v].pid = call'.pid
                                    THEN refusal[v].times + 1 ELSE 1]
                    ELSE refusal[v]
        IN  IF \/ told /\ (call'.ok \/ pending'[v] = NoLook)
               \/ call' = Stopped(v)
               \/ held.pid # 0 /\ Status(v)' # held.pid
            THEN NoRefusal ELSE held]

TInit ==
    /\ Init
    /\ opts \in {WithDefaults(o) : o \in Options}
    /\ now = 0
    /\ dueAt = [v \in VMs |-> 0] /\ syncDueAt = 0 /\ wake = 0
    /\ refusal = [v \in VMs |-> NoRefusal]

TNext ==
    /\ \/ TimerFires \/ IdleWake \/ Pass
       \/ Body /\ Record
       \/ Node /\ UNCHANGED timeVars
       \/ Done /\ UNCHANGED timeVars
    /\ Remember

TSpec == TInit /\ [][TNext]_tVars

-----------------------------------------------------------------------------

\* What is scheduled is due within MaxDelay from now, and so does the timer fire
\* within `idle` of where the loop last was.
TimesTypeOK ==
    /\ opts \in [base : Nat \ {0}, max : Nat \ {0}]
    /\ now \in 0 .. MaxTime
    /\ \A v \in VMs : dueAt[v] \in IF pending[v] = NoLook THEN {0}
                                   ELSE 1 .. now + opts.max
    /\ syncDueAt \in IF syncDue THEN 1 .. now + opts.max ELSE {0}
    /\ wake \in 0 .. now + Idle

(***************************************************************************)
(* No due look is slept through: while the loop waits at its select, no    *)
(* pending look and no failed sync is due, however many file events, looks *)
(* and syncs have set the one timer anew since each of them was scheduled. *)
(***************************************************************************)
NothingOverdue ==
    [][pc = "select" /\ now' > now => ~SyncIsDue /\ \A v \in VMs : ~IsDue(v)]_tVars

\* Retry n (1, 2, ...) waits BaseDelay, doubled n - 1 times, MaxDelay at most.
Backoff(o, n) ==
    LET d[i \in 0 .. n - 1] == IF i = 0 THEN o.base ELSE 2 * d[i - 1]
    IN  AtMost(d[n - 1], o.max)

\* The doubling does not leave what a Duration holds.
Fits(o) == 2 * o.max <= MaxDuration + 1

(***************************************************************************)
(* A start that the handler has refused n times in a row is not told again *)
(* before the backoff of retry n is over, while its process goes on: not   *)
(* by a file event, a sync or a tick either.  MaxDelay is up to half of    *)
(* what a Duration holds.                                                  *)
(***************************************************************************)
BackoffHolds ==
    [][\A v \in VMs :
          call'.fn = "VMStarted" /\ call'.vm = v /\ call'.pid = refusal[v].pid /\ Fits(opts)
          => now >= refusal[v].at + Backoff(opts, refusal[v].times)]_tVars
=============================================================================
