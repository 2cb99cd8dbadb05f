# go-proxmox-local: a verification project

Paths below are relative to the repository. The TLA+ modules in this directory are
translated from the Go source; the docs and tests were read for what the code is *meant*
to do, and four places where the two differ are listed under "What the violations show".

## 1. The system

`go-proxmox-local` is a Go library for programs that run **on** a Proxmox VE node. It reads
guests from `/etc/pve` (pmxcfs), their processes from `/run/qemu-server` and `/proc`, and
changes guests through the PVE command line tools.

| component | source | state it keeps | operations |
|---|---|---|---|
| watch loop | `qemu/watch.go` | `reported`, `pending`, `synced`, `syncDue`, `syncAttempts`, owned by one goroutine | the branches of `Watch`'s select: tick, retry timer, file event, watcher error, cancel |
| status | `qemu/status.go` | none | `status`: pid file, then `/proc/<pid>/cmdline` |
| guests, read | `qemu/qemu.go`, `lxc/lxc.go` | none | `ConfigFile`, `Get`, `List` |
| guests, write | `qemu/qemu.go`, `lxc/lxc.go` | none (the node's config files) | `Create`, `Update`, `Delete` |
| lifecycle | `qemu/lifecycle.go` | none | `Start`, `Stop`, `Reboot`: one `qm` command each |
| command runner | `exec.go` | the resolved binaries | `Run`: dry run, missing command, deadline, typed errors |
| config format | `conf/conf.go`, `conf/digest.go` | none | `Parse`, `Format`, `Digest` |
| cluster, storage | `cluster/`, `storage/` | none | parse the output of `pvecm`, `pvesh` |
| codec | `internal/params`, `internal/property` | none | structs to and from key/value maps and property strings |
| client | `local.go`, `options.go`, `errors.go` | options | `New`, options, error sentinels |
| test double | `fakelocal/` | a directory tree, a log, `nextID` | `qm`, `pct`, `pvecm`, `pvesh` over the tree |

How they interact: `Watch` calls `List` and `status` synchronously from its goroutine and
calls the user's `EventHandler` back from it; the node (PVE, QEMU, the kernel's inotify
queue) runs beside it and is seen only through reads and events. `Create`, `Update` and
`Delete` call the runner, which runs `qm` or `pct`; callers, `qm` processes and the web UI
share the guest's lock and its config file.

What is hard: every read of the loop races with the node; events are merged, delayed
behind syncs, and lost when the queue overflows; three mechanisms (events, retries, syncs)
report the same starts and must not do so twice nor each leave it to the other; `Update`
is a read, a diff and a write with other writers in between; a command may be killed after
it took effect. `PROJECT.json` lists each such hazard at its line with the properties that
cover it, and the one that nothing covers.

What makes each component right:
- *watch loop*: a start is told once, and told at all; a failed start is retried as often as
  the options say and keeps its backoff; `VMsRunning` carries the whole truth or is not called; the
  loop's picture converges to the node's.
- *guest writes and runner*: each call is atomic against the guest as it then is, or has no
  effect; its error says no more than is so; repeating an update ends.
- *callers of several calls*: of two that are named one id, one creates the guest; an update
  puts back no more than what is inherent in a copy that was got earlier.
- *config format*, and the fake node that rewrites files with it: options stay in their
  section, and what `Format` or the fake writes is what `Parse` reads again.
- *codecs*: applying a config ends, and brings about what was asked and nothing else; an item
  of a property string reaches its own field, and what was read is written to read the same.

## 2. Modules

| module | what it is |
|---|---|
| `Watch` | `Client.Watch` and `watchLoop`, `status`, `List` as the loop uses it, and the node |
| `WatchContract` | abstract: the calls an `EventHandler` may see |
| `WatchHistory` | history variables over `Watch`, and the properties stated with them |
| `WatchTimed` | `Watch` with its clock: due times, the backoff and its width, the timer |
| `MCWatch`, `MCWatchTimed` | the modules TLC runs for them |
| `WatchProofs` | the inductive invariant of `Watch`, type correctness, `RetryNotReported`, and that `Watch` implements `WatchContract` |
| `WatchHistoryProofs` | the retry budget, that retries are kept, that a process is told once; that `VMsRunning`'s map is complete, and that no start is lost while no event is |
| `WatchTimedProofs` | the delays, that nothing due is slept through and no retry comes early; `WatchTimed` implements `WatchContract` |
| `GuestCommands` | `Create`, `Update`, `Delete` of `qemu` and `lxc`, `commandRunner.Run`, and `qm`/`pct` |
| `GuestStore` | abstract: a store where each call takes effect at once or not at all |
| `GuestRetry` | callers that repeat an update until it is done |
| `Callers`, `MCCallers` | `NextID` and then `Create`; `Get`, a change, and then `Update` |
| `GuestCommandsProofs` | the invariant of `GuestCommands`; that it, `Callers` and `GuestRetry` implement `GuestStore`; what one caller may rely on beside others |
| `ConfFile`, `MCConfFile` | `Parse` and `Format` |
| `FakeNode` | `fakelocal`'s `qm` and `pct`, over the texts of `ConfFile` |
| `ConfFileProofs` | that `Parse` puts each option into its section, that what it reads is written to read the same, that a plain text stays as it is, and what a `set` of the fake node does |
| `Codec`, `MCCodec` | `params.Decode` and `params.Encode`, in an update that is applied again |
| `PropertyString` | `property.Marshal` and `Unmarshal`, over the texts of `Codec` |
| `CodecProofs` | texts and numbers, to and from each other; what an update fails for, leaves alone and brings about, and that once is enough |
| `PropertyStringProofs` | where the items of a property string go, and that what was read is written to read the same |
| `FoldProofs` | what these share: least numbers, induction on texts, and the values that `FoldLeft` goes through |

Definitions called "Faulty" stand before the definition they vary. No specification uses
them: each is the definition with a plausible mistake, and shows that a property notices it
(`PROJECT.json`, "mutants").

### 2.1 Watch

Variables carry the names of `watchLoop`'s fields. A map entry that is absent is 0 or
`NoLook`: an entry of `pending` always has `attempts >= 1` and one of `reported` a positive
PID, so nothing is confused. `pc` is where the goroutine is: at its select, inside a sync
(`list`, `report`), inside `retryDue` (`retry`), or between the two pid file reads of
`fileEvent` (`look`).

| code | model |
|---|---|
| the select's branches | `Tick`, `RetryDue`, `Return`, `RemoveEvent`/`ChangeEvent`/`OtherFileEvent`, `WatcherError` |
| `startSync`, `sync` | `StartSync`, `BeginSync`, then `ListGuest` per guest, then `SyncFailed` or `SyncRunning`, `SyncGuest` per guest, `SyncEnd` |
| `retryDue` | `RetryDue` picks what is due (the sync first), `RetryLook` per look, in any order as over a Go map |
| `look` | `LookAt` = `RetryStart` or `LookForStart` |
| `start`, `schedule`, `runsAs` | `Start`, `Schedule`, `RunsAs` |
| the handler's answer | `ok`, chosen freely |

Granularity: a step makes at most one read of the node, except where two reads cannot be
told from one. `status` reads the pid file and then `cmdline` in one step: whatever happens
between them, the answer is that of a moment in between, or "stopped", which is also what a
moment during the exit of the process gives. `List` reads a guest's config and its status
in one step; no property relates the two at different times. A handler that blocks is a
step that is not taken.

Abstracted: time (anything scheduled may come due at any time: every order of ticks,
retries and events is there; `WatchTimed` has the times); configs (whether one reads, parses, is a
template); the `Events` channel's close, which ends `Watch` with an error and changes
nothing; file events other than Create, Write and Remove, which `fileEvent` ignores as it
does `OtherFileEvent`.

The node: QEMU is launched only while the guest has none, creates its pid file and then
writes it, takes it along when it exits, leaves it when it is killed; the file may be
cleaned up later. The kernel merges an event into an equal last one and puts one overflow
mark in place of what it drops.

`WatchTimed` keeps every action of `Watch` and adds when things are due. `Record` goes with
each step of the loop: what the step has scheduled is due `Delay` from now (`schedule`, and
`sync` for a failed sync), and back at the select the timer is set to the earliest
(`nextDue`, `SetTimer`). `TimerFires` is `RetryDue` with `due` as the clock has it. `Pass`
lets time go by, in a body as well as at the select: a handler, a read or the scheduler may
take any time, but a select whose timer has fired does not wait. Doubling a `Duration` wraps beyond
`MaxDuration`; at 7 the run's `DefaultMax` is half of what fits. The attempts of `delay`'s loop
are a recursive function, `Doubled` one iteration of it.

The history variables of `WatchHistory` and `refusal` of `WatchTimed` constrain nothing.

`WatchOptions.MaxRetries` is "how many times a failed VM start [...] is looked at again"
(`watch.go:52-55`). `RetryBudget` says so of one streak of retries, whatever comes between them:
exactly `MaxRetries` of them, none lost and none counted anew, then the streak ends. Of the start
itself no more could be said: what `schedule` gives up (`watch.go:246-248`) is nowhere remembered,
so each later sync (`watch.go:374-384`) or event of its pid file (`watch.go:270-280`) tells it
anew, with as many retries.

### 2.2 GuestCommands

A call goes through `pc`: `encode` (Create), `read` (Update: read, parse, diff), `run` (the
checks of `commandRunner.Run`), then the command's own `lock`, `write`, `exit`. A digest is
the config itself: equal digests, equal files. A config is a kind and a set of options.
`qm` and `pct` are external and modelled from what the code relies on: they hold the
guest's lock (`exec.go:144-150` quotes its path), refuse a create of an id that exists, an
update or a destroy of one that does not, and an update with a `--digest` that is not the
file's. A command killed at the deadline is gone with its lock: a worker it might leave
behind is not modelled. `lxc` has the same code as `qemu` run through `pct`; the guest's
kind tells them apart.

`GuestStore` is what a caller may rely on: between request and answer the call is applied
once, to the guest as it is at that moment, or it is not; nil means applied (or nothing to
do, or a dry run), `ErrNotFound`, `ErrLocked` and `ErrNotInstalled` mean not applied, any
other error leaves it open.

`GuestRetry` adds callers who repeat an update after `ErrLocked` (as `docs/design.md` has
it) and after an error that leaves open what happened.

`Callers` puts calls in a row. `named` is the id `NextID` has answered with, the lowest that
is free; nothing stops another caller from being named it too, and `qm create` refuses the
second. `copy` is the config of the last `Get`, `edited` the option its caller has changed
in it: `UpdateCopy` gives all of it to `Update`, whose digest is of its own later read.
`stale` and `maker` are history.

### 2.3 ConfFile and FakeNode

A line is a record with what `Parse` looks at: a leading `#`, a header, a key before a `:`.
`ReadLine` is the loop's body, `File` what is left at the end of the text, `Format` the
inverse. The specification grows a text line by line, so the reachable states are all texts
up to the bound, and the properties compare the scan with definitions over the whole text
that do not scan (`Body`, `Holds`, `Plain`). A text is `Plain` if a `File` can say all that is in it:
`#` lines inside a section are not (`Parse` makes options of those with a `:` and drops the others),
nor is a description of one `#` line. For such texts `conf.go:47-49` (`Format(Parse(x)) == x` "for
any config PVE wrote") is not checked: PVE may write a snapshot's description that way. White
space around a value, `\r` and a repeated `:` are below this level.

`FakeNode` has `runQM`/`runPCT` work on such a text: `Seed` is `WithGuest`, verbatim and
before any command; `SetGuest` is `create` and `set` alike (`readGuest`, the loop over
`parseFlags`, `renderGuest`), `DestroyGuest` is `destroy`. Its commands follow one another.

Assumed of the constants: `Snapshots` and `FieldOrder` are what sorting makes of a map's keys,
sequences without repetition, and no snapshot is called `PENDING` or nothing (`SnapshotsAssumption`,
`OrderAssumption`); a key begins with `#` or does not (`KeysAssumption`); and a description that
a command sets is written as `#` lines, none or not just an empty one (`DescriptionsAssumption`).
`Reparse` and `SetMerges` leave out options whose line begins with `#`, from a foreign first line
or from a flag: at the top of a file such a line is a description.

### 2.4 Codec and PropertyString

A struct's fields are constants: scalars of four kinds, behind a pointer or not, and indexed
families. `Read`, `DecodeIndexed` and `Fail` are `DecodeConfig` as `Update` calls it:
`decodeIndexed` walks over a Go map, so its keys come in any order. `Compare` encodes both
configs and filters; `Set` is `qm set`. The caller applies the same config until nothing is
left to set, as a reconciler does. Texts are sequences of digits, commas and words: number
parsing, `Split`, `Join`, the prefix match of indexed keys and the rounding of `float64` are
modelled by what they do. What the structs of `qemu/types.go` and `lxc/types.go` keep to is
assumed of the constants: no two fields share a key (`KeysAssumption`), the indices of a config
are those of its map's key type, a nil pointer is no value. A property string's names hold no
comma, which separates the parts of a tag, and no `=`. `EncodeConfig` calls go-proxmox-rest's encoder; `Encode` is
translated from `internal/params/encode.go`, its counterpart in this repository.

The properties say where they end, and the instance goes beyond. Without `AllFaithful`,
`Idempotent` fails for an integer above 2^Mantissa, which never equals itself decoded, and
for a list of one empty part, which decodes to no list. `AllFaithful` keeps to integers up to
2^Mantissa: there `Idempotent` and `Applied` show that rounding does no harm, above it the code
does write again on every update. `Applied` does not hold of an empty
list behind a pointer, which is not sent although "the value is always sent, even when zero"
(`encode.go:29-30`), nor of a part with a comma. Without `EntriesOnce`, `Idempotent` fails
for `virtio0` beside `virtio00`, which decode to one index. Not among the inputs: signs, fractions and exponents
of numbers, white space, upper case, and the description, which `Update` takes from the file
beside its options (`qemu.go:294`).

`PropertyString` scans items with `Unmarshal`'s loop, one step each (`ReadItem`), into a fresh
struct or one that has values; `Marshal` is a function. To keep its states apart from the
codec's, strings are read where an update has nothing to do (`NothingToUpdate`). `Reread` says where
it ends: a pointer to an empty text is left out, and a default field's text with a `=` is
read as another key. Booleans are what `strconv.ParseBool` takes (`Truths`, `Falses`); an integer is
digits up to `MaxInt`, the greatest that its type holds, and signs are left out. When an item does
not parse, `parseValue` has already replaced a nil pointer by one to a zero
(`property.go:155-159`), and `Unmarshal` returns its error with that zero in the struct:
`ReadItem` does the same, and `ItemsInPlace` says so. Values have no identity: that `Unmarshal` writes through a pointer
which the struct already has, and which a copy of it would share, does not show.

## 3. Runs

All runs finish within two or three minutes. Bounds are named constants in guards.

| run | checks | why the bounds suffice |
|---|---|---|
| `WatchGuest` | `TypeOK`, `RetryNotReported`, `RetryBudget`, `StartsKept`, `StartedOnce`, `RetryKept`, `MeetsContract` | the loop treats guests apart, so one guest shows them; two PIDs make "old" and "new", two retries tell a first from a last, three queued events hold a start or overflow, six node steps are a start, an end and a start |
| `WatchGuests` | `RunningMapComplete` | two guests: one read before and one after a change in the middle of a `List`, with every kind of config |
| `WatchTimed` | `TimesTypeOK`, `NothingOverdue`, `BackoffHolds` | one guest that starts and ends; three retries reach `MaxDelay` from `BaseDelay`, which is unset, below it and above it; ten units of time hold two backoffs and an idle timer |
| `WatchLive` | `Converges` | a queue of one event, so nearly all are lost; four node steps are an end, a launch, a pid file and its PID, so that a guest runs again as the PID it had; pmxcfs away for a while (a single config that cannot be read is `WatchGuest`'s) |
| `GuestCalls` | `TypeOK`, `CommandMatchesRead`, `MeetsStore`, `UpdatesSettle` | of `GuestRetry`: three calls of two clients, and any number of retries, are enough for a read, a foreign delete and create, and a write, and for an update in trouble by the other, by an edit, by a kill and by the lock; two options tell the diff from the whole |
| `Callers` | `MeetsStore`, `CreatedOnce`, `PutsBackOnlyStale` | two callers, alike (symmetry), and a dry run; one id, so that both are named it; two options, so that one caller's change and another's differ; both kinds, and `pct` missing; two calls and one edit make a foreign change before and after each read |
| `ConfFile` | `SectionsRight`, `RoundTrip`, `Reparse`, `SetMerges` | five lines: a description or an option, two headers and options in and between them; two commands on seeds of three lines, one that finds a foreign file and one that finds its own |
| `Codec` | `Idempotent`, `Applied`, `FailsForCause`, `LeftAlone`, `ItemsInPlace`, `Reread` | files with each option absent, canonical, in another form and undecodable; two families of which one's name begins the other's; a mantissa of three bits puts 2, 8 and 9 below, at and above the limit; a second command is one too many. Texts that each kind takes and does not take, an integer beyond `MaxInt` among them; three items are two of one field with another's between |

Deadlock is checked in the watch runs (`Done` stands for a `Watch` that has returned) and in
`Codec` (`Over`, the end of the caller's loop). It is off where the system really stops:
callers that have made their calls, a text at its bound.

Fairness of `Watch`: a body that runs goes on running (weak fairness of its steps). A branch
of the select that is ready again and again is taken, because Go chooses at random among
those ready: strong fairness of ticks, retries and events, each as a whole. `Converges`
further assumes that a handler called over and over accepts in the end
(`HandlerFairness`), and claims something only of guests that stay as they are and once
configs are readable. Nothing is assumed of the node. Fairness of `GuestRetry`: a call in
progress and its command go on, and a caller that owes a retry makes it; `UpdatesSettle`
claims something only for behaviours where kills, lock timeouts and read errors end.

### What the violations show

Each of these runs checks one sentence of the repository's docs against what the code does;
TLC's counterexample is short. All are about the watch loop.

- `WatchSeeded` / `SeededRanBefore`: a guest that starts after the run dir is watched but
  before the first `List` reads its pid file is seeded as if it "ran before Watch"
  (`watch.go:342-343`); its start is never told.
- `WatchOverflow` / `NoStartLost`: "a pending look reports its own start" (`watch.go:346`)
  does not hold for a retry of an older process; after an overflow, without ticks, the new
  process's start stays untold.
- `WatchStopped` / `StoppedIsGone`: a sync at a tick may overtake a queued Remove and tell the
  start of the guest's new process; handling the Remove then calls `VMStopped` ("its process is
  gone", `watch.go:37-38`) for that guest, whose process the handler has just accepted and
  which goes on running.
- `WatchUnparsable` / `RunningMapComplete`: `VMsRunning` is said to be called "only when
  every guest's state is known" (`watch.go:40-42`), but a running guest whose config does
  not parse is left out silently.

## 4. Proofs

`tlapm` checks all of them; the only assumptions are the named `ASSUME`s on the constants and
the hypotheses named below. They hold for any number of guests, PIDs, clients, options, fields,
lines and items, and any value of the bounds.

`WatchProofs`. `RetryNotReported` is not inductive alone: `EventLook` schedules a retry
without looking at `pending`, so one must know that `fileEvent` has deleted the entry
(`LookIsFresh`); `SyncGuest` compares with `found`, which must hold PIDs (`ReportsFound`);
and `TypeOK` needs that a failed sync's retry is within the budget (`SyncRetryBound`).
Their conjunction is `IInv`; there is a lemma per handler part (`ScheduleEffect`,
`StartEffect`, `LookEffect`) and one per group of actions. From it: `TypeCorrect`,
`NoRetryOfReported`. With `last <- reported` and `listed <- synced`, each step of `Watch` is a
step of `WatchContract` or stutters: `Refinement`. The interesting step is the retry of a
failed start, which calls the handler without comparing with `reported`; that it is no
repetition is exactly `RetryNotReported`.

`WatchHistoryProofs`. A step does one of three things to a guest's pending look (`StepOf`):
it leaves it alone, it drops it, which a look that still names the guest's process suffers
only with `VMStopped`, or it tells the start, of what is pending if anything is (`ToldAs`).
`StepKinds` shows this of every action, from `IInv`. `RetriesKept` is a corollary.
`BudgetKept` needs that a guest without a pending look has no refusals left on the books
while a body that may tell its start is still to come, and that those it may have otherwise
are the `MaxRetries` + 1 of a streak just ended (`Budget`, `Spent`).
`ToldOnce` assumes a node (`PlainNode`) that uses no PID twice, keeps its config dir mounted
and has no guest that runs with a template's, an unparsable or a missing config: List leaves
those out, and the loop then forgets their report. Its invariant `OnceInv` ties the process
that was accepted to `reported`, to the pid file, and to what a sync under way has found or
has yet to find; `FileStays` says why the last is so: while a process goes on, nothing but
itself writes its file.

In the same module, over what the file events hold: `MapComplete` is by `SteadyListed`: what List has passed of the guests that
stay as they are is in the map as they are. It assumes that the config dir stays and no config
is unparsable (`ListsAll`); the run `WatchUnparsable` shows why the second is needed.
`EventsTellStarts` is that the events alone lose no start. `KeepsInv` says, while no event has
been lost, that whatever the loop has seen of a guest and not yet acted on (a pending look,
the list of a sync) is still so, or the guest has stopped, or a later event tells that it is
not so (`Fresh`); that a queued Remove of a running guest has the Write of its new pid file
behind it (`RemovesOld`); and that each running guest is reported, given up on, in the queue or
still to be looked at (`AllReported`). PIDs may be used again. It assumes `PlainConfigs`: a
running guest with a template's, a missing or an unparsable config is left out of List, and
the sync forgets its report.

`WatchTimedProofs`. What `delay` computes after n attempts is an induction, by a least
counterexample: the recursive function exists and is one (`RunOf`, `DelayRuns`), is a number,
and is between 1 and `MaxDelay` if twice `MaxDelay` fits a `Duration`. The invariant of
`WatchTimed` adds that the timer, at the select, fires no later than anything that is due
(`Armed`); the step of `Pass` is then `NoDueLookSleeps`. `TimedRefinement` carries the contract
over. `TimesWithin` assumes `DelaysFit`: no `MaxDelay` is above half of what a `Duration` holds.
`BackoffKept` needs no such hypothesis, the property has it; `BackoffInv` says that a refused
start whose process goes on has a look pending that is due no earlier than its backoff
(`RefusalsPend`), and that what `retryDue` still has to run was due when it was picked
(`DueIsDue`).

`GuestCommandsProofs`. `CommandMatchesRead` says what a call in progress rests on; with the
types it is inductive (`CommandTypes`, `CommandsMatch`). `CallsAreAtomic` is the refinement
of `GuestStore`: the write of an update is allowed only if the file is what the digest is
of, and there `DiffSuffices` says that setting the diff sets all that is desired and
changes something.

In the same module, callers. The steps of `Callers` and of `GuestRetry` are steps of `GuestCommands` or leave
its variables alone, so `IInv` and the refinement carry over: `CallersAreAtomic`,
`RetriesAreAtomic`. Each client's step is one of a few kinds (`CallerSteps`), and while a client
holds a guest's lock no other changes that guest. `StaleCopies` is by `CopyOK`: a copy, then
the update that is called with it, then the diff of that update differ from the guest in what
the caller edited and in what is stale, and in nothing else. `CreatesOnce` is by `Created`:
between the write of `qm create` and its exit the guest is its maker's.

`ConfFileProofs`. Its theorems are of `ConfFile`'s `Spec`, where a text grows a line at a time and
a line too long ends the scan, and of the fake node's `FakeSpec`, whose commands write keys that
no seed has; so the lemmas are of any set of keys `K`. What has been read of a text (`WellRead`)
has two parts. `Placed` says where in the text the scan is (`ReadsSection`) and that each section
read so far holds what `Body` says of the text so far (`SectionsKept`). One more line is one of
three kinds (`QuietLine`, `OptionLine`, `HeaderLine`); the lemmas before them say how `Body`,
`LastHeader` and `Holds` change with it. So every text is read well, by its length (`AnyText`, from
`NothingRead` and `OneMoreRead`), and the invariant `ScanInv` is that the state is what is scanned
of the text, except that after a line too long it is `Placed` only. `SectionsRead` follows
(`ScanEnds`).

`FilesReread`: reading on after a text is reading from the state it left (`ReadOn`), so a written
file is read part by part: the description (`ReadDescription`), a section's options one after the
other (`ReadOptions`, by `FirstOptions`, what the first n of them make), a header (`ReadHeader`),
and the snapshots in their order (`ReadSnapshot`, by what is read of them so far, `Shows`).
`FileRereads` needs only that the scan's state has its type, and that a section has no key twice,
which `SetType` shows of `Set`.
`CommandsMerge` rests on the same lemmas: `GuestRereads` says what is read of a rendered
guest, whose options are those of the merged map in the order of `FieldOrder` (`ReadRendered`).

`PlainTextKept` goes the other way. What is a `Plain` text in the end need not be so on the way:
a `[PENDING]` may have no options yet, and the description one line `#`. `Tidy` is what remains
true of every prefix (`TidyLine`), and of a tidy text the other part of `WellRead` says that
it is what is written so far: the File above the section that is being read, as `Format` writes
it, then that section (`Written`), and that the description is the lines above the body
(`Described`). A line more is a `#` line, an option or a header (`WriteComment`, `WriteOption`,
`WriteHeader`); the last needs that the File so far has no snapshot at or after the new one, so that
`Format` writes the new one last (`FormatLast`). At the end the text is `Plain`, and what is
written so far is all (`WrittenFlushed`).

`FoldProofs`. A fold over a sequence is a sequence of values, one per element (`FoldExists`,
`FoldSteps`).

`CodecProofs`. `Number` and `Decimal` get their types by `FoldSteps` and by induction. Then
`FailuresHaveCause` and `OthersLeftAlone` are by one invariant (`UpdateInv`): what `decodeIndexed`
has still to visit it claims, and what is to be set was asked for, since `Encode` sends no
other (`SentIsAsked`).

`UpdatesApply` and `OneCommandEnough` rest on what the operators on texts do to each other:
`Number` reads what `Decimal` writes (`NumberOfDecimal`), `SplitAt` takes apart what `JoinBy` puts
together (`SplitJoin`, for a list that is not empty and whose parts hold no separator), `Float`
is the identity up to 2^Mantissa (`FloatMeans`), and the keys of families tell field and index
(`KeysDiffer`). With them, a value that decodes without loss encodes to one text and from no
other value (`EncodedReads`, `EncodedOnce`). `CycleInv` adds to `UpdateInv` that `current` is what
the file decodes to (`ReadInv`), as far as `decodeIndexed` has got, and that `changed` is the
filtered diff of the two configs; an update with nothing left to set is then `Applied`.
`OnceInv` says that after a command the file is `Settled`: each key asked for holds the text
that `Encode` writes. `SetSettles` and `SettledNeedsNothing` are its two steps.

`PropertyStringProofs`. `ItemsFound` is by an invariant over the items read (`InPlace`), which adds
that a field that has got an item is no nil pointer, so that a later error leaves it alone
(`InPlaceFailed`). It rests
on `TakesMeant`: cutting an item at its first `=` and comparing the key is the same as beginning
with the name and a `=`, if no name has a `=`. `WrittenIsReread` follows `Marshal`'s loop over the
fields: after k fields, reading what is written so far fills the first k and no other
(`NextField`). What is left out is a zero value (`LeftOutIsZero`), and an item that is written
is taken by the field it is of (`ItemTaken`) and parsed as its value (`FormattedParses`). Of
`Unmarshalling` it needs that the struct keeps the types of its fields (`PropsInv`).

Model-checked only: liveness (`Converges`, `UpdatesSettle`), since the provers do not do
fairness. Every other property of a passing run is stated by a theorem.

## 5. Plan

1. Done: the watch loop with its clock, its contract, history properties and proofs; guest
   commands with their store, retries, callers and proofs; the config file format and the
   fake node, with proofs; the parameter codec and property strings, with proofs.
2. Left to model: concurrent commands of the fake node; a caller of lifecycle commands
   beside `Watch`; the codec's nested structs and Stringers.
3. Left to prove: the properties of what is modelled next.

## 6. Not modelled

- `storage`, `cluster.Quorate`, `qemu/process.go`, and the filters of `List`: parsers of one
  command's output or of an argument list, without state or a second actor.
- `qemu/lifecycle.go`: one command each, passed to the runner that `GuestCommands` models; what
  it does to a guest is a step of `Watch`'s node.
- `local.go`, `options.go`, `errors.go`: construction and sentinels. The options that change
  behaviour are constants of the modules.
- Of `fakelocal`: `pvecm`, `pvesh`, the log and its assertions, and commands that run at once.
- `ListError`'s text and `Unwrap`; white space, signs and fractions in the codecs' texts.
