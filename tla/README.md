# TLA+ models of MTPLX

MTPLX serves one language model on one Apple machine. All work on the model is
done by one thread, the *model owner*; HTTP request threads, background jobs
and an event loop hand it work and wait for answers. Around it live a few other
shared things: the generation slot of each conversation, the SSD store of saved
prefixes, the fans. This directory holds TLA+ modules that model how work is
handed over, ordered, batched, cancelled, cleaned up and shut down, and how
those shared things are taken, written, collected and given back; TLC
configurations that check them on small instances; and TLAPS proofs of their
safety properties for every instance.

Paths below are relative to `src/`. `PROJECT.json` maps every definition to the
lines it models and lists the hazards, the runs, the mutants and the theorems.

    tlc -workers 2 -config MCSchedBacklog.cfg MCModelScheduler
    tlc -workers 2 -config MCColdTier.cfg MCColdTier
    tlapm MTPBatchProofs.tla

## 1. The system

| Component | State it keeps | Operations | Hard behaviour | What makes it correct |
|---|---|---|---|---|
| Model work scheduler, `mtplx/model_scheduler.py` | three deques (foreground, postcommit, persistence), pump budget, owner clocks, keepalive, shutdown flag | submit in a band, cancel by key, pump, arm and disarm the keepalive, shutdown; the owner loop | any thread submits while the owner waits on one timeout computed from four clocks; work is dropped by key, budget and shutdown | no accepted future is lost or left open; band order; newest job of a key wins; nothing drops what it may not |
| Serve loop, `mtplx/server/openai.py` | request clocks, `foreground_active`, encodes waiting | begin and end a generation, submit the tail (postcommit), warm rungs, encode dispatch, pump loop, shutdown flush | check-then-act across threads; milliseconds between a generation and its tail | no encode between a generation and its tail; an idle server makes progress; the flush outwaits encodes |
| MTP batch service, `mtplx/server/mtp_batch.py` | pending and active jobs, pump flag, each job's finalize ownership | submit, cancel, claim finalize, pump, seal, run, clean up, poison, shutdown | a pump on the owner thread and request threads share a condition; cleanups fail; rows cancel while the group runs | one pump; every job answered once; results only after cleanup; truthful cleanup scope |
| Batched AR service, `mtplx/server/openai.py` | pending and active jobs, rows of the batch generator | submit, cancel, pump, admit, step, remove rows, fail all | two copies of the same fact (rows and active map); every call may raise | rows and jobs in step; every job in one list; one pump; one answer |
| Engine sessions, `mtplx/engine_session.py` | the registry of records, each record's lock, in-flight flag and cancel signal; pending postcommit, response tail | take, wait for, fork off or be refused the slot; end a generation; memory release; stale sweep; clear | a slot taken without the guard, its flag set later; the sweep and the release race both | one generation per session; a refusal has a cause; every slot comes back |
| Cold tier, `mtplx/cache_bank/cold_tier.py`, `reconcile.py` | manifest rows, entry directories and blobs on disk; claims of writes in flight, store generation | write (two threads), install, evict, purge, reconcile walk, archive, restart | writes share blobs with entries being deleted; scans outside the lock; a kill at any point | a row names a whole entry; a replacement never leaves none; nothing leaks |
| Smart fan controller, `mtplx/thermal.py` | request leases, what is commanded, idle and idle-engine clocks, soak hold | begin and end a lease, ramp, restore with retries, reconcile stale leases, detach, restore now | one worker decides under a lock and commands outside it; commands fail or land unverified; leases leak | leases ramp the fans, the fans come back, only stale leases are dropped |
| Session bank, `mtplx/session_bank.py` | RAM prefix cache, pending encodes | lookup, store, lease, evict, dispatch | an encode outlives its entry | a lookup never returns another prefix's state |
| Continuous scheduler, `mtplx/batching/` | admission counts, phase queues | step, cancel, admit | cancels and hook exceptions in the middle of a step | no slot leaks |

How they interact: a request takes the slot of its session and a fan lease, and
ends in `submit_foreground` (a solo generation) or in one of the two batch
services, whose pump is a foreground item of the scheduler. After a generation
the request's handler submits a postcommit to the idle band; a generation or a
postcommit that stores an entry in the session bank makes the bank dispatch an
encode to the persistence band, which hands the cold tier's writer an entry to
write; memory pressure makes the owner spill entries there itself. The event
loop's pump loop arms slots with which an encode may pass a postcommit on an
idle server. At exit the lifespan flushes the encodes, shuts the batch service
down and then the scheduler.

The other parts (numerical kernels, sampling, formats, downloads, governors,
dashboard, desktop app, command line) are listed with reasons in `PROJECT.json`
and under "Not modelled" below.

## 2. The modules

| Module | Models |
|---|---|
| `ModelScheduler` | `ModelWorkScheduler`: every operation and the owner loop, its properties and its inductive invariant |
| `WorkQueue` | what the scheduler promises, without timers, numbers and locks; `ModelScheduler` implements it |
| `ServeLoop` | the server around the scheduler; extends `ModelScheduler` and wraps its actions |
| `MTPBatchService` | `MTPBatchGenerationService` with each job's `MTPBatchFinalizeOwnership` |
| `BatchedARService` | `_BatchedARGenerationService` and the rows of its generator |
| `BatchContract` | what a batch service promises the requests, without pump, locks, lists, rows and cleanup; `MTPBatchService` and `BatchedARService` implement it |
| `EngineSession` | the generation slot of a session id: registry, records, requests, release, sweep, clear |
| `ColdTier` | the SSD store: its two writers, eviction, purge, the reconcile walk, archive and a kill |
| `SmartFans` | `SmartFanController`, the requests' leases and the fan-mode endpoint |
| `...Proofs` | lemmas and theorems about the module they extend; one each for `ModelScheduler` (with `WorkQueue`), `ServeLoop`, `BatchContract`, `MTPBatchService`, `BatchedARService`, `EngineSession`, `ColdTier`, `SmartFans` |
| `MC...` | the constants of the instances TLC checks |

A component's module ends with the inductive invariant `IInv` (`FenceInv` in
`ServeLoop`) its proofs use, as a conjunction of named parts, and with what some
properties need on top of it (`TimerCovers`, `ContractInv`, `BatchIsFirst`).

### ModelScheduler

`Init` is the constructor. One action is one critical section of the
scheduler's condition, or one step of the owner thread outside it. A submission
includes everything `_submit` does: coalescing, the budget, disarming the pump,
the notify. `TakeNext` is one pass through `_take_next`: `TakeForeground`,
`TakeIdle`, `TakePersistence`, `Exit`, `TakeKeepalive`, `TakeOwnerIdle` or
`Wait`, in the code's order of priority. The owner then goes through `taken`
(popped, its kind not yet published), `claimed`, `running` and `recording`,
the points where another thread sees different things.

Data: a deque is the set of its items, ordered by their sequence numbers, which
the code draws in the critical section of the append. A point in monotonic time
is the number of ticks until it is reached, so clocks never grow and the state
space is finite. Bytes are weights; a job weighs nothing while the session bank
still holds its entry (`banked`), as `_pinned_bytes` computes it. A work item's
result or exception is one outcome, "finished". Left out: statistics, and the
park flag (it only decides whether the exited thread parks).

### ServeLoop

A request is a foreground item, its generation, and an optional tail: a
postcommit of the idle band or, inline, a foreground item that the handler
awaits through `asyncio.wrap_future`, and which is cancelled in the queue when
the handler's task is (`CancelInlineTail`: `timeout_graceful_shutdown` of the
server, `mtplx/server/openai.py:45360`). Nobody cancels the future of a
generation: a thread waits for it, and a client that leaves sets an event the
generation reads. The module
conjoins the scheduler's actions with the server's variables: `stage` of the
lifespan, `clockQuiet` (the later of the two request clocks),
`foregroundActive`, and `pump` (how far the pump loop has come through its three
reads, each under locks of its own, to the arming). `trafficQuiet` is a ghost: what `clockQuiet` would be if warm rungs
stamped nothing. `ServeTick` adds the assumption the server's comments make of
its own timing: between adjacent statements of one thread, and from the end of
a generation to the submission of its tail, less than a tick passes. A tick is
thus the shortest grace of interest.

Left out: a postcommit that is deferred and submitted again appears as another
item of the idle band; prompt scoring calls `begin_foreground` away from the
owner thread and the bank's writer queue has a lock of its own; neither is
modelled.

### MTPBatchService

A request thread's `Submit` sets the flag under the condition; `SchedulePump`
calls the scheduler after it. The seal is split where the condition is
released: `SealBegin` and `SealWakes` drain the cancelled jobs, `SealSelect`
selects or waits, `SealAdmit` admits, `Discard` answers the drained jobs. While
the condition is held (`Unlocked` is false) nobody else enters, but a client
may set its own event and a claim may take the ownership's lock: the actions
`Cancel` and `Claim` stay enabled. A future distinguishes a result, the
cancellation error and any other error, which is what the contract compares. A run is solo, one row after the other
(b1-exact), or a cohort; each may raise, each cleanup may fail and poison the
service. `StopBegin`, `StopFail`, `StopEnds` are the lifespan's shutdown and its
30 s wait. Left out: `pump_once` and a service without a scheduler, which no served
configuration has, and a scheduler that refuses the pump (section 6). A
publication is one step: it only fills in answers, the request decodes the text.

### BatchedARService

A row and its job are one identity in two places, `rows` (the generator) and
`active` (the map). `AdmitTake`, `AdmitFirstRead`, `AdmitSecondRead` and
`AdmitInsert` are `_admit_pending`; `RemoveTake`, `RemoveRows` the removal of
cancelled rows; `Step` a call of `generator.next()` with any set of responses
and any of them final; `Handle...` one response each. Every call that may raise
has a failing outcome, which leads to `FailAll` and the finally clause `Close`.
The history variables `lost`, `unseen` and `dead` record the three ways the
code can lose an open job, so that the properties can say *only these*. The
initial cohort wait changes no state. The scheduler's shutdown under this
service is not modelled.

### BatchContract

The two services batch for different engines and share no code, but they owe
their requests the same. `Accept` and `Refuse` are a submission, `CancelJobs` a
cancellation, `Admit(S)` lets a set of waiting jobs into the group that runs,
`Settle` answers jobs, lets them leave the group or loses them, `CloseDown` ends
acceptance and admission. What is promised is in the guards: an admitted set
leaves no waiting job of the same lane with an earlier ticket behind, unless it
was cancelled; the group stays one of `Groups` (as many jobs as fit, of one
key); a result goes to jobs of the group only, "cancelled" to cancelled jobs
only, and no answer to a job that has one.

In the MTP service the group is the sealed one, nobody joins it while it runs,
nobody is lost, and shutdown and a failed cleanup close the service. In the AR
service there is one lane, jobs join at any step, the group counts the rows
about to be removed, `lost` are the two histories of lost jobs, and nothing
closes it.

### EngineSession

One session id; other ids share only the registry's lock. A record is a number,
given as records are made, because what goes wrong here goes wrong between two
records of one id: one that a sweep or a clear has dropped while a request still
held a reference to it, and its successor. Of a record the model keeps who owns
its `_lock`, its `in_flight` flag and whose cancel event it carries. A request
goes from `looked` (the registry has answered) to the slot in one step under the
release guard (`TryFree`), or by an acquire without the guard (`Acquire`) and
its flag afterwards (`Hold`), or leaves it (`forked`, `busy`). `Unflag` and
`GiveBack` are the two statements of `end_generation`. The release is
`release_idle_sessions`: looked up, held under the guard, evicting, given back;
the sweep keeps the registry's lock and the guard from its check to its pop.
`stale` is the age of the record filed; it does not advance while a request is
on its way to the slot, an hour being longer than any of the code's waits.
`cleared` and `met` are history.

Left out: the pending postcommit and the response tail of a record (their
outcomes are taken by callers outside this file), and metadata.

### ColdTier

The disk is three sets. Each of the two writing threads, the writer's and the
model owner's spill, carries the entry it writes, the blobs it still has to
write, and its eviction pass. A step is one critical section of `_base_lock` or
one file operation outside it. Where the code holds the lock across two effects
a kill may separate (a directory and its row, a row and its directory), the
steps are two and `lock` is held between them. The claims are computed from the
threads' places, as the code computes them, with the difference that matters:
the writer claims all its digests before it looks, a spill each as it comes.
`moved[s]` says that `_store_generation` has changed since scanner `s` read it;
the generation itself need not be stored. The walk is `reconcile_store` in
delete mode, with the two reads of `read_manifest` as two steps. `Archive` is
`archive()`, which renames the store away whatever its flush answered; `Crash`
drops everything but the disk.

The byte budget is a cap on the number of rows: eviction compares a running
total with a limit, and so does the model, with rows for bytes. `Skip` and
`Retire` take victims in any order, since restores may touch rows at any time.
History: `torn`, the rows written in one of the two ways the code cannot protect
(`TornNow`); `spoiled`, writes whose blobs an archive took; `crossed`, passes
during which another thread retired rows; `quiet`, a walk no write overlaps and
to which the disk has refused nothing. A deletion the disk refuses (`left`, in
the walk and in a purge) leaves the file where it is; that `WalkReclaims` is
about walks without one is all the code promises (`mtplx/cache_bank/reconcile.py:361-365`).

Left out: the codec and the checks of a payload, the queue of pending writes,
the content keys of the memo of reused blobs, the archiving of a store of an
older layout at start-up, a walk with `dry_run`, and restores, which only read
(they touch a row's time of use, see above).

### SmartFans

The worker takes one decision under the lock and carries it out in two or more
steps outside it: a ramp (`RampCapture`, `RampHook`, up to two `RampCommand`s,
`RampFiled`), a restore, an activity probe, a soak probe. A command succeeds, or
fails having reached the daemon or not (`Outcome`). Clocks are the few values
the decisions tell apart: `idle` is fresh, debounced or beyond the soak cap,
`window` open or older than the reconciler's patience. `overtaken` stands for
the comparison of the generation a ramp captured with the present one. Requests
may leak their lease, and their id may come again once it is gone. The
operator's endpoint is two steps for each mode: what it does first, and the
command that decides whether the mode changes. `covered` and `adrift` are history.

Left out: the time between two probes and the backoff of a restore (either
decision may come first), a configuration without the soak hold, what a probe's
answer means beyond busy or idle, and the marker file other processes leave
(`check_and_recover_stale_max`). `End(q, TRUE)` is an end with
`wait_for_restore`: it ages the idle clock past the debounce and skips the soak
hold; the caller's wait itself only reads.

## 3. The runs

"Passing" runs check properties to the end of the state space. "Violation" runs
show TLC finding the program doing otherwise than its own comments say.

| Run | Instance | Shows |
|---|---|---|
| `sched_backlog` | one foreground item, four encodes, two of one key, weights 1, 1, 3, 1 and a budget of 2 | `NoLostWork`, `NewestWins`, `BudgetDropsOnlyPinned`, `BudgetFits`, `ExitLeavesNothing`: however encodes leave their deque, nothing is lost or wrongly dropped |
| `sched_live` | a postcommit, an encode, the pump, the keepalive | `OwnerNeverOversleeps`, `EveryFutureResolves`, `OwnerEnds` |
| `serve_loop` | two requests, a postcommit tail and an inline one, a rung, an encode | `ForegroundInOrder`, `TailGapFence`, `ImplementsWorkQueue` |
| `batch_cohort` | three jobs, two of one key, groups of two | one pump, no job stranded, truthful scopes, results after cleanup, shutdown waits for the owner; `ImplementsContract` |
| `batch_live` | two jobs of one key, b1-exact | `EveryJobAnswered` |
| `ar_batch` | three jobs, two rows | `OnePump`, `HeldOnce`, `RowsInStep`, `ImplementsContract`, `EveryJobAnswered` |
| `cold_tier` | two entries that share a blob, a cap of one, archive, kill | `RowsAreWhole`, `EvictionLeavesACopy`, `WalkReclaims` |
| `sessions` | three requests, two of which name the session, two records, one poll, a clear | `OneGeneration`, `RefusedByAGeneration`, `SlotComesBack` |
| `smart_fans` | two requests, one change of the fan mode | `CommandedIsReal`, `DropsOnlyStale`, `LeaseRamps`, `FansComeBack`, `LeaksAreDropped` |
| `ar_batch_cancel`, `cold_reconcile`, `fans_detach` | the same instances | violations, section 4 |

One run of every component but the serve loop (whose scheduler part inherits the
scheduler's) also checks the module's `TypeOK`; in some modules it adds
to the types the one relation the proofs start from (who owns a slot, who holds
a lock, what a failed ramp excludes).

Why the bounds are enough. `sched_backlog` needs two jobs of one key for
coalescing and three jobs in the deque at once: an older one the budget must
spare (its entry is still banked) or drop first, one that exceeds the budget
alone, and the newest, which is never dropped. No order of times matters to
what is dropped, so the graces are zero there and every due item is taken at
once; the timed waits are checked by `sched_live` and the serve run. In the serve
run they matter: the idle grace (0.3 s) and the quiet grace (0.25 s), which
differ by less than the shortest grace, are one tick each, and the pump loop's
`_IDLE_PUMP_AFTER_S` (5 s) is three, more than the two together, as its comment
says. (The grace of an item is any number of ticks up to the idle grace.) Two
requests are the least for which "in order" and "a foreground arrival takes the
slot away" mean something; with the inline postcommit of the second there is a
foreground item that may be cancelled while another waits behind it.
`PumpBudgets` holds the budgets the server uses, 1 and 4; `PumpCap` (8) is
the code's constant. A group is full at two instead of eight: with three jobs
there is a full group, an underfull one and a job left for the next seal. Three
jobs for two AR rows put one job in the pending list while others run.
`KeepaliveInterval = 0` stands for a keepalive that is never armed. `sched_live`
arms it, with an attentive window one tick longer than the interval so that
beats happen; it has no foreground item, which is taken at once whatever the
clocks say: the timed waits are those for a postcommit that is not due, an
encode behind it, a beat and the owner-idle hook. Requests never come back: one
job or item is one submission, and a later submission is another item.

In `cold_tier`, one entry needs blobs a and b, the other only b, as the copies
of one conversation share their prefix. That is the least with which a write may
find a blob already there, reuse one an eviction is about to delete, replace the
only other entry, and retire an entry whose garbage is in use; each of the two
threads may write either entry any number of times. Under a cap of one every
second write evicts. In `sessions` the second record is the successor of one that
was cleared or swept; a third would meet only its predecessor again. One poll is
one wake of a waiting request and one timeout. Two named requests and one that
only matched the prefix are a holder, one that waits and one that forks. In
`smart_fans` two leases are one that is leaked or ends and one that begins at the
wrong moment; requests come any number of times; one call of the endpoint is
enough to race with the worker, a second would start where the first has ended.

`CHECK_DEADLOCK FALSE` where the system stops when all its work is done. The
scheduler's runs and the cold tier's keep the deadlock check: the scheduler's
clocks always tick, and a writer may always be started, or the process killed.

### Fairness

Only runs under a specification with fairness check liveness.

- `ModelScheduler!Fairness`: the owner thread keeps running and time passes
  (weak). The work an item runs ends: generations have token budgets and
  deadlines. Nothing is assumed of callers.
- `MTPBatchService!Fairness`: the pump goes on (weak), because the owner
  thread runs what the scheduler took; a submitter that set the flag calls
  `_schedule_pump`, its next statement; the shutdown thread fails the jobs it
  took. The seal's 20 ms run out (`SF` on `SealSelect(TRUE)`): notifies can
  wake the seal before, but only finitely often in 20 ms.
- `BatchedARService!Fairness`: the pump goes on (weak), and every row that is
  in a generator that is stepped again and again reaches its token budget or a
  stop token (`SF` on a step in which that row finishes).
- `EngineSession!Fairness`: a request that has come runs on, its generation
  ends, the release ends its eviction, and the sweep its critical section (all
  weak). Nobody need come, stop a request or clear the session.
- `SmartFans!Fairness`: the worker runs on, and the debounce, the soak cap and
  the idle window run out (weak). The worker's loop ramps and probes again and
  again if it can again and again (strong): the interval between two probes
  leaves time for a ramp, and probing is due again after every interval. A
  restore that is retried for ever succeeds once (strong). Nothing is assumed of
  requests, of a ramp's success, of the probe's answers or of the operator.

## 4. Where the program and its words differ

Three runs show a disagreement that has consequences.

1. `ar_batch_cancel` (a bug). `_admit_pending` reads each job's cancel event
   twice, once to collect the jobs to fail (`mtplx/server/openai.py:4878`), once to keep
   the others (4879). A cancel between the two drops the job from both; nobody
   ever answers it. The other exceptional losses (`lost`: an exception between
   two lists, at 4886-4909 and 5292-5294; `dead`: the generator's constructor, 5176,
   outside the `try`) are stated by `HeldOnce` and `OnePump`.
2. `cold_reconcile` (a bug). `read_manifest` reads the rows and only then the
   store generation, without the lock (`mtplx/cache_bank/reconcile.py:248`). A row
   installed between the two is in neither the manifest the walk read nor, by
   the generation, a change since: the walk deletes the entry's directory or its
   blobs and leaves the row. `_delete_unreferenced_blobs` reads the two in the
   other order, and `RowsAreWhole` holds of it.
3. `fans_detach`. `detach()` promises an external owner that no scheduled
   restore races it back to auto (`mtplx/thermal.py:1567`). A restore the worker
   has already begun, outside the lock (2137), lands after the pin.

Further disagreements, each with a configuration that is not one of the runs:

| Configuration (module) | What the code does otherwise |
|---|---|
| `MCServeWarmRungs.cfg` (`MCServeLoop`) | `IdleServerArms`: the comment at `mtplx/server/openai.py:32580` says rungs never stamp the traffic clock; a rung's prefill does, through `begin_foreground` (24852, 31828, 4201, 24840) |
| `MCServePumpRace.cfg` (`MCServeLoop`) | `PumpNeverRacesTail`: the comment at 24823 says an armed pump can never race a tail; between the pop of an item and the publication of its kind (`mtplx/model_scheduler.py:893`) the pump loop (24877-24882) sees an idle server |
| `MCServeFlush.cfg` (`MCServeLoop`) | `FlushOutwaitsEncode`: the same window (`mtplx/model_scheduler.py:894`, 1004) hides a popped encode from the shutdown flush, which the comment at 24962 says it outwaits |
| `MCBatchB1Exact.cfg` (`MCMTPBatchService`) | `TruthfulScope`: when a b1-exact group stops early, the rows that never ran never finish their ownership, and a claim for them still answers that the owner cleans up (`mtplx/server/mtp_batch.py:72-78`, 455-458) |
| `MCSessionRelease.cfg` (`MCEngineSession`) | `ReleaseExcludesGeneration`: `hold()` looks a record up and lets go of the registry lock; the stale sweep drops the record; a request makes and holds a second one; the release then holds the orphan and evicts the session's entries under the generation (contradicting `mtplx/engine_session.py:1654-1658`) |

`TailGapFence` is what the fence does guarantee: an encode enters the gap only
on an armed slot. `TruthfulScope` holds of cohort numerics, and is proved there.

Noted while reading or modelling, without a configuration of their own:

- Cold tier. `archive()` renames the store's directory also when its flush has
  timed out; a write in flight then installs a row whose first blobs have gone with the
  old store (`spoiled`). Two passes, the writer's and a spill's, may each hold a
  count of rows from before the other's retirements and retire each other's new
  entry (`crossed`).
- Engine sessions. The comment at 1025-1029, that a waiter that failed to take the
  lock reads the signal of a holder that exists, is not so between a waiting
  acquire and its hold, nor while a release holds the slot: the signal is the
  previous holder's.
- Fans. After Max to Smart, `restore_now` restores nothing, since `detach` has
  forgotten the ramp: the fans stay at max until the next lease has come and
  gone. A request that read the mode before the pin takes a lease whose end
  restores auto under Max. A soak reading in flight across `begin_request` is
  filed for the next idle period. The reconciler samples: an engine that works
  between two probes counts as idle throughout.
- Postcommits. One aborted inside `_store_retokenized_history_snapshot` is
  logged and not armed again (`mtplx/server/openai.py:29170-29177`, against the
  comment at 29043). Its record is filed after its submission (29205, 29228),
  and an abort leaves it pending, so that a later request may report a cancelled
  job as completed. One cancelled while queued leaks its fan lease (29100), which
  only the reconciler ends (`LeaksAreDropped`).
- Scheduler. The byte budget is enforced by the next submission only: memory an
  eviction pins after the last one stays (`mtplx/model_scheduler.py:849`).
- Shutdown. When the MTP service's shutdown raises after its 30 s, the
  scheduler's is skipped (`mtplx/server/openai.py:36785`).

## 5. The proofs

Each `...Proofs` module proves, for every value of the constants its component
allows (the named `ASSUME`, which TLC's runs evaluate), the same formulas the
runs check. The shape is the same everywhere: an inductive invariant `IInv`, one
lemma per action with one step per part of it the action can disturb, `SpecIInv`,
and the properties from `IInv`; action properties from `IInv` and one look at the
actions that could break them. `TypeCorrect` is in every component's module.
`ShutdownStopsAdmission`, `AnswersOnce`, `FairlyAdmitted` and `UntouchedStayOut`
are proved and are in no run of their own. `ImplementsContract`, which the runs
check, implies `AnswersOnce` and, through `ContractIsFair`, `FairlyAdmitted`; it
implies `ShutdownStopsAdmission` but for the flags `admitted` that a claim reads.

| Module | Theorems |
|---|---|
| `ModelSchedulerProofs` | `WorkIsNeverLost`, `CoalescingKeepsNewest`, `ForegroundFifo`, `ExitIsClean`, `SchedulerImplementsWorkQueue`, `BudgetIsKept`, `BudgetSparesBanked`, `OwnerSleepsSafely` |
| `ServeLoopProofs` | `ServeImplementsScheduler`, `RequestsStartInOrder`, `ServeImplementsWorkQueue`, `TheFenceHolds` |
| `BatchContractProofs` | `ContractIsFair` |
| `MTPBatchProofs` | `OnePumpEver`, `NobodyIsStranded`, `ScopesAreTruthful`, `ResultsAfterCleanup`, `ShutdownWaits`, `ShutdownAdmitsNobody`, `AnsweredOnce`, `UntouchedJobsStayOut`, `ServiceKeepsContract`, `AdmissionIsFair` |
| `BatchedARProofs` | `OnePumpEver`, `JobsAreHeldOnce`, `RowsStayInStep`, `AnsweredOnce`, `ServiceKeepsContract`, `AdmissionIsFair` |
| `EngineSessionProofs` | `OneGenerationPerSession`, `RefusalsHaveACause` |
| `ColdTierProofs` | `RowsStayWhole`, `PassesLeaveACopy`, `QuietWalkReclaims` |
| `SmartFansProofs` | `CommandedMeansMax`, `ReconcilerSparesTheNew` |

Why each needs its strengthening:

- **ModelScheduler.** `NoLostWork` speaks of `pc` and `item`, so it needs
  `OwnerBookkeeping` (which future state goes with which place of the owner).
  `NewestWins` is about sequence numbers, so it needs `Numbered` (drawn once, in
  order, none beyond the counter). `ForegroundInOrder` forgets why it holds as
  soon as the earlier item is popped; `ForegroundBehind` keeps it: while an
  earlier item is unresolved, whatever came later is still queued, unless
  shutdown dropped it. The recursion-free choice of `Oldest` is justified by
  `LeastExists`, from the well-foundedness of finite sets of naturals. The
  refinement is a step simulation under the mapping waiting =
  the three deques, taken = the owner's item, open = not shut down, bridges =
  the pump budget.
- **The byte budget.** What the deque pins is a fold over a set, and which jobs
  are dropped is a choice among sums. The provers do not take an induction over
  finite sets as a rule, so `SumsAgree` and its neighbours argue by a smallest
  counterexample: among the sets for which the sum is wrong one has the fewest
  members, and taking a member out of it leaves a smaller one. From the sums:
  dropping the oldest pinned jobs one by one reaches the budget or leaves only
  the new job pinning memory (`BudgetFits`), never passes over an older pinned
  job, and never drops one when the rest fitted without it
  (`BudgetDropsOnlyPinned`).
- **The owner's timer.** `OwnerNeverOversleeps` says that a waiting owner has
  nothing to do before its timer runs out. By itself it is not inductive: that
  nothing is due now says nothing of the next tick. `TimerCovers` is: the timer
  runs out no later than any deadline there is by now. A tick lowers both by one;
  a call that moves a deadline nearer notifies and ends the wait; every other
  call moves deadlines away or removes them. This is the part of "no wait misses
  due work" that needs no fairness; that due work is then done is
  `EveryFutureResolves`, which TLC checks.
- **ServeLoop.** Every step of the server is a caller's step, an owner's step, a
  tick or a stutter of the scheduler, so `ServeSpec => Spec` and the scheduler's
  theorems hold of the server. `TailGapFence` speaks of the moment an encode is
  popped; `FenceInv` adds why it is not popped in the gap: while a tail is owed,
  its generation is still being recorded or the quiet grace has lost no tick.
  The theorem assumes `QuietGrace > 0`: with no grace there is no fence.
- **MTPBatchService.** `NoJobStranded` and `AnswersOnce` are about every job's
  future, so they need to know where an open job is (`HeldAreOpen`), that the
  sets share the jobs out (`Apart`), which of them are in use at which place of
  the pump (`Places`) and what shutdown has emptied (`ShutDown`).
  `PublishAfterCleanup` needs to know, between the run and the publication,
  whose ownership is finished (`Finishes`) and that a run has settled the rows
  it is done with (`RunSettles`): a solo run and a row of b1-exact settle one
  row, a cohort all of its rows. `TruthfulScope` is proved without b1-exact
  (`GroupFinishes`); with it, its second half is false (section 4) and its first
  half, `UntouchedStayOut`, is proved of both profiles. The head of the pending
  list is a `CHOOSE` over tickets: it stays the same when another job is
  submitted because it depends on the tickets of those pending only.
- **BatchedARService.** A row may outlive its job only as `failed`
  (`RowsFollow`); a job is in one list (`Apart`, `HeldAreOpen`). That a batch
  fits the free rows is counted when the jobs are taken, before they are rows
  (`Room`), from the bound on the first jobs by ticket, which needs that tickets
  are drawn once and in order (`Tickets`, `FirstIsBounded`).
- **The contract of the batch services.** Each step is mapped to a step of
  `BatchContract` or a stutter. The hard case is the admission. In the MTP
  service jobs are selected in one step and admitted in another, so `ContractInv`
  carries over what was true at the selection: the jobs are the first of all live
  jobs of their key (`SelectionIsFirst`), which a cancel or a claim in between
  cannot spoil, no submission entering while the condition is held; that they
  are is arithmetic on the number of earlier tickets (`FirstIsBounded`,
  `FirstComeFirst`). In the AR service the batch is away from the pending list
  while prompts are prepared and requests come; `BatchIsFirst` holds because
  tickets only grow. The other case is being told "cancelled": `ToldTheTruth`
  follows the exception through solo runs, b1-exact rows, poisoned cleanups and
  shutdown, where the whole group is cancelled before it is failed by one row's
  cancellation. What the contract comes to is proved once (`ContractIsFair`) and
  carried to both services (`AdmissionIsFair`).
- **EngineSession.** A slot is owned by exactly the request that is between its
  acquire and its end (`Ownership`, in `TypeOK`). That the owners of two records
  are never two requests needs that a request's record is the one filed unless
  it was cleared (`LiveRecords`), which the sweep threatens: `StaleIsIdle` says
  why it does not, a stale record being on no request's way to its slot.
  `WaitersMet` carries the cause of a refusal from the first denied try.
- **ColdTier.** A row is whole because its blobs are claimed until it is in
  (`WritesKeepBlobs`), because the directory goes in before it and out after it
  (`LockedWork`), and because whoever deletes knows every blob in use unless the
  generation has moved (`ScansSeeRows`, `WalkSeesRows`). The last two are
  statements about what another thread remembers of an earlier disk, which is
  why no invariant about the disk alone is inductive. The rows of `torn` are
  where `WalkSeesRows` fails: one lands while `wpc = "read"`. `InstalledStays`
  carries an installed row through its own pass, `QuietWalk` the walk's knowledge
  from its first read to its last deletion.
- **SmartFans.** `CommandedIsReal` needs that a ramp about to be filed as done
  has done it and nothing has moved the fans since (`RampIsReal`), and that no
  ramp runs with max commanded (`RampIsFresh`), or a failed one would leave the
  claim standing. `WindowCovers` says that the leases an open idle window may
  drop were all there when it opened.

Only model-checked: liveness (`EveryFutureResolves`, `OwnerEnds`,
`EveryJobAnswered`, `SlotComesBack`, `LeaseRamps`, `FansComeBack`,
`LeaksAreDropped`), which the prover does not reach, nor `ENABLED`. Every safety
property of the passing runs is proved.

## 6. What is not modelled, and what could come next

- The continuous scheduler is not driven by the served program; its hooks and
  cancels (`mtplx/batching/scheduler.py:268`, 298) are worth a module once it is.
- The session bank's matching of prefixes, its leases on arrays and its scores
  are functions of token sequences and array sizes. What it shares with other
  threads, the dispatch of encodes and what they pin, is in `ModelScheduler` and
  `ServeLoop`; its map of pending encodes could be a module of its own.
- A session record's pending postcommit and response tail: their states are
  written by the HTTP handlers and read by the next request. Section 4 lists
  what reading them showed.
- The MTP service above a scheduler that is shut down first or refuses the pump.
- The generation loop, speculative acceptance, samplers, quantization and model
  families are numerical: what makes them right is a property of distributions
  and tensors. A generation is one item, one run or one row here.
- Formats, parsing, templates, downloads, logs, metrics, the command line, the
  dashboard and the desktop app hold no state the modelled parts depend on. The
  memory and thermal-pressure governors measure the machine; their effect on the
  scheduler is an abort, which ends an item.
