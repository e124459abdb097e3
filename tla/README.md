# AShareRadar: TLA+ models, model checking and proofs

AShareRadar is a single-host research application for the A-share market: a
FastAPI process over one SQLite file, with background services that scan the
whole market, call market-data providers and keep research records.  Several
server processes may be started on the same file; a file lock decides which of
them runs the background work.  This directory holds TLA+ models of the parts of
it in which order, interruption and failure matter, the TLC runs that check
them, and TLAPS proofs of what holds for every size.

Contents: [inventory](#inventory) · [modules](#modules) · [runs](#runs) ·
[fairness](#fairness) · [proofs](#proofs) · [what the runs found](#what-the-runs-found) ·
[limits](#what-is-left-out) · [plan](#plan)

## Inventory

Paths are under `src/app/`.  "Hard" says what a unit test reaches badly;
"correct" what makes the part correct.  `PROJECT.json` lists the same components
with their status, and the hazards at their lines.

| Component | State | Operations | Interacts with | Hard | Correct |
| --- | --- | --- | --- | --- | --- |
| Market-scan store: `repositories/market_scan_lifecycle*.py`, `market_scan_results.py`, `market_scan_top100_refresh.py`, `market_scan_terminal_publication.py`, `db/market_scan_integrity.py` | `market_scan_run`, `market_scan_result`, the linked `task_run`, the capture outbox | create, retry, quick refresh, start, seed, save a batch, cancel, finish, reconcile | called from worker threads of every process | writes that arrive late or twice, rival creators, a crash between calls | one active scan; complete, sealed, immutable publications; task row and outbox in step |
| Scan manager: `services/market_scan_manager.py`, `market_scan_lifecycle.py`, `market_scan_terminal_recovery.py`, `market_scan_completion.py` | lifecycle lock and flags, guard, task per scan, list of lost terminal writes | requests, background task, stop, recovery | store (threads), coordinator, scheduler tick | cancellation at any await, shutdown against requests, failed terminal writes, takeover | every scan ends, by its right verdict, inside the lease |
| Scan execution: `services/market_scan_execution.py` | shared executor, back-pressure, timings | pool, seed, batches | store, provider runtime | shared fields | one scan at a time |
| Runtime coordinator: `services/runtime_coordinator.py`, `instance_guard.py`, `lifecycle_cleanup.py` | `flock` lease, runner, deferred release | acquire, activate, roll back, stop | scheduler, scan manager | activation that fails half-way, deferred release against standby takeover | lease held while anything works, and given up in the end |
| Scheduler: `services/scheduler_*.py`, `task_run_lifecycle.py`, `repositories/task_requests.py` | tasks, guard shared with manual runs, request receipts | loop, manual run, receipt, stop | coordinator, store, providers | row created by a cancelled await, guard users, duplicate requests | each request runs once and its receipt ends truthfully |
| Scan automation: `services/market_scan_automation*.py`, `market_scan_preflight*.py` | attempts, settled-state cache | tick, preflight, retry | manager, task history | cached state across ownership changes | bounded retries, none missed |
| Provider runtime: `services/datahub_runtime.py`, `daemon_executor.py` | shared calls, waiters, worker threads, cooldowns | call, join, time out, close | every data path | threads that outlive their callers | one call per key, limits kept, no lost wake-up |
| Workbench cache: `services/workbench_context.py` | entries, shared builds, slots | get, clear, close | provider runtime | clear or close under a running build | limit kept, no stale result stored |
| Probability capture and refresh: `repositories/market_scan_probability_capture.py`, `services/market_scan_probability_{capture,refresh,runtime}.py` | outbox leases, refresh epochs | claim, archive, finish, retry, refresh, stop | store, archives | expired leases, coalesced requests | each capture finished by one owner, no request lost |
| Fuyao jobs: `services/fuyao_service.py`, `fuyao_job_runtime.py` | one job, its calls and checkpoints | start, cancel, retry, recover, close | provider runtime, side database | cancel against completion, never-started task | one job; truthful terminal status |
| Strategy automation: `services/strategy_automation.py` and its repository | schedules, claims, alerts | run due, claim, complete | store's published scans | crash after a claim | each scan executed once per schedule |
| Paper trading: `services/paper_trading*.py` | runs, trades, equity | simulate, compare | stored prices | arithmetic, ordering within a day | deterministic replay, one transaction |
| Reviews, notes, alerts, watchlists | revisioned rows | CRUD with expected revision | users | little concurrency | no lost update |
| Read admission: `api/market_scan_read_admission.py` | one slot, workers | admit, close | routes | close against a running read | slot always returned |
| Artifact lease, retention, rollback | files, leases | publish, prune | outbox, scans | crash between file and row | nothing bound is deleted |
| Backup, portability, migrations | files, schema | copy, restore | database | mostly I/O | round trip |
| Prospective runs, trial registry, Choice quota | locked files, reservations | collect, reserve | outside services | crash after a reservation | quota never exceeded |
| Scoring, indicators, research, probability models | none | pure functions over floats | callers | numeric | out of TLC's reach |
| LLM explainer, HTTP routes, browser pages | little | render, validate | all | polling | stale answers ignored |

How they fit: a route or the scheduler's tick calls the scan manager, which
enters its lifecycle lock, obtains the guard (reconciling what an earlier owner
left), inserts a run and launches an asyncio task; the task makes its database
calls on worker threads, through the store; publication queues a capture in the
same transaction.  The coordinator starts scanner and scheduler after it has the
lease and gives the lease up after both are quiescent.  Everything that reads the market
goes through the provider runtime; the workbench cache shares the expensive
results of it between requests.

Which parts have a module: the store, the scan manager (with the order of the
executor's writes), the coordinator, the scheduler with its task rows and
receipts, the provider runtime, the workbench cache, and probability capture and
refresh.  The other rows of the table are [left out](#what-is-left-out).

## Modules

* **ScanLedger**: what the rest of the application may rely on, in three steps:
  open, publish, close.
* **RequestLedger**: what a client of a manual task request may rely on: it is
  accepted, executed at most once, and answered once.
* **MarketScanStore**: the repository.  One action per call, a call being one
  SQLite transaction; a call that raises changes nothing and is not enabled.
  `Next` lets any call happen at any time, so its properties do not lean on
  well-behaved callers.
* **MarketScanManager** extends the store with the processes: `leader` is the
  `flock`, `coord` the coordinator's phase, `life` the lifecycle flags, `op` the
  one operation inside `lifecycle.lock`, `task` the background task of each run,
  `stop` the progress of `_stop`, `failed` the recovery list, `waits` the
  cancel requests gathering a task, `late` the writes on worker threads that
  nobody awaits any more, and `auto` the setting `market_scan_auto_enabled`.
  `hist` is a history variable that no guard reads: which process served an
  operation in the window of a rollback (`intruded`), which run's INSERT outlived
  its tick (`adrift`), which task was cancelled in an open manager (`undone`), and
  which active run a reconciliation ended under its task (`usurped`).
* **RuntimeServices**: coordinator, scheduler and the part of the scanner that
  decides about the lease, in one process that may crash and start again, with
  `task_run` rows and request receipts as what survives it.
* **ProviderRuntime**: one capability of one provider: shared calls, admission
  under a limit, deadlines, grace periods, worker threads, cooldown, close.
* **WorkbenchContextCache**: cached contexts, shared builds and their slots.
* **ProbabilityCapture**: the capture outbox and its two drains, the refresh
  coordinator, and the runtime that activates, audits, stops and restarts them.
* **MC...**: an instance of each for TLC.  **...Proofs**: theorems about
  MarketScanStore, MarketScanManager, ProviderRuntime, WorkbenchContextCache,
  RuntimeServices and ProbabilityCapture.  **ProbabilityCaptureAttempts** extends
  the last of them with the argument that bounds the attempts of a row.

MarketScanManager composes the store with the processes.  RuntimeServices and
MarketScanManager overlap in the lease: the first has the scheduler, its manual
runs and every way a release is deferred, in one process; the second two processes
that take the lease from one another, with what an activation, its rollback and a
shutdown do to scans.  ProbabilityCapture takes over where
`CaptureQueuedExactly` of the store ends: a row appears with the publication.

Correspondence of the store, in short (`map` in `PROJECT.json` has the lines):

| TLA+ | Code |
| --- | --- |
| `InsertQueued`, `NoActiveRun` | the INSERTs, under the partial unique index `uq_market_scan_single_active` |
| `PrepareRetry`, `RetryRows` | `prepare_retry`, `RETRY_COPY_SQL` |
| `PrepareTop100Refresh` | `prepare_top100_refresh`, behind the action-source gate |
| `StartRun`, `RecordStockPoolSource`, `SeedResults`, `SaveResultBatch` | the executor's writes |
| `FinishActive`, `FinishAgain` | `_finish_active_run`, `_finish_existing_terminal` |
| `ReconcileIncompleteRuns` | `reconcile_incomplete_run_rows` |

and of the manager:

| TLA+ | Code |
| --- | --- |
| `Enter`, `OpReconcile`, `OpRecover` | `ensure_instance_guard`, `_reconcile_ownership`, `_recover_terminal_persistence_failures` |
| `OpInsert`, `OpLaunch` | `_create_scan`, `_retry_scan`, `refresh_top100_scores`: the awaited INSERT, then `launch` |
| `OpRequest`, `OpCancelLocal`, `CancelSettles` | `cancel_scan`, in the lock and after it |
| `Task...` | `_execute_run` and `MarketScanExecutor.execute` |
| `TrackedFinish` | `MarketScanFinalizer.finish` and `track` |
| `BeginTick`, `BeginClaim`, `TickCancelled` | `scheduled_tick` and its claim of ownership; `SchedulerService.stop` cancels them |
| `Stop...` | `_stop`, `begin_stop`, `_finish_stop`, `finish_stop`, for `close=True` and `close=False` |
| `TakeLease`, `BeginStart` .. `Activate` | `RuntimeCoordinator._try_activate`, `MarketScanManager.start`, `SchedulerService.start` with its reconciliation of task rows |
| `ReconcileFails`, `SchedulerFails` | an activation that raises or is declined, and the rollback it begins |
| `Shutdown`, `ShutdownActivation`, `FinalStop` | `RuntimeCoordinator._stop` and `_deactivate`, also during an activation or a rollback |
| `ReleaseLease`, `LeaseReleased` | release at quiescence, at once or deferred; `RuntimeLeadership.release` |
| `LateWrite`, `Crash`, `LoopEnds`, `Exit` | what `asyncio.to_thread`, `asyncio.run` and the operating system do (external) |

A process passes through these phases (`coord`): on `standby` it polls for the
lease; with it, `activating` (the scanner starts) and `starting` (the scheduler
does) lead to `active`.  A failure of either leads to `rolling`, the rollback that
stops scheduler and scanner without closing the scanner, then to `yielding` and
back to standby.  A shutdown leads from `active` to `closing`; one that meets an
activation or a rollback waits for the rollback first (`folding`).  `releasing`
gives the lease up and `stopped` awaits the end of the process.  A process that
died or exited is on standby again: nothing tells a process that is down from one
that does not poll.

Abstractions of these two:

* A share is `none`, `pending`, `clean` (scored from primary data), `fallback`
  (scored, but degraded) or `missing` (missing or skipped: both are unscored and
  both make a run degraded).  Scores, ranks and messages are left out.
* `authorized` stands for publication diagnostics that carry a passed score
  gate; the digest of a run is the rows it was computed from.
* The service creates v6 runs only, for which a retry copies every row back to
  pending.  Seeding seeds every share of the pool.
* The commit of a database call and the resumption of its coroutine are one
  step; the delivery of `CancelledError` is one step with `task.cancel()`.  A
  cancelled await leaves its write in `late` if the thread had begun it.
* `recover(run_id)` of retry, refresh and cancel is taken as the recovery of
  every lost run; the timed wait of a stop and its deferred continuation are one
  wait; requests that would find nothing to do are left out.
* An HTTP handler is not cancelled by its client; the scheduled tick and the
  activation are cancelled at any await.  The verdict of a cancelled task is taken
  when the cancellation is sent.  Abandoned INSERTs of one process are one entry of
  `late`.
* Between the `begin_stop` of a rollback and the release of the lease the manager
  is open and `require_open` lets requests pass.  The model serves them in that
  window as one of its kinds of failure (`"window"`), so that a run can be checked
  with and without them, and remembers the process.

Correspondence of RuntimeServices:

| TLA+ | Code |
| --- | --- |
| `Acquire`, `Shutdown`, `ReleaseOrDefer`, `DeferredCheck`, `DeferredRelease` | `RuntimeCoordinator._try_activate`, `_stop`, `_release_or_defer_leadership`, `_release_leadership_after_quiescence` |
| `ScannerStart`, `CreateScan`, `ScanEnds`, `ScannerStop`, `ScannerStopped` | `MarketScanLifecycle` as the coordinator sees it: flags, guard, quiescence event |
| `SchedStart`, `SchedReconcile`, `SchedStartFails`, `SchedStop`, `SchedStopped` | `scheduler_lifecycle.py`: start, aborted start, bounded stop |
| `Submit`, `Find`, `BeginUse`, `ReconcileRequests`, `Reserve`, `BeginRun` | `submit_run_once`, `_admit_manual_request` under `_manual_request_admission_lock` |
| `Insert`, `Attach`, `Work`, `Record`, `EndRun`, `FinishReceipt`, `EndUse` | `start_task_run_cancel_safe`, `_run_manual_request`, `_execute_manual_request`, `_execute`, `_end_manual_guard_use` |
| `Cancelled`, `OrphanInserts` | `CancelledError` at an await, and the thread of the insert that goes on |
| `LoopRuns` | an automatic task of the loop |

The asyncio locks are not variables: who holds one is where it is (`AdmissionFree`,
`SchedLockFree`, `RunLockFree`, `CoLockFree`).  `row` and `receipt` are database
rows; `by` is the process that inserted a row; `ran` counts executions.
RequestLedger sees the receipts, the executions (`ran`) and the requests whose
handler is at work; guards, locks, rows and leases are hidden from it.

Correspondence of ProviderRuntime (a call is named after the caller that created
it, which may leave it to others):

| TLA+ | Code |
| --- | --- |
| `Request`, `Join`, `Start`, `SlotRetry`, `SlotTimeout` | `run_provider_io` up to the registered call: `_join_existing_provider_call`, `_active_provider_call_count`, `condition.wait` |
| `WaitDone`, `GiveUp`, `Leave`, `GraceEnds`, `Settling` | `_wait_for_provider_task`, `_stop_unshared_async_call`, leaving with `notify_all` |
| `TaskBegins`, `TaskResumes`, `WorkerBegins`, `WorkerEnds` | the adapter's task, and the worker threads of `daemon_executor.py` |
| `RecordFailure`, `RecordSuccess`, `CooldownEnds` | `record_failure_async`, `record_success_async` |
| `CloseBegin`, `CloseEnd` | `aclose`, repeatable |
| `TaskAnswers`, `TaskCancelled` | the provider (external) |

Of WorkbenchContextCache: `Get` (with `Hit`, `Join`, `HasRoom`, `Begin`),
`Answered` and `ClientCancelled` are `get`; `BuildEnds` is the build and
`BuildFinalized` its done-callback `_finalize_task`; `Clear` and `Close` are
`clear` and `aclose`.  `entries` is the ordered cache; `clears` and `born` tell a
build begun before a clear from one begun after it (the code's identity test
`_inflight.get(symbol) is task` does).

Of ProbabilityCapture:

| TLA+ | Code |
| --- | --- |
| `Claim`, `Close`, `Undo`, `Reconcile`, `Audit` | the transactions of `market_scan_probability_capture.py` (repository) |
| `Capture`, `RetryDue`, `LeaseExpires` | the capture service: archive written, back-off, lease time |
| `Request`, `Dispatch`, `TakeRequest`, `TaskReturns`, `Finished` | `ProbabilityResearchRefreshCoordinator`: requests of threads, the loop callback, the task and its done-callback |
| `PreloadBegins`, `PreloadEnds`, `Activated`, `ResumeFails`, `HistoryFails` | `refresh`, `_activate_capture`, `_start_capture`, `_resume` |
| `PollEnds`, `DrainBegins`, `DrainFails` | `_capture_worker`, `drain_capture` |
| `Boot`, `Restart`, `Rewarm`, `Stop`, `...Cancelled`, `Stop...`, `Crash` | start, a second leadership of the same process, a repeated warm-up, the manager's stop, a dead process |

Abstractions of these four:

* A provider's answer, a context and an archive are outcomes; the age of a cache
  entry, due times and lease times are steps that may happen at any time.
* One worker thread is left to the capability of ProviderRuntime, or as many as
  `MaxWorkers` says; the other capabilities of the executor show only in that.
* In RuntimeServices a work is one manual request with one task, or the
  automatic task; a release of the lease that itself raises is left out.
* In ProbabilityCapture a transaction that a cancellation catches may or may not
  have committed; a restore may lose archives only while no process runs.

## Runs

| Run | Instance | Question |
| --- | --- | --- |
| `store` | 2 runs, 2 shares, symmetric | are the rows consistent whatever is called when |
| `manager_safety` | 2 processes, 1 run, 1 share, 1 failure of any kind, symmetric | lease, takeover, ownership and verdicts through crashes, rollbacks and shutdowns |
| `manager_two_scans` | 1 process, 2 runs, 1 share, symmetric | a second scan, retry or refresh against the leftovers of the first and of a cancelled activation |
| `manager_liveness` | 1 process, 1 run, 1 failure, automatic scans on or off | do scans and shutdowns end; is what readers see the scan ledger |
| `provider_calls` | 3 callers, 3 keys, limits 1 and 2, both adapters, symmetric | are fetches shared, limited, accounted for and never cancelled for others |
| `workbench_cache` | 3 requests, 2 symbols, 3 builds, 2 clears, 2 slots, 1 entry, symmetric | are builds shared and bounded, and late results kept out |
| `probability_capture` | 1 row, 2 attempts, 2 starts, 1 request, 1 failure | is a request ever lost, a claim closed twice, a row left open or tried without end |
| `runtime_services` | 2 requests, 1 automatic task, 1 scan, 1 failure, 1 crash, symmetric | at most one execution, rows with owners, guard over work; is what clients see the request ledger |
| `degraded_decision`, `late_success`, `lease_and_threads` | 1 process, 1 run | the disagreements [below](#what-the-runs-found) |
| `lease_after_rollback` | 1 scan, 1 failure, no scheduler work | the same |

What the properties say:

* `SingleActiveRun`, `TaskRowFollowsRun`, `PublishedIsComplete`,
  `SealMatchesRows`, `CaptureQueuedExactly` and the action property
  `HistoryIsImmutable`: the store's promises.  A start of the scheduler cancels
  every running task row, that of a live scan too (`ReconcileOrphanedTaskRuns`), so
  `TaskRowFollowsRun` says what remains: no row is open behind a scan that has
  ended, the scan's own end has the last word, and no row calls a scan done before
  it is.  `ImplementsLedger`: the store, as the manager drives it, implements
  ScanLedger.
* `LeaseCoversTasks`: a background task runs in the lease holder only, or in a
  process that served a request in the window of its rollback.
* `TakeoverFindsNoTask`: a process that reconciles finds no scan with a task, its
  own or another's, with the same exception for either of the two.
* `ActiveRunHasOwner`: while no request was served in such a window, an active run
  has somebody who will end it (the operation about to launch it, a task, a
  detached write, a cancel request, a stop, the recovery list) or awaits the next
  owner's reconciliation; or it is a queued run whose INSERT outlived its tick.
  This is the safety half of `EveryScanEnds`.
* `CancelledOnlyOnRequest`: a scan recorded as cancelled is one that a user asked to
  cancel, or whose task a rollback (or the end of the event loop) cancelled in an
  open manager; shutdowns, crashes and lost writes are recorded as interruptions.
* `OneScanComputes`: the shared executor serves one scan at a time, except beside a
  scan that a reconciliation ended under its task; without requests in the window
  that takes a reconciliation that outlives the activation that began it.
* `EveryScanEnds`, `ShutdownReleasesLease`: the manager's liveness properties.  The
  first excepts what the second half of `ActiveRunHasOwner` excepts and, where
  automatic scans are off, a run on the recovery list (`WaitsForRequest`).

The exceptions are behaviours of the code, not of the model: each is reachable in
the runs, and is listed [below](#what-the-runs-found).
* `OneFetchPerKey`, `CapabilityLimit`, `NothingAbandoned`, `SharedNotCancelled`,
  `NoLostWakeup`, `QuiescedMeansIdle`: the provider runtime's promises to the
  provider (never too much at once), to callers (nobody's deadline cancels
  another's fetch, no free slot is slept through) and to the shutdown.
* `BuildsBounded`, `BuildIsShared`, `NoStaleEntry`, `OnlyCloseCancels`: the same
  for builds of the workbench, across `clear` and `aclose`.
* `RequestRunsOnce`, `LiveWorkKept`, `GuardCoversWork`, `RowHasOwner`: a manual
  request resubmitted after a lost answer or a crash runs once; reconciliation
  spares what is alive; the guard shared by loop, requests and stop is released
  by the last of them; no `task_run` row stays open without somebody to end it.
  `ImplementsRequestLedger`: the runtime implements RequestLedger, so that an
  answer is never taken back, a completed one is that of the execution that
  returned, and a request called interrupted neither executes nor will.
* `RequestNotLost`, `OutcomeMatchesClaim`, `SuccessIsArchived`, and under
  fairness `CaptureEnds`: the refresh coordinator loses no request, a drain closes
  only its own claim, a success has its archive after the audit, every row ends.
* `AttemptsAccounted`: `PROBABILITY_SOURCE_CAPTURE_MAX_ATTEMPTS` stops the retries
  of captures that fail, and nothing else.  A claim that a reconciliation, an
  audit, a cancellation or a crash takes away has used up an attempt and is made
  again, so `attempts` may pass the maximum; by how much is what starts, refresh
  requests and failures so far can pay for (`Credit`).

Bounds.  Two runs are enough for the store because a transaction concerns one
run, or one and its source, and `NoActiveRun` is decided by any other active
one; the theorems remove the bound.  Two shares let a batch leave one behind.  In
the manager one share suffices, since only whether rows are pending, clean,
degraded or missing matters to control.  Two processes are one owner and one
taker-over; the second process's run to take over is the same run.  `MaxFaults`
bounds crashes, failed terminal writes, failed activations and requests served in
the window of a rollback together.  One is enough for every pair of processes to
meet: cancelled ticks and activations, late writes, takeovers and shutdowns are
free, and a shutdown during an activation brings about a rollback without a
failure.  `MaxLate` bounds the calls outstanding when one more is abandoned; the
theorems remove both bounds.  `manager_two_scans` has no failures, because two
scans meet without one: a reconciliation that outlives a cancelled activation ends
the first, and the second computes beside it.

Three callers of the provider runtime are the fewest with which one leaves a
call, one stays and one waits for the slot; keys beyond the callers cannot be
asked for.  Three builds under two slots let a clear cut off one build, a second
of the same symbol begin, and a third wait; two clears separate three
generations.  Two submissions are two requests or one submitted twice, and with
one crash the second comes after it; the automatic task is the third party of
the guard.  One outbox row suffices because claims concern one row each and the
capture lock serialises drains; two attempts reach the exhausted retry, two
starts the crash and the second leadership.  The theorems remove the bounds
of every safety property of every module.

Model values of runs, shares, processes, callers, keys, requests, symbols and
builds are interchangeable and nothing orders them, hence the symmetry sets
(never in a run with a liveness property).  Runs, requests and starts are not
recycled and closed caches stay closed, so those systems do stop: only the
manager's configurations check deadlock.

## Fairness

`FairManagerSpec` assumes what the interpreter gives: a ready coroutine is
resumed and a worker thread finishes its call (weak fairness of task, operation,
late write and settling steps, of activation and release, and of the end of a
stopped process); `asyncio.Lock` is first-in first-out, so a waiter gets it
although others keep asking (strong fairness of the scheduled claim, the start and
the stop, which wait for the lock); the standby loop polls (weak fairness of taking
a free lease).  Nothing obliges users to create or cancel scans or to shut the
process down, and no failure has to happen.

The scheduled claim ends a scan whose terminal write was lost.  `scheduled_tick`
returns at once when `market_scan_auto_enabled` is false
(`market_scan_manager.py:472`), which is the default (`config_settings.py:417`).
`BeginClaim` has that guard, so its fairness says nothing of a process whose
automatic scans are off: there such a run stays active until a user's request
recovers it, or a shutdown or the next owner ends it, and `EveryScanEnds` excepts
it (`WaitsForRequest`).  Where they are on, trading days and their schedule time
come again and again.  `EveryScanEnds` also supposes that some process becomes
active again and again: a process that is shut down during every activation, for
ever, never reaches the reconciliation that would end what was left.  The run has
the setting on and off.

`FairSpec` of ProbabilityCapture is weaker: one weak-fairness condition for the
capture loop (its poll interval and the steps of its drain) and one for all the
other tasks together (coordinator, refreshes, the publishing scan's drain, and
time).  The second is enough because each of these tasks ends or waits for
another of them, so a group that takes steps for ever gets through; the first is
needed because a loop that polls would otherwise keep the group busy.  Requests,
failures, stops and crashes are never obliged to happen.  `CaptureEnds` says that a
row ends or the process stops leading.

The other modules have no liveness property.  A provider's thread may hang for
ever, and the code promises no more than to count it; a build is at the mercy of
its providers in the same way.

## Proofs

Each proof module has one inductive invariant and derives the properties from
it; in each the invariant is a conjunction of named parts, every part has its
lemma per action or group of actions, and the temporal theorem is the last step.

**MarketScanStoreProofs**, for any sets `Runs` and `Symbols` and from the
one assumption that `NoRun` is not a run: the invariants of the run `store`, the
action property `HistoryAlwaysImmutable`, and `StoreImplementsLedger`:
`Spec => Ledger!Spec`, under the mapping of MarketScanStore.  The inductive
invariant `StoreInv` adds `FreshRunsUnlinked`: a run that does not exist yet has
no task row.  Without that part the induction fails at creation, where an old row
would appear beside a queued run.  The lemmas rest on the case analysis
`StepCases`: a step creates a run, writes to one run, finishes one run, or
reconciles.  `TerminalFrozen` carries seal and completeness across steps of
terminal runs.  Refinement goes by readers' view: creation is `Open`, an
unpublished end or the reconciliation is `Close`, the publishing write is
`Publish`, and everything else is invisible; that reconciliation is one `Close`
and not many uses `SingleActiveRun`.

**MarketScanManagerProofs**, for any sets of processes, runs and shares, any
kinds of failure and any number of them, from `ManagerAssumption` and the store's
assumption: `ManagerSpec => Spec` and every invariant of the manager's passing
runs.  The argument has five parts.

1. *Every step is a call of the store* (`StepIsCall`): writing a task's batch, a
   late terminal write, a recovery retry and the two reconciliations are each one
   action of MarketScanStore or leave it alone.  So the store's invariants and
   `HistoryIsImmutable` hold beside the processes (`ManagerKeepsStore`), and
   `ManagerImplementsLedger` follows from the store's refinement.
2. `LeaseInv`, the first layer of the invariant: the phase of the coordinator, the
   flags of the lifecycle and the progress of a stop agree (`PhasesAgree`); and in a
   process that served nothing in the window of a rollback the scan guard is held
   only under the lease, tasks exist only under the guard, and both are gone when a
   stop is over (`TasksGuarded`).  `LeaseCoversTasks` alone is not inductive: a
   release must know that such a process has no task left.
   `TakeoverFindsNoTask` is part of the layer.
3. `VerdictInv`: nobody works on, or is to end, a run that was not inserted; whoever
   carries the verdict "cancelled" carries it for a run whose cancellation was
   accepted, or whose task was undone in an open manager.  `CancelledOnlyOnRequest`
   follows, requests in the window included.
4. `OrderInv`, while nothing was served in such a window: a task works only on an
   active run, or on one a reconciliation ended under it; a run whose end is left to
   a late write, a waiting cancel request, a recovery list or a stop has no working
   task and gets none; a run nobody launched never has one.  `OneScanComputes`
   follows from it with `SingleActiveRun` of the store.
5. `ActiveRunHasOwner` is kept because whoever gives a run up (a task that ends,
   a write that lands or fails, a request that returns, a tick that is cancelled, a
   stop that moves on) either saw it ended, leaves it to another owner, or leaves it
   adrift: one lemma per part of the next-state relation.

**ProviderRuntimeProofs**, for any callers, keys, limits and number of threads:
all seven invariants of the run `provider_calls`.  `RuntimeInv` adds that the
members of a call are counted exactly (`MembersCounted`), that a call with work
under way is the registered one of its key (`RegisteredIsActive`), that work
without members is marked (`OrphansMarked`), and that quiescence was reported
after the close.  The count is the heart: `waiters == 0` decides who may cancel
a call and whether a slot is free.  `NoLostWakeup` needs that whoever leaves a
full capability wakes the sleepers in the same step.

**WorkbenchContextCacheProofs**, for any requests, symbols, builds, clears and
limits: all five invariants and action properties of the run `workbench_cache`.
`CacheInv` adds that a build under way is owned (what the limit counts) and that
one begun since the last clear is still the shared build of its symbol (what a
request finds).  `EntriesInv` rests on it and carries `NoStaleEntry` and `TypeOK`:
a build still shared was begun since the last clear, and the entries are of
different symbols.  The entries are drawn from the old ones by removing, appending
and trimming, and a sequence drawn from another keeps what is true of all its
elements and of every two of them, which is the lemma the proof turns on.

**RuntimeServicesProofs**, for any set of requests and any bounds: the four
safety properties of the run `runtime_services`, `TypeOK` and
`RuntimeImplementsRequestLedger`.  `ServicesInv` adds
`UsersCounted`: `_manual_guard_users` is the number of requests inside the guard,
counted twice while they execute; and `ReconcilesAlone`: a start reconciles when
nobody is inside.  A request that finds itself the only user may therefore take
open receipts for those of a dead process.  The refinement goes action by action:
a reservation is `Accept`, the attachment of the row `Execute`, the end of the
handler `Return`, the last write of a receipt `Answer`, a reconciliation or a
cancellation `Interrupt` of the receipts it closes, a crash `Die`, and everything
else is invisible.  What it needs beyond `ServicesInv` is `ReceiptStage`: which
receipts a request can have at which place.  A reconciliation interrupts nobody who
executes because the counted users leave nobody in the guard; a cancellation
interrupts everybody it takes out of a handler because, by `LiveWorkKept`, their
receipts are still open.

**ProbabilityCaptureProofs**, for any set of runs and any bounds: `RequestNotLost`,
`OutcomeMatchesClaim`, `SuccessIsArchived`.  `CaptureInv` adds that two drains are
never past the capture lock, that the row of a claim is the one claimed while it
is in progress (nothing else puts a row in progress: `Calm`), and that index and
audit name only archives on disk, which is lost only while no process remembers.

**ProbabilityCaptureAttempts**, for the same constants: `AttemptsAccounted` and
`TypeOK`, whose bound on attempts, `MostAttempts`, is `AttemptsAccounted` with the
bounds of the model put in.  No step guards the attempts of a row, so the argument
counts what has been paid.  A start earns four, a request one, a failure two
(`Credit`).  Every revocation that may still come without anything new being paid is
owed (`Owed`): the reconciliation for a request recorded, that of the
coordinator's refresh under way, the warm-up's, the audit's, and the cancellations
of the two drains at a stop.  A row that may be claimed once more weighs one attempt
more than it has had (`Load`).  `CreditInv` says that what is owed is covered by the
credit and that no row outweighs `MaxAttempts` and what is left of it.  One lemma per
action (`...Pays`) shows that a step pays off as much as it adds to any row: a
reconciliation takes claims away and is itself what was owed, a claim turns the
weight of a waiting row into an attempt, and a retry only goes back to a row that is
below `MaxAttempts` (`RetryLeft`).  The parts beneath it say where the tasks may be
in which phase of the process (`LifeInv`), that one task activates at a time
(`OneActivates`), and that a row in progress has an owner (`RowsSound`).

The provider and workbench proofs, and that of RuntimeServices, assume finite
sets (they count); the others need no more than their modules' assumptions on
constants, which TLC evaluates in each run.

Every safety property that a passing run checks, refinement included, is a
theorem.  Only model-checked are the liveness properties `EveryScanEnds`,
`ShutdownReleasesLease` and `CaptureEnds`: the prover has no rules for liveness
under fairness.  The four runs that expect a violation show disagreements, of
which there is nothing to prove.

## What the runs found

1. `degraded_decision`: `completion_status` answers `degraded` for a degraded
   score distribution over clean rows; `_validate_degraded_success` refuses it
   for want of a degraded row.  The run is neither published nor failed: it
   stays active until recovery interrupts it.
2. `late_success`: DESIGN.md promises that cancellation wins over a late
   success.  `_finish_active_run` publishes a run in `cancelling`.
3. `lease_and_threads`: REQUIREMENTS.md R14 promises that the lease outlives the
   old tasks' threads.  The failed-scan write is not shielded; a stop cancels
   its await, and the lease goes while the thread is still to write.
   `HistoryIsImmutable` shows why this is not worse: a late write finds the run
   ended by the new owner's reconciliation, or ends it first.
4. `lease_after_rollback`: R14 and OPERATIONS.md say that the lease is not
   released before the tasks end.  An activation rollback stops the scanner
   without closing it; a scan created meanwhile leaves `_quiescent_event` set,
   and the lease is released while it runs.  The same happens to a scan created
   between `begin_stop` and `finish_stop`, which clears `_ownership_reconciled` over
   it: the next operation of any process reconciles, ends the scan under its task,
   and a second one computes beside it.  `hist.intruded` in the manager's
   properties stands for exactly this.

Met on the way, without a run of its own:

* A deferred release waits for quiescence once (`DeferredCheck`).  A request that
  takes the scan guard again between the event and the check makes it give up,
  and the process keeps a lease it does not use.  OPERATIONS.md:31 has the
  coordinator retry on its own.
* The one-time audit compares rows with digests taken at the end of a preload; a
  capture that succeeds between the two is set back to pending and archived
  again.  It ends in the right state.
* An activation frees the row that a live drain of the same process is working
  on.  The drain ends with a lost lease, and the row is claimed again.
* Every start of the scheduler reconciles all running `task_run` rows
  (`repositories/runtime.py:62`).  The linked row of a scan that was created after
  the scanner started, and before the scheduler did, is cancelled under the scan,
  and the scan's own terminal write has the last word.  `LiveWorkKept` of
  RuntimeServices covers the scheduler's own works only.
* A rollback cancels the scans of its process while the manager is open, and
  `market_scan_manager.py:826` then records them as cancelled though nobody asked
  (`hist.undone`).
* The INSERT of a scheduled scan is not shielded.  A scheduler stop that cancels its
  tick leaves the thread to commit a queued run without a task (`hist.adrift`).  The
  stop of a rollback or a shutdown that follows does not know the run; it stays
  queued, and every other scan is refused, until the next owner reconciles or a
  user cancels it.
* The reconciliation of an activation that a shutdown cancels goes on on its
  thread.  A scan that a request creates meanwhile is ended under its task
  (`hist.usurped`), and the next one may compute beside it.

## What is left out

Of the modelled parts:

* Store and manager: progress counters, stage texts and quote capture; deletion
  by retention; queries and exports; the decisions of the scheduled tick (where
  automatic scans are on, a scan may be created at any time, which includes every
  decision of it); an HTTP handler cancelled from outside.
* RuntimeServices: a reservation or receipt write that commits on its thread while
  its handler is cancelled (reconciled later); due times, requests that name several tasks, the limit of 16
  pending requests, reading of receipts, an `OSError` of the lock file.
* ProviderRuntime: the order in which DataHub tries providers; statistics; the
  branch of `_stop_unshared_async_call` for a call that is both a task and a thread
  (`datahub_runtime.py:366-371`).
* WorkbenchContextCache: `restore_entries` and `trim`, which only tests call, and
  the binding checks of a context.
* ProbabilityCapture: the refusal of `drain_capture` without the guard
  (`market_scan_probability_runtime.py:320`; the model drains without it, which is
  more); the repeated warm-up that `create_scan` asks for during a rollback
  (`Rewarm` is enabled while the process leads); the contents of an archive, the limit of 64 claims per
  drain, the joint maintenance, the warm-up of a process that does not lead.

### Not modelled

The repository is large, and most of it is not of the kind that a model checker
reaches.

* Scoring, indicators, execution probabilities, evaluations, shadow scoring and
  research reports are numerical functions over floats and calendars, without
  concurrency; they make up most of the lines under `app/services`.  The models
  take their outcome as a choice.
* Provider adapters, HTTP routes, schemas, exports, the browser pages and the
  text generator translate data and keep no state that others share.
* Backup, restore, portability and migrations copy files and schemas and check
  them; reviews, notes, alerts and watchlists are single transactions with a
  revision check; paper trading is a deterministic replay with one.
* Fuyao jobs, strategy automation, the automatic scan decisions, read admission,
  artifact leases and the tools under file locks have state and hazards of their
  own, which `PROJECT.json` lists at their lines.  They are small next to the
  modelled parts, and each is a candidate for a module.

Database corruption and clock changes are outside the models.  The map therefore
covers a small share of the repository's lines; it covers nearly all of the code
in which order, interruption and failure decide about shared state of scans,
tasks, provider calls and captures.

## Plan

Done: ScanLedger, MarketScanStore, MarketScanManager, RuntimeServices,
ProviderRuntime, WorkbenchContextCache, ProbabilityCapture, RequestLedger, and the
proofs above.  If this is taken further:

1. Abstract specifications of the two components that have none and the proofs
   that they are implemented: an archive queue for ProbabilityCapture (a published
   scan is queued, then archived or refused, and reopened only by an audit that
   misses its archive), and a shared fetch for ProviderRuntime.
2. **FuyaoJobs** (cancel against completion, a task that never started) and
   **StrategyAutomation** (a claim whose process dies).
3. **ScanAutomation**: remembered automatic states across ownership changes.

Runs stay small and few: one per module for safety, one with fairness where
something must end, and a violation run only for a disagreement met on the way.
