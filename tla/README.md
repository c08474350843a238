# RPA Core in TLA+

This directory specifies the part of RPA Core (`src/rpacore`, and the release
pipeline in `src/scripts` and `src/.github`) whose correctness depends on
interleaving, crashes, time and retries: the durable SQLite work queue, the step
engine with its strict checkpoints, recovery of a persisted transaction, the
workers that join queue and transaction store through fenced checkpoints, a
whole run of the queue loop with its two threads, the database file under it
all, the lists that are read page by page while it is written to, and the two
workflows that build, test and publish a release. Each part is a module that
follows the code action by action and is model-checked with TLC on small
instances. All invariants, action properties and refinements the passing runs check
are also proved with TLAPS, for every value of the constants, among them that the
queue, and the item as its workers treat it, implement an abstract work queue. `PROJECT.json` lists the components, the
runs, the definitions with the source lines they stand for, the hazards, and the
theorems.

## Contents

1. The system
2. Modules and how they correspond to the code
3. Runs, bounds and fairness
4. What the runs show, including three disagreements with the documentation
5. Proofs
6. What is not modelled
7. Plan

## 1. The system

RPA Core runs *transactions*: ordered lists of user-written *steps*. A queue
holds work items; a runner claims an item, builds or resumes its transaction,
lets the engine execute it, checkpoints every transition in SQLite, and closes
the item.

| Component | State it keeps | Operations |
| --- | --- | --- |
| Work queue (`queue.py`, `_queue_retry.py`) | tables `queue_items`, `queue_attempts`, `queue_poison_events`, `queue_admin_events` | `add`, `add_once`, `next_item` (reclaim, select, quarantine, claim), `bind_transaction`, `renew_lease`, `complete`, `fail`, `force_complete`, `force_fail`; read-only lists |
| Engine (`engine.py`, `_kernel.py`, `transaction.py`, `step.py`) | the `Transaction` object: status, outcome, retry count, steps with their exceptions, history | `run`: passes over the steps, retry passes, halting failures, MemoryError, verdict; one checkpoint per transition |
| Recovery (`recovery.py`) | none | `resume_transaction` turns a stored snapshot into a runnable transaction |
| Transaction persistence (`persistence.py`, `_transaction_read.py`) | tables of transactions, steps, exceptions, history, with a revision | whole-snapshot saves with or without an expected revision, loads, paged queries, migrations |
| Queue-bound checkpoints (`_queue_checkpoint.py`) | both databases | one write transaction that checks the claim, binds the item and writes the snapshot at the expected revision |
| Runner (`runner.py`) | the claim, the revision, a heartbeat thread with an operation lock, the summary | claim loop, renewals, checkpoint policy, final transition, scope and cleanup |
| Direct execution (`execution.py`) | none | the engine with unfenced saves and a resource scope |
| Notifications (`notify.py`) | none | at most three attempts per notifier |
| Read pages (`_queue_read.py`, `persistence.query_transactions`, `_transaction_cli.py`) | a cursor in the caller's hands | keyset pages over tables that change |
| SQLite access (`_sqlite.py`, `_sqlite_retry.py`) | schema versions, journal mode | compatibility checks, migrations under `BEGIN IMMEDIATE`, lock retries |
| Release pipeline (`release-candidate.yml`, `publish.yml`, `src/scripts`) | GitHub's artifacts and run conclusions, PyPI | freeze, test in cells, gate, verify, approve, verify again, upload |
| CLI, doctor, configuration, manifest, reports, logging, credentials, screenshots, scaffold | none that outlives a call | parsing, rendering, files |

**How they interact.** Workers, producers and the operator share nothing but
the database; there is no broker. A claim is a row that is `in_progress` with a
worker name and a fresh token. Every later mutation repeats both in its WHERE
clause, so a worker that lost its claim is refused by the row. The engine knows
neither the queue nor SQLite: it calls a checkpoint callback after every
history entry. The runner supplies a callback that fences the save with claim
token and revision. Recovery reads what those callbacks stored. Within a worker,
the runner's thread and the heartbeat share `operation_lock` and an error slot.

**What is hard, and what correctness means.**

- *Queue*: workers race between an unlocked SELECT and a guarded UPDATE; the
  clock is read before the write lock is granted; leases are compared in whole
  seconds; stale workers, possibly with the same worker name, act late; the
  operator overrides at any moment. Rows, attempt ledger and audit must agree,
  claims must be honoured, deliveries be bounded, and items not be lost.
- *Engine*: a crash, a raising sink, a failing checkpoint or lack of memory can
  fall between any mutation and its checkpoint. No step may run without durable
  evidence that it was started, a stored success must never be repeated, the
  retry budget must hold, the stored verdict must be true.
- *Recovery*: infers from a snapshot and its history which steps may run again,
  also after a recovery that was itself interrupted. Business failures, and the
  steps skipped because of them, must stay as they are unless asked otherwise.
- *Persistence, fenced checkpoints and runner*: two holders of one item in
  sequence, the first still running; heartbeat and runner threads; a commit
  whose acknowledgement is lost; saves from outside the queue. An item must have
  one transaction, each checkpoint must replace the snapshot its writer knows, the
  holder must not be fenced out, an item may be completed only on a stored success,
  and a stored success must not be executed again.
- *Queue loop*: user code fails in every way, a signal, a stop event or a lost
  lease comes at any moment. The summary must be true, the scope cover the work,
  a signal reach the caller, and the call end.
- *SQLite access*: several programs open one file of any earlier or later version.
  No half-migrated part may be left, and nobody refused for what another one does.
- *Lists*: rows move, appear and vanish between two pages. What stays must be
  seen, once.
- *Release*: a candidate run is repeated while it is published, evidence of an
  earlier attempt stays behind, two publishing jobs run at once. What PyPI holds
  must be one approved pair of files on whose bytes every suite passed.

## 2. Modules and how they correspond to the code

| Module | Models | Used by |
| --- | --- | --- |
| `WorkQueue` | what the queue promises, without clocks, processes, tokens or SQL | `SqliteQueue`, `RunnerPromise` (refinements) |
| `SqliteQueue` | the work queue with its workers, producers, operator and clock | `MCSqliteQueue`, `QueuePages`, the queue's proofs |
| `MCSqliteQueue` | constants of the TLC instances | `queue_claims`, `queue_liveness` |
| `SqliteQueueProofs` | theorems about `SqliteQueue` and `RetryPolicy` | `ListingsProofs` |
| `RetryPolicy` | `retry_available_at` as a function | `MCSqliteQueue`, `SqliteQueueProofs` |
| `QueuePages` | pages of items, attempts and poison events read beside the queue | `Listings` |
| `TransactionLists` | `query_transactions`, `list_transactions`, `iter_transactions`, `transaction list` and `export` beside saves and removals | `Listings` |
| `Listings`, `MCListings`, `ListingsProofs` | both, one store at a time | `listings` |
| `Transactions` | the `Transaction` object and the pure functions on it: history, classification of failures, verdict, recovery of a snapshot, merge of history rows | `Engine`, `FencedRunner`, `TransactionProofs` |
| `TransactionProofs` | lemmas about these functions | `EngineProofs`, `FencedRunnerProofs` |
| `Engine`, `MCEngine`, `EngineProofs` | `Engine.run`, `resume_transaction`, and what a checkpoint stores | `engine`, `repaired_failure` |
| `FencedRunner`, `MCFencedRunner`, `FencedRunnerProofs` | durable workers: claim, heartbeat, fenced checkpoints, checkpoint-failure policy, final transition | `runner_outside`, `unstored_outcome`; through `RunnerPromise`, `runner_claims` |
| `RunnerPromise`, `MCRunnerPromise` | that the item of `FencedRunner` is an item of `WorkQueue`; proved in `FencedRunnerProofs` | `runner_claims` |
| `RunLifecycle`, `MCRunLifecycle`, `RunLifecycleProofs` | one call of `run_queue_loop` or `execute_transaction` from start to return | `run_lifecycle` |
| `Storage`, `MCStorage`, `StorageProofs` | the file, its two schemas, migrations, saves and loads | `storage`, `identity_race` |
| `Release`, `MCRelease`, `ReleaseProofs` | the two release workflows, GitHub and PyPI around them | `release` |

### WorkQueue and SqliteQueue

`WorkQueue` has one variable: for each item its status, the retries spent, the
outcome of each delivery and the number of quarantines. `Put`, `Deliver`, `Succeed`,
`GiveBack`, `Expire`, `Quarantine`, `ForceComplete` and `ForceFail` are what may happen
to an item. `SqliteQueue` maps its tables to that record (`Promised`) and states
`ImplementsWorkQueue`; reading a clock, selecting a row, a renewal, a binding or a refused
transition are stutters of the promise.

One write transaction of the code is one action of `SqliteQueue`. A read that happens
before the transaction is an action of its own whose result stays in the worker's local
record, so it can be stale when it is used:

| Code | Actions |
| --- | --- |
| `add`, `add_once` | `Add`, `AddOnce` (check and insert in one transaction) |
| `next_item`: clock; reclaim | `Poll`; `Reclaim` (all stale rows in one transaction) |
| `next_item`: SELECT; quarantine; clock and token; claim | `Select` or `SelectNothing`; `Quarantine`; `Stamp`; `Claim` |
| `bind_transaction`, `complete` | `BindTransaction`, `Complete` |
| `renew_lease` | `RenewStart` (clock), `RenewLease` (UPDATE) |
| `fail` | `FailRead` (autocommitted SELECT), `FailWrite` (UPDATE) |
| `force_complete`, `force_fail` | `ForceComplete`, `ForceFail` |
| process death | `Crash`, while a claim is held |

`FailRead` takes the clock with the SELECT, although the code reads it right after: the
clock only moves the next eligibility, which no property compares with that instant.
`LeaseHonoured` measures a lease from the recorded `claimed_at`. A claim reads it before
BEGIN IMMEDIATE can make it wait (`queue.py:669-680`), so a lease may be partly used up
when it is born; the model has that (`Stamp` before `Claim`), but the property does not
rule it out.

`row`, `ledger`, `poison` and `overrides` are the four tables. Items are named
by their rank in the claim order. A uuid4 token is the position of its attempt
in the item's ledger, hence never reused. The transaction a claim binds is named
by the same token. An expired lease is decided as SQL does, on truncated seconds
(`Seconds`), while the clock ticks `TicksPerSecond` times a second. The delay
before the n-th retry is the constant function `RetryWait`, which the queue runs take
from `RetryPolicy`. The clock does not run backwards. `Tick` is enabled only while a
lease or a delay is running: no other definition reads the clock.

A duplicate refused by `add_once`, a refused precondition (blank reason, unknown
item) and a lock error change nothing and are not actions. A process that dies
inside `next_item` leaves what a process that never called it leaves.

### RetryPolicy

`RetryAfter` is `retry_available_at` in whole ticks: the backoff is a ratio, the
comparison of the logarithm with the cap (`_queue_retry.py:57`) is exact, and a started
tick counts in full. An assumption of `MCSqliteQueue` compares it with its definition by
`CHOOSE` over bounded inputs. Floating point may exceed the cap by a microsecond; that is
not modelled.

### QueuePages, TransactionLists, Listings

| Code | Actions |
| --- | --- |
| one page of items, attempts or poison events; a misused cursor, a row that does not decode | `ReadPage`; `PageFails` |
| anything the queue does between two pages | `QueueStep` |
| a save; removal by someone else | `SaveRow`; `CleanUp` |
| `query_transactions` | `QueryPage` |
| `transaction list`, `export`: the command; a page of summaries; a load | `Command`; `CommandPage`; `LoadNext` |
| `list_transactions`, `iter_transactions` without a limit | `SelectIds`, then `LoadNext` |
| the caller stops | `StopListing` |

The history variables `steady`, `returned` and `again` say which rows matched from the
first page on, which were handed out, and whether one was twice. A page holds the first
rows after the cursor; the cursor is bound to kind and filter (`Fits`, `FitsCursor`).
Transactions are keyed by `created_at_utc`, newest first, which an old row may not have
until a save fills it in: such a row changes its place, and a walk that is past the new
place misses it. `ListsMissNothing` promises only what stays in its place. Full listings
compare `created_at` with `since.isoformat()` as text (`persistence.py:1157-1159`,
`1227-1229`), without the normalisation `query_transactions` applies; that is why
`Listed` also takes local times. The package itself deletes no transaction.

Two stores that share nothing need no product: `Listings` chooses at the start which
one is walked.

### Engine

`mem` is the `Transaction` object, `disk` its stored snapshot, `engine` the
position inside `run()`. Every mutation of the code that is followed by
`_checkpoint` goes to `saving` (`SaveThen`), and `Save` stores the snapshot and
continues where `then` says. In between, three things may happen:

- `Escape`: the sink, the checkpoint or the step raises what `run()` does not
  catch. The object survives in the caller, who may run it again or resume.
- `OutOfMemory`: a MemoryError inside the try block of `_run`.
- `Crash`: the process dies; only `disk` is left.

| Code | Actions |
| --- | --- |
| `_run` start; refused validation | `StartRun`; `Reject` |
| `_execute_pass` | `StartStep`, `EndStep`, `BusinessFailure`, `SystemFailure`, `StepInterrupted`, `EndPass` |
| `_skip_downstream_pending_steps` | `SkipDownstream`: one step at a time, then the checkpoint |
| retry loop; verdict | `RetryPass`; `Complete` (`Settled`, `TerminalKind`) |
| MemoryError handler | `Abort` |
| `resume_transaction` | `Resume(again)`; `again` is `retry_business_failures` |
| the caller | `Create`, `SavePrepared` |

The functions these actions apply to the `Transaction` object (`Mark`, `Settled`,
`TerminalKind`, `Prepared`, `ResumedStatus`, `PreservedSkips`, `Propagated`, `Merged`)
are in module `Transactions`, which `FencedRunner` uses as well.

How user code ends a step is chosen in `CanEnd`. The retry disposition is a
function of the outcome in every assignment of the code and is not stored.
Timestamps, failure codes, arguments, state, artifacts and metadata are data no
property tells apart. `barred` is a history variable: the steps whose business
failure, or whose skip because of one, was promised to be kept. `CausalSkips`
finds these skips in the history by a rule of its own (no STEP_STARTED of that
step comes right before the skip), so that the property is not checked
against the recovery rule it is about.

### FencedRunner

The queue worker of `runner.py` with `transaction_db_path` set. `item` is the row of
one queue item, `store` the transaction database, `worker[w]` what a process remembers
of its claim: token, transaction, revision, the object in memory, the error it
gave up with, what its heartbeat thread found.

| Code | Actions |
| --- | --- |
| `next_item` as the runner sees it; reclaim of a lapsed lease | `Claim`; `Expire`, at any moment while the item is in progress |
| heartbeat thread | `HeartbeatFails`: a refused renewal (`lost`) or any other error (`broken`) |
| `_transaction_for_queue_item` | `BuildFails`, `Bind`, `BindFails`, `Load` |
| one move of the engine | `Advance` (`Moves`) |
| `_lease_checked_checkpoint` around `_strict_transaction_checkpoint` | `Save`, `SaveFails`, `Continue`, `LeaseCheckFails` |
| `_save_queue_transaction_fenced` | `Fence` (claim, binding, revision), `Written`, `Bound` |
| `_checkpoint_failure_allows_queue_retry` and its two helpers | `AllowsRetryStored`, `AllowsRetryUnstored` |
| return of the engine; final transition | `Return`; `Close` (`Lost`, `Retry`, `Returned`) |
| process death, fatal signal, failing transition | `Crash` |
| operator | `ForceComplete`, `ForceFail` |
| `resume_transaction` and `save_transaction` by someone else | `ManualRead`, `ManualSave`: unconditional, and possibly of an old snapshot |

`BindFails` and `SaveFails` have a parameter `done`: the error may come before or after
the commit. Lease check and save share `operation_lock`, so they are one action; the
heartbeat can fail between any two others.

The module is deliberately abstract on both sides, because each side has its own module.
A lease may run out at any moment, so the clock is not needed. The engine makes one
pass: begin, start a step, end it, settle; a system failure ends the pass, a business
failure does not. Retry passes, halting business failures, MemoryError and errors that
leave the engine without a checkpoint are in `Engine`. The transaction that a claim
builds is named by the claim's token, so a second transaction of one item would
have a second name. `worker[w].base` and `bodies` are history variables: the snapshot a
worker last read or wrote, and how often each step's body ran.

`save_transaction` is documented as unconditional, so it may replace anything. The
properties that promise more than it allows are stated for the steps of workers
(`UNCHANGED manual`) or for executions without it (`manual.saves = 0`);
`EveryExecutionIsOnRecord` and `NoLostUpdate` hold in its presence.

The queue row of `FencedRunner` is a second picture of what `SqliteQueue` has in detail.
`RunnerPromise` ties the two together: with a history variable for the outcome of each
claim (`outcomes`), which every step determines and none is prevented by, the row is an
item of `WorkQueue`, the promise that `SqliteQueue` implements. The outcome is read off
the step: an operator's if an override was counted, an expired lease if no worker moved,
and otherwise what the worker's final transition made of the item. The correspondence
begins where the item has been put in.

### RunLifecycle

One call, with the caller's thread (`run`), the heartbeat thread (`beat`) and
`operation_lock` (`lock`). `option` is the configuration: queue loop or direct call,
with or without a scope, a transaction store, a custom provider, retried business
failures.

| Code | Actions |
| --- | --- |
| argument checks, database preparation; `__enter__` | `Start`; `EnterScope` |
| `_next_item_with_retries` | `Poll` (stop event), `Claim`, `ClaimNothing`, `ClaimFails`, `ClaimInterrupted` |
| `_LeaseHeartbeat` | `BeatWake`, `BeatLock`, `BeatRenew` (one attempt of a retried renewal) |
| `_run_claimed_item_with_context` | `Work`, `Judge`, `Check`, `Report`, `Notify`, `NotifyDone`, `AfterItem`, `Signal` |
| final transition under the lock | `Acquire`; `CloseApplied`, `CloseRefused`, `CloseLocked`, `CloseBroken`, `CloseInterrupted`; `Lose` |
| `_stop_lease_heartbeat_preserving_error` | `Stopping`, `Join`, `JoinInterrupted` |
| `__exit__`; `on_finish` | `LeaveScope` (`AfterExit`, `AfterDirectExit`), `NoScopeToLeave`; `OnFinish` |
| `execute_transaction` | `Execute`, `ExecuteEnds`, `DirectSave` |
| the caller; the queue | `SetStop`; `Expire` |

What happens to the stored transaction is in `FencedRunner`: here the engine is the
status it leaves or the error it raises. `done` records what was really done, to compare
the summary with. The comment at `runner.py:52-56` says that an active error is preserved and gets a note
when cleanup fails too. For an ordinary error that is not what happens when `__exit__` of
the scope raises: its error replaces the active one (`AfterExit`).
`docs/durability.md:101` ("resource cleanup failures propagate") agrees with the code.

### Storage

`file` is what is committed: for each part, queue and transactions, its schema version
(`marker`) and the version whose tables are really there (`level`), which differ when a
user put a marker back; what stops a migration (`flaws`); journal mode; and whether an
item is in progress with or without a token. A program claims, prepares, saves, loads
or inspects.

| Code | Actions |
| --- | --- |
| `ensure_database_compatibility` before anything; `save`, `load`; read-only open | `Check`; `Begin`; `Inspect` |
| `PRAGMA journal_mode = DELETE` | `SetJournal`, `JournalBusy` |
| `_ensure_schema`: look; `BEGIN IMMEDIATE` and look again | `Look`; `Lock`, `LockBusy` |
| the migrations of both parts | `Step` (`Migrated`), `Refuse` (`Refuses`), `Commit`, `CommitBusy` |
| `next_item` on the open file | `ClaimToken` |
| `_write_transaction_rows` | `SaveRead` (identity, outside a transaction), `SaveWrite` |
| `load_transaction` | `LoadHeader`, `LoadSteps`, `LoadHistory`, `LoadArtifacts` in one read transaction |
| process death | `Crash` |

`saved` is the one transaction of the store as each save so far left it; the last member is
what is stored. A save is known by the revision it makes and the identity it was made under,
and a record says of its header, its steps, its artifacts and each history row which save
wrote it. Header, steps and artifacts are replaced by every save; history rows are written
with INSERT OR IGNORE by sequence number (`persistence.py:786-788`), so the rows of earlier
saves stay beside them (`Added`). `LoadsAreCoherent` therefore asks that a load return the
record as some save *left* it, which is not always what one save *wrote*. With a rollback
journal the shared lock of a reader keeps saves and migrations that write out of the file
(`Blocked`); in WAL mode nothing does, and the reader goes on to see the record of the moment
it began (`mark`, `Seen`). A migration that finds nothing to do commits in either mode.

### Release

| Code | Actions |
| --- | --- |
| `release-candidate.yml`: dispatch; identity preflight; build and lock | `Dispatch`; `Preflight`; `Build`, `FreezeFails` |
| `validate_release_candidate.py` in a platform cell | `Validate`, `WriteEvidence` |
| `validate_examples_against_wheel.py` | `InstallExample`, `RunExamples` (`IsCandidate`), `WriteEvidence` |
| a cell that fails, is cut off or lost | `CellFails`, `CutShort` |
| `aggregate-gate`; GitHub's rerun buttons | `Aggregate`, `AggregateFails`; `RerunAll`, `RerunFailed` |
| `publish.yml`: request; downloads; `verify_publish_candidate.py`; approval | `Request`; `DownloadLock`, `DownloadGate`; `Verify` (`Exact`); `Approve` |
| upload; end and repetition of a job | `UploadWheel`, `UploadSdist`; `JobEnds`, `RetryJob` |
| people | `MoveMain`, `ClaimVersion` |

GitHub's artifacts and run conclusions and PyPI's rule that a file name never gets other
bytes are external: the actions use them as workflows and scripts do. A build is
named by its number; its sdist is new, its wheel may have an earlier build's bytes.

### Seeded faults

Definitions marked *faulty* are used by no action. Each is a plausible bug in the
definition that follows it (a dropped guard, `>=` for `>`, a missing counter). Putting
one in place of the original makes the property listed with it in `PROJECT.json`
("mutants") fail.

## 3. Runs, bounds and fairness

| Run | Checks | Instance |
| --- | --- | --- |
| `queue_claims` | `TypeOK`, `LedgerMatchesClaim`, `DeliveriesBounded`, `RetryCountIsAudited`, `LeaseHonoured`, `NoEarlyDelivery`, `BindingBelongsToClaim`, `ImplementsWorkQueue` | 1 item, 2 workers, 1 retry after 1 tick, lease 1 s of 2 ticks, clock to 9, renewals started up to instant 3, 1 override; 228 120 states |
| `queue_liveness` | `EveryItemSettles` | 2 items, the first undecodable, the second put in with `add_once`, 2 workers, 1 retry, clock to 10; 137 760 states |
| `listings` | `OneActivePerReference`, `PoisonNeverDelivered`, `PagesMissNothing`, `ListsMissNothing` | 3 items of one reference, two put in with `add_once`, the first undecodable, 2 workers, 1 retry, 1 override of the undecodable item, no time passing, pages of 1 with two filters; or 3 transactions, two of one age, pages of 2, limits 1 and 3; 1 468 007 states |
| `engine` | `TypeOK`, `IntentIsDurable`, `DurableHistoryIsPrefix`, `BusinessFailureIsTerminal`, `RetryWithinBudget`, `VerdictIsTrue`, `SuccessIsKept` | 2 steps with the endings that interact, 1 retry pass, 3 runs; 1 702 830 states |
| `runner_claims` | `OneTransactionPerItem`, `HolderIsCurrent`, `CompletionIsStored`, `StoredVerdictIsFinal`, `StoredOutcomeIsKept`, `RunnerKeepsPromise` | 2 workers, 2 steps, 1 queue retry (2 claims), 1 override, the outcomes recorded; 1 250 751 states |
| `runner_outside` | `EveryExecutionIsOnRecord`, `NoLostUpdate` | 2 workers, 1 step that succeeds or fails for the business, which is retried, 1 save from outside, 1 override; 1 585 413 states |
| `run_lifecycle` | `TypeOK`, `CountsHold`, `ScopeCoversWork`, `StopIsPrompt`, `SignalIsNotSwallowed`, `LossStopsRun`, `RunEnds` | 3 configurations, 1 item, 1 retry, 1 notifier, 3 attempts of every retried call; 389 525 states |
| `storage` | `FilesAreWhole`, `OnlyBadFilesAreRefused`, `LoadsAreCoherent` | 3 programs, 18 files to start from, 2 identities, histories of up to 2 entries, 1 crash; 326 750 states |
| `release` | `PublishedIsTested`, `UploadIsApproved` | 1 candidate run of up to 2 attempts and 2 builds, 1 platform, 2 publishing jobs, 1 repeated job, 2 commits of one version; 1 763 331 states |
| `unstored_outcome` | `UnstoredOutcomeIsNotRetried`, violated | 2 workers, 1 step, 2 claims |
| `repaired_failure` | `SystemFailureIsSystem`, violated | 2 steps, 1 retry pass |
| `identity_race` | `MismatchedSaveIsRefused`, violated | as `storage`, with 2 programs |

**Why the bounds are enough to be interesting.**

*Queue.* Two workers are what every race of the queue needs: one holder and one rival; a
third would be a second rival of the same kind. Both use the same `worker_id`, the worst
case, as processes on one host do by default; they are interchangeable, which the
instances use as symmetry. One item suffices for claims since rows interact only through
selection order and references; the other runs have two or three. Two ticks per second
make rounding of leases visible. With one retry an item can be delivered, expire
or fail, be delivered again, and exhaust its budget; one override can revive it.
`RenewUntil` bounds renewals, without which a lease could be renewed for ever.
`MaxClock` leaves time for two leases, the delay and the slack between reading
the clock and using it. In the liveness instance the clock never reaches its
bound (`ClockToSpare` in `MCSqliteQueue`), so nothing settles or stays only because
time ended.

*Lists.* With pages of one, every other row is behind a cursor. A page with the undecodable
item fails, so the walks that get anywhere are those of the two good items; there are two
of them so that a walk has two pages that decode, with a claim, a failure, a retry or
a quarantine between them, with either filter, and the undecodable item may be enqueued
behind the cursor meanwhile. It is also the one the operator overrides: quarantined, forced
back while another item of its reference is active, and quarantined again. Leases and
delays have no part in lists and duplicates, so the clock stands still; they are the subject
of `queue_claims`. Two transactions of one age are on the two sides of a page boundary,
and the third is older. Limits 1 and 3 are below and above the page size.

*Engine.* Two steps are one that fails and one downstream of it. Three runs give a
recovery of a recovered transaction at every point of the first two; `MCEndings` gives every
ending to one of the steps: the first succeeds, halts or fails for the system, the second
skips itself, fails for the business or runs out of memory. One retry pass separates
failures of the first pass from failures of a retry.

*Runner.* Two workers are the holder and a stale rival, and two claims let the
rival be one that built the transaction or one that resumed it. One step is enough for races
about the whole transaction; `runner_claims` has two so that a partly successful
transaction changes hands. One override reopens or closes the item under a worker, and
one outside save with a read of its own can be stale. Claim and revision are two
separate tests of the fence: the seeded faults drop one at a time, and each of them
alone breaks a property. `runner_claims` checks `FencedRunner` together with its history
variable, which no property but `RunnerKeepsPromise` looks at. The type of its variables,
which bounds the claims as well, is proved (`RunnerTypeCorrect`) and not checked again.

*Run lifecycle.* One item and one retry are two deliveries, so the loop goes round with a
counter that is not zero. The configurations are the durable loop with a scope,
the loop over a custom provider with neither and with business failures retried, and the
direct call. Three attempts are the code's own number.

*Storage.* Three programs are one that holds the lock, one that waits for it and one that
reads or comes late. The files are one of every case the migrations tell apart: new,
current, older, newer in one part, a marker put back in front of each change that
cannot be made twice, each flaw, WAL with and without a lease, and one with a lease under a token whose queue is
of version 3, which later migrations must leave alone. With two history entries a
record can hold history of one save beside the header of the next, while a third program
loads it.

*Release.* Two builds and two attempts are an old and a new candidate under one run id;
two jobs are two requests, for different builds if need be. Two commits of one version
let main move under an approval.

The queue runs, `listings` and the engine runs are checked for deadlock: workers poll, transactions can be
resumed. The others use `CHECK_DEADLOCK FALSE`, because calls return, publishing jobs
end, and the workers of the runner instances are idle when the item is settled and the
bounds are used up.

**Fairness.** In `queue_liveness`: `WF(Tick)`: time passes.
`WF(NextItem(w))`: a worker keeps calling `next_item` and a call that started
ends; this is the loop of `_run_items`, run again when it drained, as a scheduled
worker is. `WF(RenewLease(w))`, `WF(Fail(w))`: a call that started ends.
`SF(Finish(w))`: a worker that holds a claim gets to `complete` or `fail` unless
it dies; strong because renewals interrupt it again and again. There is no fairness
on `Crash`, so workers may or may not die, nor on producers and operators.

In `run_lifecycle`: `WF(Main)` and `WF(Heartbeat)`: both threads run, and user code
returns. `SF(Acquire)`: the heartbeat holds `operation_lock` for one renewal and then waits
its interval without it, so the caller's thread is not passed over for ever.
`SF(ExecuteEnds)`: the engine of a direct call makes finitely many checkpoints, which
is bounded in `Engine`. Nothing is assumed of signals, of the stop event or of leases.

## 4. What the runs show

All properties of the nine passing runs hold. The three other runs each show a
disagreement between documentation and code; the counterexample TLC prints is the
scenario:

- **`repaired_failure`**. `_last_failed_exception` (`engine.py:353`) takes the
  newest STEP_FAILED entry of the history even when a retry repaired that step.
  Step 1 fails with a non-halting BusinessException, step 2 with a
  SystemException; in the retry pass step 2 succeeds. The only failed step is the
  business one, yet the transaction ends `system_failed` / `retry_exhausted`.
  `docs/api.md:90-92` reserves these for a system failure left after the budget.
- **`unstored_outcome`**. When the checkpoint after a successful or skipped step fails
  and cannot be read back, `_in_memory_checkpoint_failure_allows_queue_retry`
  (`runner.py:1182`) excepts only business failures and lets the queue retry; the
  next worker executes the step again. A skipped step is retried even when its
  checkpoint was committed. `docs/durability.md:866-869` says that after a failure that
  follows a "successful, skipped, or terminal business-failed step outcome" the item
  is failed "without automatic retry to avoid replaying side effects that already
  occurred". The test at `tests/test_runner.py:1560` expects what the code does.
- **`identity_race`**. `_write_transaction_rows` tests the stored definition identity with
  a SELECT (`persistence.py:655`) that opens no transaction in sqlite3's legacy mode;
  the write transaction begins at the INSERT OR IGNORE of line 692. Two programs that make
  the first save of one transaction under different identities both pass, and no
  `DefinitionIdentityError` is raised; the second replaces header, steps and artifacts
  under the first one's identity and keeps the first one's history rows.
  `docs/durability.md:450-451` says that such a save is rejected "without modifying the
  existing record".

Three things the runs show that a reader may not expect: a listing may miss an old row that
a save gives its creation time during the walk (section 2); a stop event that is set while
`next_item` is about to be called lets that one call through, and no other
(`StopIsPrompt`); an upload that stopped after the wheel can never be completed by the
workflow, because its recheck finds the version on PyPI.

## 5. Proofs

The theorems hold for every value of the constants that satisfies the module's
assumption (`QueueAssumption`, `PagesAssumption`, `EngineAssumption`,
`RunnerAssumption`, `LifecycleAssumption`, `StorageAssumption`, `ReleaseAssumption`).
These give types only: finite sets of items, numbered from 1, workers' names that are
strings, natural numbers for budgets and times, `LeaseTimeout > 0`, page sizes above zero.

Every safety property below follows the same pattern: an inductive invariant, one lemma per
action that shows it is kept, and the property as a consequence of the invariant or, for
an action property, of the invariant and one step.

**SqliteQueueProofs.** `QueueInv == TypeOK /\ AllGood /\ AllRemember` is inductive.
`Good` says of one item that an open attempt is the newest one, exists exactly
when the row is in progress and carries the row's token and worker, and that
attempts are paid for by retries (`Budget`): their number is at most the retry count, or
one more while the row is in progress or successful; it is at most `MaxRetries + 1`; and
a row that can still be delivered has at most `MaxRetries` retries. `DeliveriesBounded`
alone is not inductive: it says nothing of a row that is pending with a full ledger.
`Remember` says of one worker
that the token it holds is of an attempt that exists, and that the retry count it read
in `FailRead` is the row's as long as its claim is current; this makes the unlocked
read of `fail()` harmless. Lemmas about `Failed`, `Succeeded` and `Close` are stated once.
Theorems: `QueueInvariant`, `TypeCorrect`, `LedgerAlwaysMatchesClaim`,
`DeliveriesAlwaysBounded`. Four more parts rest on it:

- *Steps.* `Effects` names the seven things that can happen to an item in a
  step: nothing, insertion, claim, quarantine, an update by its holder, release at the end of
  a lease, an override. Every action is shown to be one of them for every item, and the
  action properties follow by cases: `LeasesAreHonoured`, `DeliveriesAreDue`,
  `BindingsBelongToClaims`, and the invariant `OneActiveItemPerReference`. They need that
  no call reads a clock ahead of the shared one (`Past`) and that an item that was never
  inserted is bound to nothing (`Unbound`). `LeasesAreHonoured` is where the truncation to
  seconds is dealt with: two instants whose truncated seconds differ by more than the lease
  are more than the lease apart.
- *Refinement.* `QueueKeepsItsPromise`: every step of `SqliteQueue` is a step
  of `WorkQueue` or leaves what it sees unchanged. Beyond `QueueInv` this needs
  `PromiseInv`: a worker that is about to quarantine a row selected it as undecodable, and
  one that is about to claim selected one that decodes (`Aware`), and an undecodable item
  has no attempts and, between two overrides, at most one quarantine (`KeptAside`). Each
  write is shown to be one abstract action on the item it touches; `Reclaim` is `Expire` of
  the set of stale rows. `PoisonIsNeverDelivered` follows from the same invariant.
- *Retry count.* `RetryCountIsAlwaysAudited`: every change of a row, its ledger and its
  overrides belongs to one of a few kinds, and each kind adds as many counted rows as
  retries: opening an attempt none, closing one with a failure or at the end of its lease
  exactly one, an override its own and that of the attempt it closes.
- *Waits.* `WaitIsBounded` and `WaitIsLongEnough` about `RetryPolicy`: between one tick and
  the cap, and no shorter than asked for unless the cap cuts it, however large the power.

**ListingsProofs** is about walks in pages.

- *Pages.* `PagesAlwaysMissNothing`. `Walked` says of a walk between two pages that nothing
  returned lies after the cursor and nothing steady before it was passed over.
  `LeastFacts` says that a page is the beginning of what lies after the cursor; it rests on
  the existence of a least and a greatest key of a finite set, which comes from the
  well-foundedness of strict inclusion, as no induction is available. The proof brought out
  that an item must not be numbered 0, which is also "no item": `QueueAssumption` says so.
- *Lists.* `ListsAlwaysMissNothing`. A sorted list places each row by its rank, the number
  of rows before it; ranks are all different and below the size of the set, and as many
  different numbers below n as n itself are all of them (`EveryRank`), so every position of
  the list is taken (`SortedFacts`). `WalkInv` then divides the rows at the cursor, with
  keys that are pairs and may change: what was taken is behind it and would stay there if it
  were dated, or removed and saved again (`Behind`); what is steady and was not taken is
  ahead (`Ahead`). The ids that wait to be loaded are new to the caller and each there once
  (`Loading`); what a limit leaves is never exceeded (`Counted`). A page divides what is
  ahead into its rows and those after its last (`PageDivides`); each action keeps the
  invariant by a lemma of its own.
- `ListingsMissNothing`: both, for whichever store is walked.

**TransactionProofs.** Lemmas shared by engine and runner: the pure functions keep the type
of a transaction, extend its history, and keep stored successes.

**EngineProofs** has two invariants. `EngineInv` adds to `TypeOK` and `IntentIsDurable`
that a step body is entered only through its own save, that a step recorded as started
stays in progress until its body runs (`Started`), and `Behind(disk, mem)`: the stored
history is a prefix of the one in memory, and stored successes are successes in memory.
`Behind` is what survives every lost checkpoint: steps extend the history and never take
back a success, `Save` closes the gap, `Resume` starts again from `disk`.
Theorems: `EngineInvariant`, `EngineTypeCorrect`, `IntentAlwaysDurable`,
`DurableHistoryAlwaysPrefix`, `SuccessAlwaysKept`.

`RunInv` ties the control point to the history. A step starts at most once per pass, so
never more often than there have been passes up to the cursor (`Budget`); every skipped
step has a cause in the history (`Explained`); a step that recovery barred stays skipped or
a business failure for good (`BarredStays`); as long as nothing failed in this run, what
the cursor has passed is done (`Visited`); and the newest failure in the history is the
newest exception of its step and stands until the run is over (`FailureStays`), which is what
`_last_failed_exception` relies on. Theorems: `RunInvariant`, `RetryAlwaysWithinBudget`,
`BusinessFailureAlwaysTerminal`, `VerdictAlwaysTrue`.

**FencedRunnerProofs** has three invariants. `RunnerInv` ties what a worker remembers to the item and
the store (`LocalInv`): its transaction is the one the item is bound to; its revision is not
ahead of the stored one, and when both are equal the stored snapshot is the one it
started from (`base`); and while it holds the claim, and nobody saved from outside, they
are equal. The second part needs that every write adds one to the revision, the third
that no two workers hold one token (`Distinct`), which in turn needs that tokens are
never above the number of claims. A stale worker may hold any older revision: `Fence`
refuses it by the claim, and if the claim test were not there, by the revision unless it is
equal. Theorems: `RunnerInvariant`, `RunnerTypeCorrect`, `OneTransactionAlways`,
`HolderAlwaysCurrent`, `NoUpdateEverLost` (the compare-and-swap, as an action property, with
outside saves included).

`StoredInv` adds what a worker may overwrite: the object in its memory goes on from the
snapshot it read or wrote last, so that it keeps that snapshot's results (`Sound`), and a
worker that intends to complete still stands at the stored revision as long as its claim is
current (`Confirmed`). Theorems: `StoredInvariant`, `StoredVerdictAlwaysFinal`,
`StoredOutcomeAlwaysKept`, `CompletionAlwaysStored`.

`RecordInv` counts executions with tickets: a worker that has stored a start and not yet
executed the step holds the position of that start in the stored history. Tickets are all
different, because only one worker can have written a position, and an execution gives its
ticket up; so executions and outstanding tickets together are never more than stored starts.
Theorem: `EveryExecutionAlwaysOnRecord`.

`RunnerAlwaysKeepsPromise`: from `RunnerInv`, every step of `FencedRunner` is one of
`WorkQueue` on the view of `RunnerPromise`, or a stutter: `Claim` is `Deliver`, `Expire` is
`Expire`, `Close` is `Succeed`, `GiveBack` or, when the claim was lost, nothing; a binding
does not show. The budget test of `Returned` and that of the promise, written differently
in the two modules, agree because retries are natural numbers (`ReturnedView`).

**RunLifecycleProofs.** `LifeInv` gives for every control point of the caller's thread what
may hold there: where an error or a known loss may be on its way out (`Errands`, `Losses`),
where the scope is open (`Scope`), where the counters are one item behind the claims
(`Tally`), that they are true as long as no signal has been raised (`Truth`), and that a call
of `next_item` after the stop event was the last one (`Stops`). Theorems: `LifeInvariant`,
`LifecycleAlwaysTyped`, `CountsAlwaysHold`, `ScopeAlwaysCoversWork`, `StopIsAlwaysPrompt`,
`SignalIsNeverSwallowed`, `LossAlwaysStopsRun`.

**StorageProofs.** The content of `StoreInv` is that the open transaction of the writer is
a function of the file and of the version the migration has come to (`Advanced`): nothing of
the program that migrates matters. So a commit moves a part from what it was to the current
version at once, a program that dies leaves nothing, and a refusal depends only on the file
that was found. Of a reader it says that the record it sees is the one its mark stands for
(`OnMark`): with a rollback journal because no save gets past its lock, in WAL mode because
the snapshot is that record whatever was saved since, and the journal mode does not change
while it reads. Theorems: `StorageInvariant`, `FilesAreAlwaysWhole`,
`OnlyBadFilesAreEverRefused`, `LoadsAreAlwaysCoherent`.

**ReleaseProofs.** `ReleaseInv` follows a set of bytes: a suite that passed stays on record, and
the evidence of a cell, the gate made of it, the copy of the gate a job downloads, the lock
the job verified and the approval each stand for suites that passed on those bytes, even
when the run that made them has moved on. The wheel is uploaded under the lock that was
verified last, the sdist under the same one. Theorems: `ReleaseInvariant`,
`UploadIsAlwaysApproved`, `PublishedIsAlwaysTested`.

**A convention of the modules.** tlapm 1.4.5 hands `[f EXCEPT ![p].a = x, ![p].b = y]` to the
SMT solver in an unsound form, from which false facts follow, and expands an inner `@` of
nested updates wrongly. The modules therefore write `[f EXCEPT ![p] = [@ EXCEPT !.a = x,
!.b = y]]`, with nothing but the outer record as `@`; no proof rests on the other forms.

**Only model-checked.** `EveryItemSettles` and `RunEnds`: liveness under fairness is out of
the prover's reach. The three properties of the runs that expect a
violation are false. All others are theorems. As to the bounds in the guards
(`MaxClock`, `MaxOverrides`, `MaxRuns`, `MaxManual`, `MaxForced`, `MaxCrashes`, `MaxBuilds` and
the like), the theorems hold whatever number is given, so they lose nothing by them.

## 6. What is not modelled

- **A crash inside a halting failure.** The failure of a halting step is checkpointed
  (`engine.py:291`) before the skips it causes are recorded. After a crash between
  the two, recovery sees a failed step and pending steps behind it, and runs them.
  The model has this window, but no property forbids it: `docs/durability.md` describes
  recovery as not inferring causality without recorded skips, which is what the code
  does. `BusinessFailureIsTerminal` therefore promises to keep only skips that are in the
  stored snapshot.
- Payloads, state, arguments, artifacts, metadata, messages, codes: data no
  property depends on. A payload either decodes or does not.
- What a custom `QueueProvider`, notifier, callback or resource scope does inside: user
  code, which `RunLifecycle` lets return and fail in every way the runner distinguishes.
- Clocks that jump backwards or differ between hosts. The processes share the
  database file, normally on one host.
- Disk corruption and power loss inside SQLite: a write transaction is atomic and durable.
- Floating point in `retry_available_at`, at most a microsecond at the cap.
- Attempts and events of all items in one list (`item_id=None`), and cursors that were
  tampered with.
- Mail, HTTP and rendering in notifications and reports; the doctor, configuration, manifest,
  logging, credentials, screenshots, scaffold: sequential, without state that outlives a
  call. The rest of the command line is parsing and rendering around operations that are
  modelled.
- Of the release pipeline: what the suites inside a cell do one by one, which `Validate`
  merges; `prepare_release_manifest.py`, which does not compare the examples wheel's hash
  with the candidate's artifacts; `verify_docs.py`; `validate_installed_wheel.py`; the
  validators used by hand with an output directory or virtual environments that are shared
  or left over.

## 7. Plan

What would carry the development further, in order of importance:

1. An abstract engine in which a step is pending, started or done and not executed again
   after a stored success, which `Engine` implements and the moves of `FencedRunner` use.
2. The claim tokens of `FencedRunner` and the attempts of `SqliteQueue` as one identity: the
   promise `WorkQueue` speaks of outcomes, not of who holds a claim.
3. The remaining lists of `_queue_read.py`, over all items.
