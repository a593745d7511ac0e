# Verification of the execution core

This directory models the part of the workspace backend that decides *which user
message runs when*, and what has to stay true around it: the durable execution
queue of a Thread, the job service that dispatches it, the stop of its executor,
the runtime the executor works in, the windows, background tasks and directories
of its Session, and the creation, change and deletion of Sessions. The agent
loop, the providers, the tools and the HTTP layer are clients of this core; they
appear only as the nondeterminism it must survive.

## 1. The system

A *Session* is a node of a catalog with a directory and *Threads*. A user message
accepted for a Thread becomes a *Job* with an *execution*; the executions of one
Thread run one at a time, in the order of their admission commits.

| Component | Code (under `src/app/`) | State | Operations | Correct when |
|---|---|---|---|---|
| durable execution queue | `services/infrastructure/rollout_context/execution/queue.py`, `storage/sql/execution_queue.sql`, `services/infrastructure/pending_request_store.py` | one row per job: phase, claim owner, generation, admission commit id | publish, claim, start, close, snapshot, policy edit | one active row per Thread, it is the head, its claim is fenced |
| execution convergence | `rollout_context/execution/lifecycle.py`, `executions.py` | `executions.outcome` | converge, mark terminal | an outcome is written once; only a lost execution is corrected |
| Thread execution holder | `core/session_lifecycle_gate.py` | an OS file lock per Thread | non-blocking acquire, release, release by death | no two processes execute a Thread |
| job status machine | `services/business/job/lifecycle.py` | `JobState.status` | `transition_job_status` | only edges of `_ALLOWED_TRANSITIONS` |
| job service dispatch | `services/business/job/service.py` | `_jobs`, `_thread_current_job`, tasks, claims | start, reload, dispatch, run, settle, finalize, hand over | one executor per Thread that may still commit, FIFO, nobody stuck |
| session admission | `service.py:485-700` | window counts, sessions being deleted, a lock and its condition | open and nest a window, idle operation, delete, settle jobs | these exclude each other per Session; a deletion ends |
| executor and step failures | `service.py:1295-1610`, `services/orchestration/` | executor task, timers, `protected_operations_settled`, scope, events | run, converge, fail, time out, stop in two rounds | a writer is never given up; what is announced is durable |
| FIFO mirror, pending requests | `services/business/job/pending_*.py`, `pending_request_store.py` | waiting requests, policies, session version | restore, list, withdraw, update a policy against a version | no update over a state its client has not seen |
| job control, session interrupt | `services/business/job/control_service.py`, `session_interrupt_service.py` | none of their own | pause, resume, cancel, interrupt | no request is lost, none settles twice |
| restart reconciliation | `services/infrastructure/runtime_service.py` | none | reclaim, resume or declare lost | every row left active is decided |
| thread residency | `services/orchestration/thread_residency.py`, `thread_residency_state.py` | runtime, leases, builder, scope, blockers, idle clock | acquire, release, build, unload, sweep, close | a lease is usable; nothing leaks; idle runtimes go |
| background work, operation leases | `core/background_task_registry.py`, `core/session_control_store/background_work.py`, `core/session_control_operation_lease/operation_lease.py` | task rows, leases with fencing tokens | spawn, claim, step, cancel, reconcile, drain, start | no effect is repeated blindly; leases follow tasks |
| session creation | `core/session_creation.py`, `core/session_catalog_store/creation_journal.py` | record, staging, bucket, quarantine, node | prepare, materialize, publish, abort, recover | a reader sees a whole Session or none |
| session subtree deletion | `core/session_subtree_delete.py`, `session_catalog_store/subtree_delete.py`, `fork_retention.py` | record, node states, fences, claims, progress | freeze, mark, drain, isolate, finish, abort, retry | closes at once, users and forks are safe, completes |
| navigation queue | `services/business/session_navigation/` | operations with order, state and generation, an outbox | enqueue, own, claim, execute, reject, delete, recover | in order, one effect each, every operation ends |
| communication ledger, turn control, execution intents, message stream store, event channels, configuration apply journal, workspace lifecycle | `core/`, `services/` | own files and journals | | not modelled, see section 7 |
| agent loop, providers, tools, API, front ends, gateway | `agents/`, `api/`, other directories | | | not modelled: external effects and presentation |

Interactions. `start_job` opens a preparation window of its Session, commits the
row and asks for a reload. A reload reads the rows **outside** the dispatch lock,
installs them inside, and dispatches: OS holder, claim transaction, slot, then a
second lock section starts the row and creates the task. The task creates the
executor, which registers a scope, acquires a runtime lease from the residency
tracker, runs the loop and commits the outcome; an SQL trigger closes the row. The
end of a task, the done callback of a cancelled task and a cancel request that
found no task all end in `_schedule_next_job_if_needed`. A deletion comes from the
navigation queue: it freezes and marks a subtree in the catalog and then drains each Session: its
jobs (admission), its runtimes (residency), its background tasks and leases, its
users, its directory. Everything in memory dies with the process; rows, records,
outcomes and renames that were synced do not.

What is hard here: coroutines interleave at every `await` outside a lock; three
parties can settle one cancellation, and a cancellation may arrive inside a
`finally` clause; most operations are several transactions in several stores with
a death possible between any two; a cached copy (mirror, version, status, frozen
subtree) is used after what it was read from has moved. `PROJECT.json` lists the
hazards with their lines and the properties that watch them.

## 2. Modules

| Module | Models | Main correspondence |
|---|---|---|
| `ThreadQueue` | abstract: a Thread's queue | admit, take the first open row, start, settle, correct a lost outcome |
| `OperationLease` | abstract: the lease table of a Session | create before the fence closes, mark settling, settle once, take over by token |
| `ExecutionOutcome`, `JobLifecycle` | pure: outcomes and marks; statuses and transitions | `MarkedOutcome` = `_mark_admission_terminal_status`; `MayTransition` = `transition_job_status` does not raise |
| `ExecutionQueue` | SQL rows, OS holder, several runtime processes | one action per transaction; `Crash` releases the holder |
| `JobService` | job service, control, interrupt, restart of one Thread | one action per section under `_dispatch_lock`, a `pc` for coroutines that span several |
| `SessionAdmission` | windows, idle operations, deletions of several Sessions | `preparations` = `_session_preparations`; a sleeping client waits on `_preparation_changed` and is awake only after `NotifyAll`; `OpenWindows(s)` are the nested windows the clients hold; `CancelInFinally` is a cancellation that reaches the `finally` of a window while it waits for the lock |
| `ExecutorStop` | task body, executors, timers, controls of one job (`StopSpec`) | `Protected` places are those where the runner keeps the settled event cleared; `hit` is a `task.cancel()` not thrown yet |
| `PendingPolicy` | waiting requests of several Threads, their mirror and version | `PolicySpec`; versions and rows are read Thread by Thread (`next` is the index in the order of reading), `lock` is the dispatch lock |
| `ThreadResidency` | the tracker's state of one Thread | `st` is `_ThreadResidencyState`, an action is the code between two awaits; `AllResumed`: the end of an unload or of a failing build waits for the callers that were woken before it |
| `BackgroundWork` | task rows, leases, runners, calls, restarts, deletion of a Session | an action per transaction: row and lease end in two |
| `SessionCreation` | creation journal of Sessions and forks | `dir` tells place, completeness, durability and origin, so that a power loss undoes an unsynced rename |
| `SubtreeDelete` | deletion records, catalog, fences, disk, claims, users | `gate` is the exclusive topology section; `pc.at` names the stages of `_drain`; `Subtree` is the least set closed under children, as the recursive CTE computes it |
| `NavigationQueue` | accepted batches, owner, execution, recursive deletions | `gen` is the durable owner generation, `worker` the coroutine of each process; `Successors` are the operations that wait for another one, directly or through others (`Poisoned` is the set closed under waiting), `Rank` the order of a batch |
| `BackgroundWorkProofs`, `SessionCreationProofs`, `NavigationQueueProofs`, `SessionAdmissionProofs`, `SubtreeDeleteProofs`, `JobServiceProofs` | theorems about the module of that name | section 6 |
| `ExecutionQueueProofs` | theorems about `ExecutionQueue` and about `PendingPolicy` | section 6 |
| `ThreadRuntimeProofs` | theorems about `ThreadResidency` and about `ExecutorStop` | section 6 |
| `MC...` | small instances for TLC | |

How they fit. `ExecutionQueue` looks at the queue from the side of several
processes (stale records, generations, holders), `JobService` from inside one
process, where claim and holder are one step because the dispatch lock is held
around them; both are shown to implement `ThreadQueue`. `BackgroundWork` implements
`OperationLease`, with the fence of the Session as its own variable. `ExecutorStop`
opens the step `JobService` sees as "the executor ends", and shares
`ExecutionOutcome` with the queue. `SessionAdmission`, `ThreadResidency` and
`BackgroundWork` open the drain callbacks that `SubtreeDelete` sees as one step
that may fail; `NavigationQueue` sees a deletion as the states of its record.

`JobService` in detail. A job is a record: `status`, `task` (where
`_run_job_background` is), `cancel`, `callback` (a done callback that is due),
`executor`, `abandoned`, `claim`, `restoring`, `resuming`, `boundary`
(`delivery_boundary`). `executor` is the one the body waits for; `abandoned` has the
stages of those it has given up (`Abandon`, `service.py:1593`): one may still be before
its outcome (`alive`) or before the publication (`finishing`). Such an executor outlives
its body, its slot and its claim, and goes on beside whatever the Thread does next.
`slot` is `_thread_current_job`, `waiting` the mirror: a set, because the code keeps
it in the order of `enqueue_sequence`, which is the commit of the admission (`commit`);
its head is the element with the least commit. The coroutines
`<<"task", j>>`, `<<"fin", j>>` (finalizer), `<<"ctl", j>>` (a cancel request),
`Restore` and `Notify` share the labels of the common tail: `close` → `handover` →
`select` → `launch`. `events`, `discarded`, `leaked`, `begun`, `confirmed`, `early` and
`changed` in these modules are observations: they guard nothing.

A cancel may come before the mirror has the job (`control_service.py:162-165`): the row
is closed, the removal from the mirror raises, and the job stays `queued` in memory.
`JobService` has this cancel under the constant `EarlyCancel`, `PendingPolicy` as
`CancelsEarly`: `fresh` are the requests admitted since the last restore, `early` those
among them that were cancelled. A restore that read the row before installs such a
request; its claim is refused and its removal writes nothing.

Abstractions and assumptions.

* Payloads, timestamps, progress, heartbeats and display fields are left out;
  `completed_empty` is a completion.
* A write that is one shielded `await` is one action; where it may fail the failure
  is an action of its own. `ExecutorStop!LeaveBody` takes a handler with its shielded
  write and its event as one step.
* asyncio: a pending `task.cancel()` is thrown before any other step of its task;
  waiters of a finished unload resume in one batch, in the order they queued; the timeout of a
  cancellation round is longer than the delivery of a cancellation.
* An executor given up may do all that is left to it at any time, until the process
  dies, or never. `JobService` lets the body give up an executor of a job in `Stubborn`
  whenever it stops one; that a protected section keeps it from giving up is
  `ExecutorStop`'s subject. A resumed job starts its executor although an abandoned one
  still has the Turn's scope; the refusal of the scope is a step that fails.
* `run_cleanup_shielded` swallows cancellations; the scope registry refuses a
  second scope of one Turn, which is a failed step.
* Residency: an admission of a deleted Session does not commit any more when its
  drain begins (`fenced`), as the order of the deletion guarantees.
* SQLite commits are durable; a rename is durable once both directories are synced.
* `JobService!RestartLost` is allowed for a claimed row because a second crash may
  hit a row that a first restart claimed again.
* Definitions marked `Mutant` are altered copies, not part of any specification.

## 3. Runs

| Run | Instance | Shows |
|---|---|---|
| `execution_queue` | 2 jobs, 2 runtimes, generation ≤ 2, symmetric | `QueueInv` (the active row is the head; claims and executors are fenced; row and execution end together), `OutcomeFinal`, `StartsInOrder`, refinement of `ThreadQueue` |
| `job_service_crash` | 2 jobs, one a follow-up, two policies; one crash **or** one failed terminal write (`OneDisturbance`); executors may fail before they converge, those of one job may ignore their cancellation | `ServiceInv` (types; an unstarted job in the slot is claimed; one cancellation; nobody between slot and mirror), `MirrorConsistent` (only queued jobs with queued rows, all admitted after the job of the slot), `CanonicalFirst`, refinement of `ThreadQueue` |
| `job_service_control` | 2 jobs, 1 pause or interrupt, any number of resumes and cancels, early cancels; every executor may ignore its cancellation | `ExecutorOwnsThread` (an executor somebody waits for has slot and claim; as long as one, given up or not, may commit, no other job is claimed, executed or able to commit), `LegalTransitions`, `ClaimIsGivenBack` (an ended job has closed its claim, or somebody who runs is about to) |
| `job_service_live` | 2 jobs, fair, no faults; the executors of one may ignore their cancellation | `EveryAdmissionSettles`, `TerminalReleasesSlot`; stated of two jobs, with a third a wake-up can be lost (section 5) |
| `session_admission` | 2 Sessions, 2 clients, windows nested twice, 1 late cancellation per Session, fair | `AdmissionInv` (deletions and idle operations are alone; counts are windows), `DeletedStaysEmpty`, `SleepHasCause` (whoever waits for windows has one that will wake it), `DeletionEnds` |
| `executor_stop` | 2 bodies, 4 controls, fair | `StopInv` (announced is durable, one scope), `WritersKeepTheSlot`, `StopEnds` |
| `pending_policy` | 2 Threads, 2 clients, 3 changes (early cancels among them), 4 lists, 2 updates, 1 restart | `PolicyInv` (version never ahead; the mirror only has requests that wait or were cancelled early), `UpdateIsFresh` |
| `thread_residency` | 2 executions, 2 keys, 1 blocker, 2 acquires, 3 builds, 1 fault, 2 closes, fair | `ResidencyInv` (blockers respected, one scope, closed is empty, the idle clock), `LeaseIsUsable`, `IdleUnloads` |
| `background_work` | 2 tasks behind one lock, one external, 2 steps, 2 starts, 2 calls, 1 fault, fair | `BackgroundInv` (runner owns its row, lease follows task), `NoBlindReplay`, `EndedStaysEnded`, `TasksConverge`, refinement of `OperationLease` |
| `session_creation` | a fork and a creation, parent revision ≤ 2, 2 deaths, 1 power loss, 1 fault, fair | `CreationInv` (published is whole, aborted is isolated), `DecidedOnce`, `ForksConverge` |
| `subtree_delete` | a folder with a Session, a Session beside, 2 overlapping deletions, 1 upset (death, power loss or failing drain), fair | `DeletionInv` (closes at once, retained is active, progress is durable, subtree is closed), `UsersAreSafe`, `MarkedCompletes` |
| `nav_queue` | 2 edits, a deletion, a title, chain of dependencies, 5 batches, 2 processes, 2 deaths, 1 refusal, 1 failing drain, fair | `NavigationInv` (order, receipt is mark, one owner), `AppliedOnce`, `FailureReachesSuccessors`, `EveryOperationEnds` |

The invariants named `...Inv` are conjunctions of the named invariants of their
module, the type invariant first; the others stand alone because they are the
point of their module.

Bounds. Two of each actor is where each hazard begins: every property relates one
job, window, deletion, runner or process to one other. Two runtimes let a stale
claim meet a new one, and generation 2 is a reclaim; a follow-up needs a parent; a
window nested twice is the nesting the code has (`start_job` lists); two deaths let
a recovery die too; three builds let a failed build and a change of key follow one
another; a chain of three operations has a successor of a successor. Each
disturbance is bounded by the smallest number that makes its races possible. In
`job_service_crash` a crash and a failed write do not occur in one behaviour, in
`subtree_delete` one upset of any kind does: the product of both is beyond a run of
minutes, and each kind meets every interleaving. `MaxBeside` bounds what moves,
claims and uses the catalog beside the deletions to one at a time; that one may
come at any moment and again and again. The first two runs of the job
service look at a state through a view (`CrashView`, `ControlView`): it leaves out what
can neither enable nor change a later step and what no property of the run depends on,
that is observations and the abandoned executors of a settled execution, and, where all
policies are `after_turn`, the value of a known outcome and the boundaries.

The theorems of section 6 lift the bounds of ten of the modules for everything but
liveness. Deadlock is not checked: when everything has ended and nobody asks for
anything the system may rest.

## 4. Fairness

| Module | Assumed | Because |
|---|---|---|
| `JobService` | weak fairness of each coroutine, of each executor, of a restart | the loop runs what is ready; the total timeout ends an executor or gives it up, because each round of a cancellation has a timeout; a dead backend is started again. **Nothing** is assumed of an executor given up |
| `SessionAdmission` | strong fairness of each client's own step and lock section, and of the end of jobs | `asyncio.Lock` is first come, first served: a waiter is passed over only finitely often |
| `ExecutorStop` | weak fairness of the body's stop steps, of a resume that waits, of protected sections, of the delivery of a cancellation | timers fire, `task.cancel()` is thrown, persistence and cleanup are finite; **nothing** is assumed of the loop |
| `ThreadResidency` | weak fairness of resumed callers, releases, builders, unloads, closers, sweep and time | the sweep is periodic, scopes close or raise |
| `BackgroundWork` | weak fairness of runners, ends of reconciliations, starts and the repeated drain; strong fairness of taking the holder lock | several tasks share a lock and each gives it back |
| `SessionCreation` | weak fairness of each coroutine and of the recovery of forks | startup takes up every open fork record |
| `SubtreeDelete` | weak fairness of a deletion's step or retry, and of users leaving | recovery retries each open record; gate sections are finite |
| `NavigationQueue` | weak fairness of a worker, strong fairness of becoming owner | a stopped process is started again and the OS lock is free in between |

No fairness of clients anywhere: nobody has to send, cancel or list, so whatever
would move only with the next request counts as stuck.

## 5. Where code and text disagree

While modelling, the following were seen in counterexamples of the modules.
Liveness and safety properties in the runs are stated with the exception
where there is one, so that everything else is still checked. To see a
disagreement, check the named property with the named change.

| Seen in | Code | Text |
|---|---|---|
| `JobService!QuietQueueIsEmpty`, three jobs, no faults | `service.py:1151`: the end of a job dispatches only if the slot is its own; a loader whose head was cancelled has popped the slot (`1851`), the next loader was refused by the claim still open (`1841`), and the new head waits until somebody asks again | `service.py:1140`: every terminal status hands the Session back, or the head would never be consumed |
| `JobService!TerminalReleasesSlot`, `MaxFaults = 1`, `FairSpec` | `service.py:1014`: when the terminal write of a failed or timed out job fails, slot and claim are kept and the done callback only writes `failed` | `control_service.py:114`: terminal write, release of the slot and wake-up happen together |
| `JobService!DiscardedNeverRuns`, `MaxCrashes = 1`, one follow-up | `service.py:1230`: the mark `failed` does not close a row, a discarded follow-up runs after a restart | `service.py:1190`: dropped so that no orphan continuation is created |
| `JobService!NonTerminalIsPlaced`, `EarlyCancel = TRUE` | `control_service.py:164`: a cancel before the mirror is loaded closes the row and leaves the job queued | assertion `service.py:948` |
| `PendingPolicy!MirrorWaits` without its exception | `control_service.py:163`, `service.py:1701`: a restore that read the row before such a cancel installs it, because only jobs that are not `queued` are skipped | `service.py:1690`: only executions without an outcome are projected |
| `JobService!QueueDrains`, `LossyExecutor = TRUE`, `FairSpec` | `service.py:1476`: an executor that fails before it commits leaves its row `started`, later claims are refused until a restart | `service.py:1140`: every terminal status hands the Session back |
| `JobService!WaitsForInterrupt`, mixed policies | `service.py:1179`: a job hands on the boundary it was delivered at, `idle` for the first | `openspec/specs/session-fifo-message-delivery/spec.md:27,41` |
| `SessionAdmission!DeletionEnds` without its exception | `service.py:575`: a cancellation that reaches the `finally` while it waits for the lock loses the decrement, and later deletions of the Session wait for ever | `service.py:605`: the `finally` settles the count |
| `SessionCreation!ForksConverge` without its exception | `session_creation.py:958`: a second quarantine of one id is refused, and the abort of the next attempt fails at every start | `session_creation.py:418`: isolates, then closes the record |
| `SessionCreation!PublishedIsWhole` without `OneKindOfFailure` | `session_creation.py:380`: a retry that finds the rename done skips the barrier | `add-itemized-rollout-context/.../spec.md:48`: no Session or a whole one |
| `SubtreeDelete!MarkedCompletes`, `SubtreeIsClosed` without their exceptions | `session_catalog_store/subtree_delete.py:157`: a retry reuses the frozen set although a fork was published below it after a death | `session_subtree_delete.py:55`: closure is guaranteed by gate and CAS |
| `NavigationQueue`: a batch accepted after its predecessor was rejected | `queue_dependencies.py:94`: the failure is propagated once, a later successor runs | `.../itemized-rollout-context/spec.md:121`: successors of a failed operation have no effect |
| `NavigationQueue!EveryOperationEnds` without its exception | `executor.py:227`: a deletion can be rejected with its record open, and every later start fails on the pair | `session_navigation/service.py:193`: the start goes on |
| `BackgroundWork!LeasesEndWithSession` | `background_task_registry.py:299`: two deaths leave a lease that the repeated drain skips | `container.py:1011`: a partial failure is retried from the record |
| `PendingPolicy!NoSecondTruth` | `service.py:1733`: a restore installs policies it read before an update | `pending_request_store.py:1`: no second copy of the facts |
| `ExecutorStop!OneLastEvent` | `job_execution_service.py:111`: `JOB_COMPLETED` comes before the status, a cancel adds `JOB_CANCELLED` | `test_trace_event_recorder.py:284`: no event after the terminal one |
| `ExecutorStop!SlotCoversWriters` | `service.py:1593`: the settled event is read once, an abandoned executor may clear it later (in `JobService` such an executor runs beside the next job's) | `service.py:1568`: the slot is kept while a writer is not drained |
| `ExecutorStop!PauseKeepsExecution` | `execution_step/failures.py:162`: a pause marks the execution lost, the resumed run cannot complete it | `test_service_cancel_convergence.py:191`: it must go on after the resume |

The properties of this table that no run checks (`QuietQueueIsEmpty`, `DiscardedNeverRuns`,
`QueueDrains`, `WaitsForInterrupt`, `LeasesEndWithSession`, `NoSecondTruth`,
`OneLastEvent`, `SlotCoversWriters`, `PauseKeepsExecution`) stay in their modules,
marked as such.

## 6. Proofs

Every theorem holds for all values of the constants that satisfy the named
assumptions, and of the specification without fairness. Each proof has the same
shape: an inductive invariant, found with TLC on the run's instance first; one
lemma per action (or per shape that several actions share); a lemma that the
invariant implies the properties; and the temporal conclusion.

| Module | Theorems | Assumes of the constants |
|---|---|---|
| `ExecutionQueueProofs` | `TypeCorrect`, `Invariance`, `ActiveRowIsHead`, `ClaimsAreFenced`, `ExecutorsAreFenced`, `RowFollowsOutcome`, `QueueInvariance`, `OutcomesAreFinal`, `StartsFollowAdmission`, `Implementation` (of `ThreadQueue`) | `OwnerAssumption`, `JobAssumption`, `BoundAssumption` |
| | `PendingIsSound`, `PolicySafety`, `UpdatesAreFresh` | `RequestAssumption`: the order of reading has every Thread; `ClientAssumption`: "free" is not a client; `PolicyBounds` |
| `BackgroundWorkProofs` | `LeaseInvariance`, `LeasesImplemented` (of `OperationLease`), `WorkInvariance`, `BackgroundInvariance`, `EffectsAreNotReplayed`, `EndIsFinal` | those of `BackgroundWork` |
| `SessionCreationProofs` | `CreationIsSound`, `CreationInvariance`, `DecisionIsFinal` | those of `SessionCreation` |
| `NavigationQueueProofs` | `NavigationIsSound`, `NavigationInvariance`, `EffectsHappenOnce`, `FailureIsPassedOn` | those of `NavigationQueue`; `ProcsAssumption`: "free" is not a process |
| `SessionAdmissionProofs` | `AdmissionIsSound`, `AdmissionInvariance`, `DeletionIsFinal`, `NoLostWakeUp` | `ClientsAssumption`: finitely many clients, because the property counts their windows |
| `SubtreeDeleteProofs` | `DeletionIsSound`, `DeletionInvariance`, `UsersStaySafe` | `TreeAssumption`, `BoundAssumption`; `OpsAssumption`: "free" is not an idempotency key |
| `ThreadRuntimeProofs` | `ResidencyIsSound`, `ResidencyInvariance`, `LeasesAreUsable` | `UsersAssumption`: finitely many executions, because leases are counted; `KeysAssumption`: "none" is not a key; `BoundAssumption` |
| | `StopIsSound`, `StopInvariance`, `WritersAreAwaited` | `RunsAssumption` |
| `JobServiceProofs` | `ServiceIsSound`, `OneExecutorPerThread`, `CanonicalOutcomeFirst`, `OnlyLegalTransitions`, `ServiceImplementsThreadQueue` (of `ThreadQueue`), `CancellationComesOnce`, `ClaimsAreGivenBack` | those of `JobService` |
| | `QueuedJobsAreLoaded`, `MirrorIsConsistent`, `ServiceInvariance` | also `~EarlyCancel` |

**`ExecutionQueue`.** `IInv` is the type invariant, the four safety properties and
three facts they need to be inductive: `CursorsOrdered` (rows have distinct cursors
not above the last commit, so heads are unique and an admission cannot overtake),
`HolderExclusive` (a runtime that claims or has an open claim is live and has the OS
holder; without it two runtimes could each believe that they may move a row) and
`KnownRowsExist` (a mark never settles a row that was never admitted). Actions that
touch no row go through `RowsUntouched`, those that write an outcome through
`OutcomeWritePreserves`. `Claim` is where the argument meets: the generation check
makes the record current, the head check gives `ActiveIsHead`, and the exclusive
holder excludes every other claim.

**`PendingPolicy`.** Both properties compare sums that are read one Thread at a time
while the Threads go on changing. The sum is a recursive function over the order of
reading. That the definition has a solution, its unfolding (`SumStep`) and that a sum
grows with its summands (`SumMonotonic`) are inductions over a set of indices
(`SetInduction`): the least index that fails cannot exist.
`PendingSound` then says that no running sum is ahead of the revisions it was read
from, and, for each client that has listed, that there are revisions `L`, those at
its list, which the present ones are not behind and exceed for every Thread that
has changed since (`Ahead`), and that a check has read no less than `L` so far,
and, past the Thread of its request, no less than `L` and the growth of that Thread
together (`CheckAhead`). `Commits` is where the argument meets: the sum equals the
version, which is at most the sum of `L`, so the Thread read has not grown, and the
revision that is compared in the transaction shows that it has not since. The
argument uses nothing of when the other Threads were read. The part about the mirror
(`WaitingSound`) says of the mirror and of a restore under way that their requests
wait or are in `early`; without the exception `CancelsEarly` breaks it.

**`BackgroundWork`.** The refinement needs `LInv`: a task without a row has no lease
(so that `Spawn` creates one), the lease of an active task is not settled (so that
an end settles it and a start may take it over), and whoever works on a task finds
its row running. `WInv` adds what ties a runner to its row: the runner of a row is
its owner, a row under a marked effect belongs to a running step, and a started
process has no runners of the last one. `BackgroundInv`, `NoBlindReplay` and
`EndedStaysEnded` follow from it.

**`SessionCreation`.** `CInv` says, for each stage of a coroutine and each state of
the record, where the directory is, whether it is complete and whether its rename
is durable. A death forgets the coroutine and keeps the record, so the invariant
of the record alone has to carry the recovery; that is why it speaks of the
directory for every state of the record and not only for the running stage.

**`NavigationQueue`.** `QInv` says that the worker that is active holds the current
generation (so a process that lost the ownership can neither execute nor end an
operation), that an effect was applied exactly for receipts that say so, and that
what waits for a rejected operation is rejected with it. `FailureReachesSuccessors`
needs no induction over the chain of dependencies: the successors are the smallest
set closed under waiting, and a rejection writes all of it in one transaction.

**`SessionAdmission`.** `AInv` makes the count of a Session exact: the windows its
clients have open plus those a late cancellation has lost. Counting over clients is
what the proof is about: one client's step changes the set of open windows by one
element (`WindowStep`), and the cardinality lemmas of the library turn this into
the count. `DeletedStaysEmpty` follows because a deletion that returned has seen the count
at zero with the Session fenced. `WInv` adds that a deletion asleep on the condition
has a Session whose count is not zero: every step that lowers a count notifies
in the same lock section, and a late cancellation lowers none. With the exact count
this is `NoLostWakeUp`, the safety half of `DeletionEnds`.

**`SubtreeDelete`.** `DeletionInv` does not say which Session a drain is busy with,
nor why no other deletion touches it. `DInv` adds what a coroutine knows at each of
its lines (`PcSound`: behind the wait nobody is inside the Session, behind the fence
it is closed, behind the rename the directory is isolated, behind the barrier this
is durable), what a record says of its nodes (`RecSound`), that a deleting node
belongs to one marked record (`Owned`), that a touched directory is out of
every user's reach (`DiskSound`), and `OneSection`: unless something died, record and
mark are one gate section, so that the frozen set is still closed under children
when it is marked. `CoroutineStep` is the shape of every step of the drain.

**`ThreadResidency`.** `ResidencyInv` does not say who waits for what. `RInv` adds
that the leases counted are the executions that hold one, all on the resident
runtime (`LeasesSound`); that whoever waits for a task waits for one that runs
(`WaitsSound`), which every end of a task restores by waking those who waited
(`WakeSound`); that a runtime is closing exactly behind the drain of its unload
(`ScopeSound`); and what a closer may rely on in each place where it waits
(`ClosersSound`). The last part is where the argument meets: a closer whose builder
has ended finds either a runtime or nobody who could start another builder, and a
process closer whose unload has ended without an error finds nothing, because the
tracker admits no caller while it closes. A state that is forgotten when it is cold
(`Becomes`) is one step with the change that made it cold, so the lemma
`BecomesSound` closes every action.

**`ExecutorStop`.** `EInv` adds that an executor between its final checkpoint and the
publication has committed the outcome, that nobody else is there with it and that
nothing has been announced. The checkpoint is where the argument meets: it requires
an unsettled outcome, and a settled one is never taken back (`CompletionAbsorbs`).

**`JobService`.** No property here is inductive alone: whether a finalizer may settle
a job, whether a task may still move its status and whether a claim may be taken
depends on where task, callback and coroutines are. `JInv` says so job by job.
`ShapeOf` relates the fields of a job to the slot (a job that is not done has slot and
claim; an executor lives only in a task that knows of it), `DurableOf` to the row and
to the published events (a status a reader may see is backed by the row;
JOB_CANCELLED was published only for a row that is closed), `PlaceOf` to the
coroutines that act for the job (a task dispatches only when it ends, a finalizer
only when no task is left, a handover only for an ended job), `RowOf` is about the
rows alone (distinct commits; only the first open row is claimed or started) and
`SlotSound` about the Thread (one claim; the slot is behind no open row; a dead
backend knows no job). Each action moves one job and leaves the parts of all others
alone (`OneJob`, `HereSound`), or is a dispatch that discards follow-ups
(`PassedSound`); `SelectHead` is where the argument meets: nobody holds a claim, so
nobody has an executor, and the row is the head, so the mirror and the durable order
agree. The refinement follows step by step from `RowOf`.

`JInv` assumes no obedience of an executor: one that is given up leaves its job for
`abandoned`, which outlives task, slot and claim, and only `ShapeOf` asks that the job
once had a task. `OwnInv` says what this means for the queue: a job that has begun
(it has a task or a claim) has a row that is claimed, started or closed, and while some
row is claimed or started no other job has a claim. A job one of whose executors may
still commit has begun and its row is not closed, so it is the one claimed or started
row of the Thread (`RowOf`): `OneExecutorPerThread`. The invariant is kept because a
claim is taken only for the first open row: a row that an abandoned executor may still
close keeps all later ones from being taken, whoever has the slot.

Where a queued job waits is a second invariant, `LoadedInv`: its row is queued, and
it is in the mirror, or in what the restore coroutine has read, or a load is asked
for. It needs that clients cancel only jobs the mirror has: with `EarlyCancel` it is
false, and section 5 has the consequence. The assumption restricts the clients and
not the code; the theorems above it hold for both values.

Who closes a claim is a third one, `CloseInv`: a task that ends is on its way to the
close, and behind the close the job has ended and the claim is closed. While every
terminal status could be written (`SettledOf`), a running job does not lose its task to
an error, a finalizer gives up only on a job without a claim, and an ended job whose
claim is open has a task or a finalizer before the close. The condition cannot be
dropped: a terminal write that fails does keep slot and claim (section 5).
`ClaimsAreGivenBack` is the safety half of `TerminalReleasesSlot`, for any number of jobs
and with crashes; that the queue is woken afterwards is not true of three jobs.

Only model-checked: all liveness (`EveryAdmissionSettles`, `TerminalReleasesSlot`, `DeletionEnds`,
`StopEnds`, `IdleUnloads`, `TasksConverge`, `ForksConverge`, `MarkedCompletes`,
`EveryOperationEnds`). Temporal properties under fairness, and the `ENABLED` in it,
are out of the prover's reach.

None of the proved modules has a recursive operator: what the code computes by
recursion over a tree or a graph (the subtree of a node, the successors of an
operation) is defined as a least set, the sum of `PendingPolicy` as a recursive
function, and the lemmas about them are proved from these definitions.

## 7. Not modelled

* The communication ledger between Sessions: a two-process saga of outbox, lease
  and inbox, a subsystem of its own. Reading it showed that a death between
  `create_or_get_lease` and `mark_lease_settling` leaves the source lease
  `active`, after which `admit_outgoing_send` fails for that message.
* Turn control and execution scopes, initial execution intents, the creation of
  further Threads (it repeats the journal of `SessionCreation` inside a Session),
  the collection of isolated directories.
* Drain, `force_interrupt_active` and the workspace lifecycle: ordered start and
  close of the services modelled here.
* The message stream store and the event channels: logs and fan-out for readers; no
  decision of the core depends on them.
* The configuration apply journal and federation of the gateway: another process
  with state of its own.
* Agent loop, prompts, providers, tools, HTTP API, front ends: external effects
  and data shaping without protocol state. They make up most of the lines of the
  repository, which is why the mapped share is small.

## 8. Plan

1. The communication ledger between Sessions: outbox, lease and inbox as one module
   per store, with the death between two of them that section 7 describes.
2. Turn control and execution scopes, which `ExecutorStop` sees as one step.
3. A repaired dispatch: with the wake-up of the head in every end of a job,
   `QuietQueueIsEmpty` and `QueueDrains` become properties of any number of jobs.
