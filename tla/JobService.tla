----------------------------- MODULE JobService -----------------------------
(***************************************************************************)
(* JobService for ONE Thread of one Session, over its durable execution    *)
(* queue: admission, the in-memory FIFO mirror, the active slot, the       *)
(* asyncio task of each job, user control (pause, resume, cancel), the     *)
(* cancellation finalizers, the dispatch of the next job, and a crash and  *)
(* restart of the backend.                                                 *)
(*                                                                         *)
(* Everything under `async with self._dispatch_lock' is one action; every  *)
(* await outside it is a point where other coroutines run.  A coroutine    *)
(* that spans several such points is a process with a pc:                  *)
(*   <<"task", j>>    _run_job_background, from its finally clause on      *)
(*   <<"fin", j>>     the finalizer spawned by the task's done callback    *)
(*   <<"ctl", j>>     the finalizer a cancel request runs itself           *)
(*   Restore          _restore_pending_loaded                              *)
(*   Notify           _interrupt_thread, from its cancel request on        *)
(* All of them end in _schedule_next_job_if_needed / _start_next_pending,  *)
(* so they share the actions Close, Handover, Select and Launch.           *)
(*                                                                         *)
(* An executor may ignore the two bounded rounds of cancellation: the body *)
(* then gives it up and ends without it, and it may run on beside whatever *)
(* the Thread does next until the process dies.                            *)
(***************************************************************************)
EXTENDS Naturals, Sequences, JobLifecycle, ExecutionOutcome

CONSTANTS
    Jobs,           \* job_ids of this Thread
    NoJob,
    FollowUps,      \* the internal terminal_execution_completed jobs
    Policy,         \* delivery_policy of each job's pending request
    MaxCrashes,     \* bound on crashes of the backend
    MaxFaults,      \* bound on I/O errors of a terminal status write
    MaxRequests,    \* bound on pause and interrupt requests
    Stubborn,       \* the jobs whose executors may ignore a cancellation
    LossyExecutor,  \* whether an executor may fail before it converges
    EarlyCancel     \* whether a client cancels a job whose start_job has not
                    \* loaded it into the mirror yet (JOB_CREATED names it)

ASSUME NoJobAssumption == NoJob \notin Jobs
ASSUME FollowUpAssumption == FollowUps \subseteq Jobs
ASSUME StubbornAssumption == Stubborn \subseteq Jobs
ASSUME PolicyAssumption ==
    Policy \in [Jobs -> {"after_turn", "after_tool_result", "after_interrupt"}]
ASSUME BoundAssumption ==
    /\ MaxCrashes \in Nat /\ MaxFaults \in Nat /\ MaxRequests \in Nat
    /\ LossyExecutor \in BOOLEAN /\ EarlyCancel \in BOOLEAN

VARIABLES
    \* durable: the execution_queue rows and executions.outcome
    commit,     \* execution_queue.admission_commit_id, 0 before the row exists
    lastCommit, \* the last commit of an admission
    row,        \* phase of each row
    outcome,    \* execution outcome
    \* memory of the backend
    job,        \* the JobState of each job, with its task and executor
    slot,       \* _thread_current_job
    waiting,    \* the FIFO mirror JobPendingQueue: append and restore keep it in the
                \* order of enqueue_sequence, which is the admission commit
    pc,         \* where each coroutine that dispatches is
    chosen,     \* next_job between the two lock sections of _start_next_pending
    loaded,     \* records that the restore coroutine read
    wanted,     \* some caller waits for _ensure_pending_loaded
    up,         \* whether the backend runs
    \* observations
    events,     \* terminal Job events published, in order
    discarded,  \* follow-ups dropped after their parent failed
    crashes, faults, requests

admission == <<commit, lastCommit>>
durable == <<admission, row, outcome>>
dispatch == <<pc, chosen, loaded, wanted>>
observed == <<events, discarded>>
bounds == <<crashes, faults, requests>>
vars == <<durable, job, slot, waiting, dispatch, up, observed, bounds>>

Restore == <<"restore", NoJob>>
Notify == <<"notify", NoJob>>
Task(j) == <<"task", j>>
Fin(j) == <<"fin", j>>
Ctl(j) == <<"ctl", j>>
Procs == {Restore, Notify} \cup ({"task", "fin", "ctl"} \X Jobs)

Settling == {"settle_cancelled", "settle_failed", "settle_timed_out"}
DoneTask == {"done_ok", "done_cancelled", "done_error"}
TaskStates == {"none", "created", "starting", "executing", "stopping_cancel",
               "stopping_timeout", "releasing", "releasing_error"} \cup Settling \cup DoneTask

Boundaries == {"idle", "after_turn", "after_tool_result", "after_interrupt"}

JobRecord ==
    [status : JobStatus \cup {"unloaded"},       \* "unloaded": not in _jobs
     task : TaskStates,
     cancel : BOOLEAN,                           \* task.cancel() not delivered yet
     callback : {"none", "cancelled", "error"},  \* done callback still to run
     executor : {"none", "alive", "finishing", "returned", "raised"},
     abandoned : SUBSET {"alive", "finishing"},  \* executors given up, by stage
     claim : BOOLEAN,                            \* queue_claim is open: OS holder held
     restoring : BOOLEAN,                        \* restoring_execution
     resuming : BOOLEAN,                         \* a resume request awaits the task
     boundary : Boundaries \cup {"none"}]        \* delivery_boundary

Unloaded == [status |-> "unloaded", task |-> "none", cancel |-> FALSE, callback |-> "none",
             executor |-> "none", abandoned |-> {}, claim |-> FALSE, restoring |-> FALSE,
             resuming |-> FALSE, boundary |-> "none"]

TypeOK ==
    /\ commit \in [Jobs -> Nat] /\ lastCommit \in Nat
    /\ row \in [Jobs -> {"absent", "queued", "claimed", "started", "terminal"}]
    /\ outcome \in [Jobs -> Outcomes]
    /\ job \in [Jobs -> JobRecord]
    /\ slot \in Jobs \cup {NoJob}
    /\ waiting \subseteq Jobs
    /\ pc \in [Procs -> {"idle", "wait_task", "finalize", "close", "handover",
                         "select", "launch", "install", "wait_control", "notify"}]
    /\ chosen \in [Procs -> Jobs \cup {NoJob}]
    /\ loaded \subseteq Jobs
    /\ wanted \in BOOLEAN /\ up \in BOOLEAN
    /\ events \in [Jobs -> Seq({"completed", "failed", "cancelled"})]
    /\ discarded \subseteq Jobs
    /\ crashes \in 0..MaxCrashes /\ faults \in 0..MaxFaults /\ requests \in 0..MaxRequests

Init ==
    /\ commit = [j \in Jobs |-> 0] /\ lastCommit = 0
    /\ row = [j \in Jobs |-> "absent"]
    /\ outcome = [j \in Jobs |-> "unknown"]
    /\ job = [j \in Jobs |-> Unloaded]
    /\ slot = NoJob
    /\ waiting = {}
    /\ pc = [p \in Procs |-> "idle"]
    /\ chosen = [p \in Procs |-> NoJob]
    /\ loaded = {}
    /\ wanted = FALSE /\ up = TRUE
    /\ events = [j \in Jobs |-> <<>>]
    /\ discarded = {}
    /\ crashes = 0 /\ faults = 0 /\ requests = 0

-----------------------------------------------------------------------------
(* Reading the state. *)

Terminal(j) == job[j].status \in TerminalStatus
TaskAlive(j) == job[j].task \notin DoneTask \cup {"none"}

\* _pending_dispatch_unstarted: the slot is reserved, no task exists yet.
Unstarted(j) ==
    /\ job[j].status = "running"
    /\ job[j].task = "none"
    /\ ~job[j].restoring

\* Requests are served once start_restored_executions has run.
Serving == up /\ \A k \in Jobs : ~job[k].restoring

\* "phase<>'terminal' ORDER BY admission_commit_id LIMIT 1".
Open(j) == row[j] \notin {"absent", "terminal"}

IsDurableHead(j) == Open(j) /\ \A k \in Jobs : Open(k) => commit[j] <= commit[k]

-----------------------------------------------------------------------------
(* Shared pieces of actions. *)

\* _persist_terminal_execution_status.
Persist(j, mark) ==
    LET result == MarkedOutcome(outcome[j], mark) IN
    /\ outcome' = [outcome EXCEPT ![j] = result]
    /\ row' = [row EXCEPT ![j] = RowPhaseAfter(@, result)]
    /\ UNCHANGED admission

Publish(j, event) == events' = [events EXCEPT ![j] = Append(@, event)]

\* The jobs after coroutine p ended: a job's task is done and, when it ended
\* with an exception, its done callback is due.
Ended(p, jobs, failing) ==
    IF p[1] # "task" THEN jobs
    ELSE LET error == failing \/ jobs[p[2]].task = "releasing_error" IN
         [jobs EXCEPT ![p[2]].task = IF error THEN "done_error" ELSE "done_ok",
                      ![p[2]].callback = IF error THEN "error" ELSE "none"]

GoTo(p, label) == pc' = [pc EXCEPT ![p] = label]

\* _discard_stale_terminal_followups of a failed current job.
Stale ==
    IF slot = NoJob \/ job[slot].status \notin FailedStatus THEN {}
    ELSE {k \in FollowUps \cap waiting : job[k].status = "queued"}

AfterDiscard == [k \in Jobs |-> IF k \in Stale THEN [job[k] EXCEPT !.status = "failed"]
                                               ELSE job[k]]

Kept == waiting \ Stale

\* _record_discarded_stale_followups: the mark "failed" leaves the row alone.
RecordDiscarded ==
    events' = [k \in Jobs |-> IF k \in Stale THEN Append(events[k], "failed") ELSE events[k]]

-----------------------------------------------------------------------------
(* Admission and the FIFO mirror. *)

\* start_job: accept_job_input commits the row under the restore lock, then
\* the caller asks for the queue to be loaded.
Admit(j) ==
    /\ Serving
    /\ row[j] = "absent"
    /\ pc[Restore] = "idle"
    /\ lastCommit' = lastCommit + 1
    /\ commit' = [commit EXCEPT ![j] = lastCommit + 1]
    /\ row' = [row EXCEPT ![j] = "queued"]
    /\ job' = [job EXCEPT ![j].status = "queued"]
    /\ wanted' = TRUE
    /\ UNCHANGED <<outcome, slot, waiting, pc, chosen, loaded, up, observed, bounds>>

\* Every listing, boundary or repeated start_job calls _ensure_pending_loaded.
RequestLoad ==
    /\ Serving
    /\ ~wanted
    /\ wanted' = TRUE
    /\ UNCHANGED <<durable, job, slot, waiting, pc, chosen, loaded, up, observed, bounds>>

\* _pending_requests.load and the outcome filter, outside the dispatch lock.
RestoreRead ==
    /\ up /\ wanted
    /\ pc[Restore] = "idle"
    /\ loaded' = {k \in Jobs : row[k] = "queued" /\ outcome[k] = "unknown"}
    /\ wanted' = FALSE
    /\ GoTo(Restore, "install")
    /\ UNCHANGED <<durable, job, slot, waiting, chosen, up, observed, bounds>>

\* Mutant: what was read before the lock is installed without a second look.
RestoreInstallBlindly ==
    /\ up /\ pc[Restore] = "install"
    /\ waiting' = loaded
    /\ loaded' = {}
    /\ GoTo(Restore, IF loaded # {} THEN "select" ELSE "idle")
    /\ UNCHANGED <<durable, job, slot, chosen, wanted, up, observed, bounds>>

\* _load_pending_records under the lock: the mirror is rebuilt from what was
\* read; a job that left "queued" meanwhile is skipped.
RestoreInstall ==
    LET fresh == {k \in loaded : job[k].status \in {"unloaded", "queued"}} IN
    /\ up /\ pc[Restore] = "install"
    /\ waiting' = fresh
    /\ job' = [k \in Jobs |->
                IF k \in fresh THEN [job[k] EXCEPT !.status = "queued"] ELSE job[k]]
    /\ loaded' = {}
    /\ GoTo(Restore, IF fresh # {} \/ (slot # NoJob /\ Unstarted(slot))
                     THEN "select" ELSE "idle")
    /\ UNCHANGED <<durable, slot, chosen, wanted, up, observed, bounds>>

-----------------------------------------------------------------------------
(* _start_next_pending: two lock sections under the Thread's dispatch lock. *)

MaySelect(p) ==
    /\ up /\ pc[p] = "select"
    /\ \A q \in Procs : pc[q] # "launch"

SlotBusy == slot # NoJob /\ ~Terminal(slot)

\* The boundary each caller names: a loader finds the Thread idle, a finished
\* job hands on the boundary it was itself delivered at.
BoundaryOf(p) ==
    CASE p = Restore -> "idle"
      [] p = Notify -> "after_interrupt"
      [] OTHER -> IF job[p[2]].boundary = "none" THEN "after_turn" ELSE job[p[2]].boundary

\* _policy_allows.
PolicyAllows(policy, boundary, toolResultAvailable) ==
    \/ boundary \in {"idle", "after_interrupt"}
    \/ policy = "after_turn" /\ boundary = "after_turn"
    \/ /\ policy = "after_tool_result"
       /\ \/ boundary = "after_tool_result"
          \/ boundary = "after_turn" /\ ~toolResultAvailable

\* j is the mirror's head and may be delivered now.  Only a loader leaves
\* tool_result_available at its default.
HeadAllowed(p, j) ==
    /\ \A k \in Kept : commit[j] <= commit[k]
    /\ PolicyAllows(Policy[j], BoundaryOf(p), p = Restore)

\* The slot has a job: return, unless its start failed half-way.
SelectCurrent(p) ==
    /\ MaySelect(p)
    /\ SlotBusy
    /\ IF Unstarted(slot)
       THEN /\ chosen' = [chosen EXCEPT ![p] = slot]
            /\ GoTo(p, "launch")
            /\ UNCHANGED job
       ELSE /\ job' = Ended(p, job, FALSE)
            /\ GoTo(p, "idle")
            /\ UNCHANGED chosen
    /\ UNCHANGED <<durable, slot, waiting, loaded, wanted, up, observed, bounds>>

\* No head, or one that waits for another boundary: the slot is given up.
SelectNone(p) ==
    /\ MaySelect(p)
    /\ ~SlotBusy
    /\ \A j \in Kept : ~HeadAllowed(p, j)
    /\ slot' = NoJob
    /\ waiting' = Kept
    /\ job' = Ended(p, AfterDiscard, FALSE)
    /\ discarded' = discarded \cup Stale
    /\ RecordDiscarded
    /\ GoTo(p, "idle")
    /\ UNCHANGED <<durable, chosen, loaded, wanted, up, bounds>>

\* PendingRequestStore.claim of the head: None while another claim of this
\* process has the holder; an exception when the row is not the durable head.
HolderBusy == \E k \in Jobs : job[k].claim
\* Mutant: any open row may be claimed.
ClaimableAnyRow(j) == row[j] # "terminal"

Claimable(j) == row[j] # "terminal" /\ IsDurableHead(j)

\* The claim is refused: None returns, an exception ends the coroutine.
SelectRefused(p) ==
    /\ MaySelect(p)
    /\ ~SlotBusy
    /\ \E j \in Kept : HeadAllowed(p, j) /\ (HolderBusy \/ ~Claimable(j))
    /\ waiting' = Kept
    /\ discarded' = discarded \cup Stale
    /\ job' = Ended(p, AfterDiscard, ~HolderBusy)
    /\ GoTo(p, "idle")
    /\ UNCHANGED <<durable, slot, chosen, loaded, wanted, up, events, bounds>>

\* Mutant: the claim is left in a local variable and never kept in JobState.
SelectHeadDropsClaim(p) == \E j \in Kept :
    /\ MaySelect(p)
    /\ ~SlotBusy
    /\ HeadAllowed(p, j)
    /\ ~HolderBusy /\ Claimable(j)
    /\ row' = [row EXCEPT ![j] = "claimed"]
    /\ waiting' = Kept \ {j}
    /\ slot' = j
    /\ job' = [AfterDiscard EXCEPT ![j].status = "running", ![j].boundary = BoundaryOf(p)]
    /\ chosen' = [chosen EXCEPT ![p] = j]
    /\ discarded' = discarded \cup Stale
    /\ RecordDiscarded
    /\ GoTo(p, "launch")
    /\ UNCHANGED <<admission, outcome, loaded, wanted, up, bounds>>

\* The head is claimed, leaves the mirror and takes the slot.
SelectHead(p) == \E j \in Kept :
    /\ MaySelect(p)
    /\ ~SlotBusy
    /\ HeadAllowed(p, j)
    /\ ~HolderBusy /\ Claimable(j)
    /\ row' = [row EXCEPT ![j] = "claimed"]
    /\ waiting' = Kept \ {j}
    /\ slot' = j
    /\ job' = [AfterDiscard EXCEPT ![j].status = "running", ![j].claim = TRUE,
                                   ![j].boundary = BoundaryOf(p)]
    /\ chosen' = [chosen EXCEPT ![p] = j]
    /\ discarded' = discarded \cup Stale
    /\ RecordDiscarded
    /\ GoTo(p, "launch")
    /\ UNCHANGED <<admission, outcome, loaded, wanted, up, bounds>>

\* The second section: queue_claim.start and _start_job_task, unless a
\* control request took the job meanwhile.
Launch(p) ==
    LET j == chosen[p]
        go == slot = j /\ Unstarted(j)
        launched == [job EXCEPT ![j].task = IF go THEN "created" ELSE @]
    IN
    /\ up /\ pc[p] = "launch"
    /\ row' = [row EXCEPT ![j] = IF go THEN "started" ELSE @]
    /\ job' = Ended(p, launched, FALSE)
    /\ chosen' = [chosen EXCEPT ![p] = NoJob]
    /\ GoTo(p, "idle")
    /\ UNCHANGED <<admission, outcome, slot, waiting, loaded, wanted, up, observed, bounds>>

Select(p) == SelectCurrent(p) \/ SelectNone(p) \/ SelectRefused(p) \/ SelectHead(p)

-----------------------------------------------------------------------------
(* _schedule_next_job_if_needed. *)

\* Mutant: every task that ends releases the Thread, a paused one too.
CloseAlways(p) ==
    /\ up /\ pc[p] = "close"
    /\ job' = [job EXCEPT ![p[2]].claim = FALSE]
    /\ GoTo(p, "handover")
    /\ UNCHANGED <<durable, slot, waiting, chosen, loaded, wanted, up, observed, bounds>>

\* Mutant: the slot is looked at before the claim is closed.
CloseInSlot(p) ==
    /\ up /\ pc[p] = "close"
    /\ IF Terminal(p[2]) /\ slot = p[2]
       THEN job' = [job EXCEPT ![p[2]].claim = FALSE] /\ GoTo(p, "handover")
       ELSE job' = Ended(p, job, FALSE) /\ GoTo(p, "idle")
    /\ UNCHANGED <<durable, slot, waiting, chosen, loaded, wanted, up, observed, bounds>>

\* A job that is not terminal keeps its claim and its slot.
Close(p) ==
    /\ up /\ pc[p] = "close"
    /\ IF Terminal(p[2])
       THEN job' = [job EXCEPT ![p[2]].claim = FALSE] /\ GoTo(p, "handover")
       ELSE job' = Ended(p, job, FALSE) /\ GoTo(p, "idle")
    /\ UNCHANGED <<durable, slot, waiting, chosen, loaded, wanted, up, observed, bounds>>

HandoverLost(p) ==
    /\ up /\ pc[p] = "handover"
    /\ slot # p[2]
    /\ job' = Ended(p, job, FALSE)
    /\ GoTo(p, "idle")
    /\ UNCHANGED <<durable, slot, waiting, chosen, loaded, wanted, up, observed, bounds>>

\* Mutant: the next job is not woken.
HandoverWithoutWake(p) ==
    /\ up /\ pc[p] = "handover"
    /\ slot = p[2]
    /\ waiting' = Kept
    /\ discarded' = discarded \cup Stale
    /\ RecordDiscarded
    /\ slot' = NoJob
    /\ job' = Ended(p, AfterDiscard, FALSE)
    /\ GoTo(p, "idle")
    /\ UNCHANGED <<durable, chosen, loaded, wanted, up, bounds>>

\* Mutant: an empty queue leaves the finished job in the slot.
HandoverKeepsSlot(p) ==
    /\ up /\ pc[p] = "handover"
    /\ slot = p[2]
    /\ waiting' = Kept
    /\ discarded' = discarded \cup Stale
    /\ RecordDiscarded
    /\ job' = IF Kept = {} THEN Ended(p, AfterDiscard, FALSE) ELSE AfterDiscard
    /\ GoTo(p, IF Kept = {} THEN "idle" ELSE "select")
    /\ UNCHANGED <<durable, slot, chosen, loaded, wanted, up, bounds>>

Handover(p) ==
    /\ up /\ pc[p] = "handover"
    /\ slot = p[2]
    /\ waiting' = Kept
    /\ discarded' = discarded \cup Stale
    /\ RecordDiscarded
    /\ slot' = IF Kept = {} THEN NoJob ELSE slot
    /\ job' = IF Kept = {} THEN Ended(p, AfterDiscard, FALSE) ELSE AfterDiscard
    /\ GoTo(p, IF Kept = {} THEN "idle" ELSE "select")
    /\ UNCHANGED <<durable, chosen, loaded, wanted, up, bounds>>

-----------------------------------------------------------------------------
(* The task of a job: _run_job_background. *)

\* Cancelled before its first step, the body never runs.
TaskCancelledEarly(j) ==
    /\ job[j].task = "created" /\ job[j].cancel
    /\ job[j].callback = "none"
    /\ job' = [job EXCEPT ![j].task = "done_cancelled", ![j].cancel = FALSE,
                          ![j].callback = "cancelled"]
    /\ UNCHANGED <<durable, slot, waiting, dispatch, up, observed, bounds>>

\* transition to running; an illegal transition is an execution failure.
TaskBegin(j) ==
    /\ job[j].task = "created" /\ ~job[j].cancel
    /\ job[j].callback = "none"
    /\ job' = IF MayTransition(job[j].status, "running")
              THEN [job EXCEPT ![j].status = "running", ![j].task = "starting"]
              ELSE [job EXCEPT ![j].task = "settle_failed"]
    /\ UNCHANGED <<durable, slot, waiting, dispatch, up, observed, bounds>>

\* JOB_STARTED is published; the executor task is created.
ExecutorStart(j) ==
    /\ job[j].task = "starting" /\ ~job[j].cancel
    /\ job' = [job EXCEPT ![j].task = "executing", ![j].executor = "alive"]
    /\ UNCHANGED <<durable, slot, waiting, dispatch, up, observed, bounds>>

\* The executor the body waits for.
ExecutorLive(j) == job[j].executor \in {"alive", "finishing"}
Stopping(j) == job[j].task \in {"stopping_cancel", "stopping_timeout"}

\* The executor commits its outcome.  A cancelled executor converges to
\* cancelled or lost; a failure is raised once it is committed.
ExecutorConverge(j, result) ==
    /\ job[j].executor = "alive"
    /\ outcome[j] = "unknown"
    /\ result \in {"completed", "failed", "execution_lost"}
                  \cup (IF Stopping(j) THEN {"cancelled"} ELSE {})
    /\ outcome' = [outcome EXCEPT ![j] = result]
    /\ row' = [row EXCEPT ![j] = RowPhaseAfter(@, result)]
    /\ job' = [job EXCEPT ![j].executor = IF result = "completed" THEN "finishing" ELSE "raised"]
    /\ UNCHANGED <<admission, slot, waiting, dispatch, up, observed, bounds>>

\* JobExecutionService.run publishes JOB_COMPLETED itself, then returns.
ExecutorReturn(j) ==
    /\ job[j].executor = "finishing"
    /\ job' = [job EXCEPT ![j].executor = "returned"]
    /\ Publish(j, "completed")
    /\ UNCHANGED <<durable, slot, waiting, dispatch, up, discarded, bounds>>

\* It raises without a convergence: cancelled, or run again on an execution
\* that is already settled, or (LossyExecutor) failing before it converges.
ExecutorRaise(j) ==
    /\ ExecutorLive(j)
    /\ \/ Stopping(j) \/ LossyExecutor
       \/ job[j].executor = "alive" /\ outcome[j] # "unknown"
    /\ job' = [job EXCEPT ![j].executor = "raised"]
    /\ UNCHANGED <<durable, slot, waiting, dispatch, up, observed, bounds>>

\* _cancel_execution_task returns with the executor still running: it has
\* ignored both rounds and is in no protected section.
Abandon(j) ==
    /\ j \in Stubborn
    /\ Stopping(j) /\ ~job[j].cancel
    /\ ExecutorLive(j)
    /\ job' = [job EXCEPT ![j].executor = "none", ![j].abandoned = @ \cup {job[j].executor}]
    /\ UNCHANGED <<durable, slot, waiting, dispatch, up, observed, bounds>>

\* An executor that was given up does what is left to it, whatever has become
\* of its job: it commits an outcome if the execution has none.  Nobody waits
\* for its end, which therefore is no step: abandoned has the stages in which
\* some may still be, and another one in the same stage could only end.
AbandonedConverges(j, result) ==
    /\ "alive" \in job[j].abandoned
    /\ outcome[j] = "unknown"
    /\ result \in {"completed", "failed", "cancelled", "execution_lost"}
    /\ outcome' = [outcome EXCEPT ![j] = result]
    /\ row' = [row EXCEPT ![j] = RowPhaseAfter(@, result)]
    /\ job' = [job EXCEPT ![j].abandoned =
                  (@ \ {"alive"}) \cup (IF result = "completed" THEN {"finishing"} ELSE {})]
    /\ UNCHANGED <<admission, slot, waiting, dispatch, up, observed, bounds>>

AbandonedReturns(j) ==
    /\ "finishing" \in job[j].abandoned
    /\ job' = [job EXCEPT ![j].abandoned = @ \ {"finishing"}]
    /\ Publish(j, "completed")
    /\ UNCHANGED <<durable, slot, waiting, dispatch, up, discarded, bounds>>

\* The startup or the total timeout, and the stop of the executor.
TaskTimeout(j) ==
    /\ job[j].task = "executing" /\ ~job[j].cancel
    /\ ExecutorLive(j)
    /\ job' = [job EXCEPT ![j].task = "stopping_timeout"]
    /\ UNCHANGED <<durable, slot, waiting, dispatch, up, observed, bounds>>

\* The result of the executor is collected.
TaskCollect(j) ==
    /\ job[j].task = "executing" /\ ~job[j].cancel
    /\ job[j].executor \in {"returned", "raised"}
    /\ IF job[j].executor = "returned" /\ MayTransition(job[j].status, "completed")
       THEN /\ job' = [job EXCEPT ![j].status = "completed", ![j].task = "releasing"]
            /\ GoTo(Task(j), "close")
       ELSE /\ job' = [job EXCEPT ![j].task = "settle_failed"]
            /\ UNCHANGED pc
    /\ UNCHANGED <<durable, slot, waiting, chosen, loaded, wanted, up, observed, bounds>>

\* CancelledError is delivered while the executor runs: stop it first.  A
\* second cancellation during the stop turns a timeout into a cancellation.
TaskInterrupted(j) ==
    /\ job[j].cancel
    /\ job[j].task \in {"executing", "stopping_timeout", "stopping_cancel"}
    /\ ExecutorLive(j)
    /\ job' = [job EXCEPT ![j].cancel = FALSE, ![j].task = "stopping_cancel"]
    /\ UNCHANGED <<durable, slot, waiting, dispatch, up, observed, bounds>>

\* The except branches, once the executor is done or given up: a paused job keeps its status
\* and its task just ends; otherwise the cancellation is settled.
TaskCancelBranch(j) ==
    /\ ~ExecutorLive(j)
    /\ \/ job[j].task = "stopping_cancel"
       \/ job[j].cancel /\ job[j].task \in {"starting", "executing", "stopping_timeout"}
    /\ IF job[j].status = "paused"
       THEN /\ job' = [job EXCEPT ![j].cancel = FALSE, ![j].task = "releasing"]
            /\ GoTo(Task(j), "close")
       ELSE /\ job' = [job EXCEPT ![j].cancel = FALSE, ![j].task = "settle_cancelled",
                                  ![j].status = "cancelling"]
            /\ UNCHANGED pc
    /\ UNCHANGED <<durable, slot, waiting, chosen, loaded, wanted, up, observed, bounds>>

TaskTimedOut(j) ==
    /\ job[j].task = "stopping_timeout" /\ ~job[j].cancel
    /\ ~ExecutorLive(j)
    /\ job' = [job EXCEPT ![j].task = "settle_timed_out"]
    /\ UNCHANGED <<durable, slot, waiting, dispatch, up, observed, bounds>>

SettledStatus(task) ==
    CASE task = "settle_cancelled" -> "cancelled"
      [] task = "settle_failed" -> "failed"
      [] task = "settle_timed_out" -> "timed_out"

EventOf(status) == IF status = "cancelled" THEN "cancelled" ELSE "failed"

\* The canonical status is persisted first (run_cleanup_shielded absorbs a
\* cancellation), then the job's status and the event follow; a status that
\* moved meanwhile makes the transition illegal and the task fails.
Settle(j) ==
    LET target == SettledStatus(job[j].task)
        legal == MayTransition(job[j].status, target)
    IN
    /\ job[j].task \in Settling
    /\ Persist(j, target)
    /\ job' = [job EXCEPT ![j].status = IF legal THEN target ELSE @,
                          ![j].cancel = FALSE,
                          ![j].task = IF legal THEN "releasing" ELSE "releasing_error"]
    /\ IF legal THEN Publish(j, EventOf(target)) ELSE UNCHANGED events
    /\ GoTo(Task(j), "close")
    /\ UNCHANGED <<slot, waiting, chosen, loaded, wanted, up, discarded, bounds>>

\* Mutant: the status moves although the canonical write failed.
SettleFaultMoves(j) ==
    /\ job[j].task \in Settling
    /\ faults < MaxFaults
    /\ faults' = faults + 1
    /\ job' = [job EXCEPT ![j].status = SettledStatus(job[j].task),
                          ![j].cancel = FALSE, ![j].task = "releasing_error"]
    /\ GoTo(Task(j), "close")
    /\ UNCHANGED <<durable, slot, waiting, chosen, loaded, wanted, up, observed, crashes, requests>>

\* The persistence fails: the exception leaves the task.
SettleFault(j) ==
    /\ job[j].task \in Settling
    /\ faults < MaxFaults
    /\ faults' = faults + 1
    /\ job' = [job EXCEPT ![j].cancel = FALSE, ![j].task = "releasing_error"]
    /\ GoTo(Task(j), "close")
    /\ UNCHANGED <<durable, slot, waiting, chosen, loaded, wanted, up, observed, crashes, requests>>

\* Mutant: the callback writes failed over whatever status it finds.
CallbackErrorOverwrites(j) ==
    /\ job[j].callback = "error"
    /\ job' = [job EXCEPT ![j].callback = "none", ![j].status = "failed"]
    /\ Publish(j, "failed")
    /\ UNCHANGED <<durable, slot, waiting, dispatch, up, discarded, bounds>>

\* _task_done_callback of a task that ended with an exception.  From paused
\* the transition to failed is illegal and the callback itself raises.
CallbackError(j) ==
    LET status == job[j].status
        fails == status # "cancelling" /\ (Terminal(j) \/ MayTransition(status, "failed"))
    IN
    /\ job[j].callback = "error"
    /\ job' = [job EXCEPT ![j].callback = "none",
                          ![j].status = IF fails /\ ~Terminal(j) THEN "failed" ELSE @]
    /\ IF fails THEN Publish(j, "failed") ELSE UNCHANGED events
    /\ UNCHANGED <<durable, slot, waiting, dispatch, up, discarded, bounds>>

\* _converge_cancel_without_task_body, unless a resume replaced the task.
CallbackCancelled(j) ==
    LET skip == \/ job[j].task # "done_cancelled"
                \/ job[j].status = "paused"
                \/ Terminal(j)
    IN
    /\ job[j].callback = "cancelled"
    /\ job' = [job EXCEPT ![j].callback = "none",
                          ![j].status = IF skip THEN @ ELSE "cancelling"]
    /\ IF skip THEN UNCHANGED pc ELSE GoTo(Fin(j), "finalize")
    /\ UNCHANGED <<durable, slot, waiting, chosen, loaded, wanted, up, observed, bounds>>

TaskStep(j) ==
    /\ up
    /\ \/ TaskCancelledEarly(j) \/ TaskBegin(j) \/ ExecutorStart(j)
       \/ TaskInterrupted(j) \/ Abandon(j) \/ TaskCancelBranch(j)
       \/ TaskCollect(j) \/ TaskTimedOut(j) \/ Settle(j)
       \/ CallbackError(j) \/ CallbackCancelled(j)

ExecutorStep(j) ==
    /\ up
    /\ \/ \E result \in Outcomes : ExecutorConverge(j, result)
       \/ ExecutorReturn(j) \/ ExecutorRaise(j)

AbandonedStep(j) ==
    /\ up
    /\ \/ \E result \in Outcomes : AbandonedConverges(j, result)
       \/ AbandonedReturns(j)

-----------------------------------------------------------------------------
(* _finalize_cancelled_without_task_body. *)

Finalize(p) ==
    LET j == p[2] IN
    /\ up /\ pc[p] = "finalize"
    /\ IF job[j].status = "cancelling"
       THEN /\ Persist(j, "cancelled")
            /\ job' = [job EXCEPT ![j].status = "cancelled"]
            /\ Publish(j, "cancelled")
       ELSE UNCHANGED <<durable, job, events>>
    /\ GoTo(p, IF job[j].status \in {"cancelling", "cancelled"} THEN "close" ELSE "idle")
    /\ UNCHANGED <<slot, waiting, chosen, loaded, wanted, up, discarded, bounds>>

FinalizeFault(p) ==
    /\ up /\ pc[p] = "finalize"
    /\ job[p[2]].status = "cancelling"
    /\ faults < MaxFaults
    /\ faults' = faults + 1
    /\ pc' = [pc EXCEPT ![p] = "idle",
                        ![Notify] = IF @ = "wait_control" /\ p = Ctl(chosen[Notify])
                                    THEN "idle" ELSE @]
    /\ UNCHANGED <<durable, job, slot, waiting, chosen, loaded, wanted, up, observed,
                   crashes, requests>>

\* A cancel request on a paused job waits for its task and its callback.
CtlWake(j) ==
    /\ up /\ pc[Ctl(j)] = "wait_task"
    /\ ~TaskAlive(j) /\ job[j].callback = "none"
    /\ GoTo(Ctl(j), IF job[j].task = "done_error" THEN "idle" ELSE "finalize")
    /\ UNCHANGED <<durable, job, slot, waiting, chosen, loaded, wanted, up, observed, bounds>>

-----------------------------------------------------------------------------
(* JobControlService.control. *)

Pause(j) ==
    /\ Serving
    /\ requests < MaxRequests
    /\ job[j].status \in PausableStatus
    /\ TaskAlive(j)
    /\ requests' = requests + 1
    /\ job' = [job EXCEPT ![j].status = "paused", ![j].cancel = TRUE]
    /\ UNCHANGED <<durable, slot, waiting, dispatch, up, observed, crashes, faults>>

\* _resume_job_locked.
Resumed(j) ==
    [job EXCEPT ![j].status = "running", ![j].task = "created", ![j].cancel = FALSE,
                ![j].executor = "none", ![j].resuming = FALSE]

ResumeNow(j) ==
    /\ Serving
    /\ job[j].status = "paused"
    /\ ~TaskAlive(j)
    /\ slot \in {NoJob, j}
    /\ slot' = j
    /\ job' = Resumed(j)
    /\ UNCHANGED <<durable, waiting, dispatch, up, observed, bounds>>

\* The paused task still runs: cancel it again and wait for it.
ResumeWait(j) ==
    /\ Serving
    /\ job[j].status = "paused" /\ ~job[j].resuming
    /\ TaskAlive(j)
    /\ job' = [job EXCEPT ![j].cancel = TRUE, ![j].resuming = TRUE]
    /\ UNCHANGED <<durable, slot, waiting, dispatch, up, observed, bounds>>

ResumeAfterTask(j) ==
    /\ up
    /\ job[j].resuming
    /\ ~TaskAlive(j) /\ job[j].callback = "none"
    /\ IF job[j].status = "paused" /\ slot \in {NoJob, j}
       THEN slot' = j /\ job' = Resumed(j)
       ELSE UNCHANGED slot /\ job' = [job EXCEPT ![j].resuming = FALSE]
    /\ UNCHANGED <<durable, waiting, dispatch, up, observed, bounds>>

\* Cancelling a queued job persists first; a job the mirror does not hold
\* yet makes remove fail and the request raises with the row already closed.
CancelQueued(j) ==
    /\ Serving
    /\ job[j].status = "queued"
    /\ EarlyCancel \/ j \in waiting
    /\ Persist(j, "cancelled")
    /\ IF j \in waiting
       THEN /\ waiting' = waiting \ {j}
            /\ job' = [job EXCEPT ![j].status = "cancelled"]
       ELSE UNCHANGED <<waiting, job>>
    /\ UNCHANGED <<slot, dispatch, up, observed, bounds>>

\* Cancelling an active job: its task settles it, or the request does.
CancelRequest(j) ==
    /\ Serving
    /\ job[j].status \in ActiveStatus \cup {"paused", "cancelling"}
    /\ pc[Ctl(j)] = "idle"
    /\ job' = [job EXCEPT ![j].status = "cancelling", ![j].cancel = @ \/ TaskAlive(j)]
    /\ UNCHANGED <<durable, slot, waiting, loaded, wanted, up, observed, crashes, faults>>

AfterCancelRequest(j) ==
    CASE ~TaskAlive(j) -> "finalize"
      [] TaskAlive(j) /\ job[j].status = "paused" -> "wait_task"
      [] OTHER -> "idle"

CancelActive(j) ==
    /\ CancelRequest(j)
    /\ GoTo(Ctl(j), AfterCancelRequest(j))
    /\ UNCHANGED <<chosen, requests>>

\* _interrupt_thread: cancel the running job, then report the boundary.
Interrupt(j) ==
    /\ job[j].status \in PausableStatus
    /\ pc[Notify] = "idle"
    /\ requests < MaxRequests
    /\ requests' = requests + 1
    /\ CancelRequest(j)
    /\ chosen' = [chosen EXCEPT ![Notify] = j]
    /\ pc' = [pc EXCEPT ![Ctl(j)] = AfterCancelRequest(j),
                        ![Notify] = IF TaskAlive(j) THEN "notify" ELSE "wait_control"]

\* notify_boundary("after_interrupt"), once control has returned: the job in
\* the slot, whichever it is by now, takes the boundary; an idle Thread
\* dispatches.  The load it asks for first is RequestLoad.
NotifyBoundary ==
    /\ up
    /\ \/ pc[Notify] = "notify"
       \/ pc[Notify] = "wait_control" /\ pc[Ctl(chosen[Notify])] = "idle"
    /\ chosen' = [chosen EXCEPT ![Notify] = NoJob]
    /\ job' = IF SlotBusy THEN [job EXCEPT ![slot].boundary = "after_interrupt"] ELSE job
    /\ GoTo(Notify, IF SlotBusy THEN "idle" ELSE "select")
    /\ UNCHANGED <<durable, slot, waiting, loaded, wanted, up, observed, bounds>>

Control(j) ==
    \/ Pause(j) \/ ResumeNow(j) \/ ResumeWait(j)
    \/ CancelQueued(j) \/ CancelActive(j) \/ Interrupt(j)

-----------------------------------------------------------------------------
(* Crash and restart. *)

Crash ==
    /\ up
    /\ crashes < MaxCrashes
    /\ crashes' = crashes + 1
    /\ up' = FALSE
    /\ job' = [j \in Jobs |-> Unloaded]
    /\ slot' = NoJob
    /\ waiting' = {}
    /\ pc' = [p \in Procs |-> "idle"]
    /\ chosen' = [p \in Procs |-> NoJob]
    /\ loaded' = {}
    /\ wanted' = FALSE
    /\ UNCHANGED <<durable, observed, faults, requests>>

ActiveRows == {j \in Jobs : row[j] \in {"claimed", "started"}}

\* reconcile_stale_executions: the active execution is claimed again and
\* either kept for its checkpoint or declared lost.
RestartRestored(j) ==
    /\ ~up
    /\ j \in ActiveRows
    /\ row' = [row EXCEPT ![j] = "claimed"]
    /\ job' = [job EXCEPT ![j].status = "running", ![j].claim = TRUE, ![j].restoring = TRUE]
    /\ slot' = j
    /\ up' = TRUE /\ wanted' = TRUE
    /\ UNCHANGED <<admission, outcome, waiting, pc, chosen, loaded, observed, bounds>>

RestartLost(j) ==
    /\ ~up
    /\ j \in ActiveRows
    /\ Persist(j, "execution_lost")
    /\ up' = TRUE /\ wanted' = TRUE
    /\ UNCHANGED <<job, slot, waiting, pc, chosen, loaded, observed, bounds>>

RestartIdle ==
    /\ ~up
    /\ ActiveRows = {}
    /\ up' = TRUE /\ wanted' = TRUE
    /\ UNCHANGED <<durable, job, slot, waiting, pc, chosen, loaded, observed, bounds>>

\* start_restored_executions, after every queue is loaded.
StartRestored(j) ==
    /\ up /\ ~wanted
    /\ pc[Restore] = "idle"
    /\ job[j].restoring
    /\ slot = j
    /\ row' = [row EXCEPT ![j] = "started"]
    /\ job' = [job EXCEPT ![j].restoring = FALSE, ![j].task = "created"]
    /\ UNCHANGED <<admission, outcome, slot, waiting, dispatch, up, observed, bounds>>

-----------------------------------------------------------------------------
\* What the event loop runs by itself once it is due.
Progress(p) ==
    \/ Select(p) \/ Launch(p)
    \/ p[1] \in {"task", "fin", "ctl"} /\ (Close(p) \/ Handover(p) \/ HandoverLost(p))
    \/ p[1] \in {"fin", "ctl"} /\ Finalize(p)

JobProgress(j) ==
    \/ TaskStep(j) \/ CtlWake(j) \/ ResumeAfterTask(j) \/ StartRestored(j)

RestoreProgress == RestoreRead \/ RestoreInstall

Next ==
    \/ RequestLoad
    \/ RestoreProgress
    \/ NotifyBoundary
    \/ Crash
    \/ RestartIdle
    \/ \E p \in Procs : Progress(p) \/ (p[1] \in {"fin", "ctl"} /\ FinalizeFault(p))
    \/ \E j \in Jobs :
        \/ Admit(j) \/ Control(j)
        \/ JobProgress(j) \/ ExecutorStep(j) \/ AbandonedStep(j)
        \/ up /\ (TaskTimeout(j) \/ SettleFault(j))
        \/ RestartRestored(j) \/ RestartLost(j)

Spec == Init /\ [][Next]_vars

\* The event loop runs every ready coroutine, the rounds of a cancellation
\* end, an executor ends (the total timeout stops it otherwise), and somebody
\* restarts a dead backend.  Nothing is assumed of an abandoned executor.
Fairness ==
    /\ WF_vars(RestoreProgress) /\ WF_vars(NotifyBoundary)
    /\ \A p \in Procs : WF_vars(Progress(p))
    /\ \A j \in Jobs : WF_vars(JobProgress(j)) /\ WF_vars(ExecutorStep(j))
    /\ WF_vars(RestartIdle \/ \E j \in Jobs : RestartRestored(j) \/ RestartLost(j))

FairSpec == Spec /\ Fairness

-----------------------------------------------------------------------------
(* Properties. *)

\* The FIFO mirror JobPendingQueue holds only queued jobs whose row still
\* waits, all admitted after the job of the active slot: rebuilding it from a
\* read made before the lock never brings back a job that was dispatched,
\* cancelled or discarded meanwhile, and no dispatch overtakes an admission.
MirrorConsistent ==
    \A j \in waiting :
        /\ job[j].status = "queued" /\ row[j] = "queued"
        /\ slot # NoJob => commit[slot] < commit[j]

\* An executor of j runs and its execution has no outcome yet.
MayCommit(j) == (ExecutorLive(j) \/ job[j].abandoned # {}) /\ outcome[j] = "unknown"

\* An executor that a body waits for has the Thread to itself: its job has the
\* slot and the open claim.  An executor that ignored its cancellation may run
\* beside the next one, but not with an execution that is still open: as long
\* as one may commit an outcome, no other job is claimed, executed or able to
\* commit one.
ExecutorOwnsThread ==
    \A j \in Jobs :
        /\ ExecutorLive(j) => slot = j /\ job[j].claim
        /\ ExecutorLive(j) \/ MayCommit(j) =>
              \A k \in Jobs \ {j} : ~ExecutorLive(k) /\ ~job[k].claim /\ ~MayCommit(k)

\* A reserved slot whose task does not exist yet has its durable claim, so
\* Launch never meets a missing or an invalidated claim.
UnstartedIsClaimed ==
    \A j \in Jobs : Unstarted(j) => slot = j /\ job[j].claim /\ row[j] = "claimed"

\* Canonical first: no job shows cancelled, timed_out or completed to a
\* reader before the execution outcome of its row is committed.
CanonicalFirst ==
    \A j \in Jobs : job[j].status \in {"cancelled", "timed_out", "completed"} =>
        row[j] = "terminal"

\* The task, its done callback and a cancel request may all settle the same
\* cancellation: JOB_CANCELLED is published at most once.
CancelledOnce ==
    \A j \in Jobs : \A h, i \in DOMAIN events[j] :
        events[j][h] = "cancelled" /\ events[j][i] = "cancelled" => h = i

\* Once the queue is loaded, a job that is not terminal is in the active slot
\* or in the mirror: _existing_dispatch_snapshot never raises.
NonTerminalIsPlaced ==
    up /\ ~wanted /\ pc[Restore] \in {"idle", "select", "launch"} =>
        \A j \in Jobs : job[j].status \notin TerminalStatus \cup {"unloaded"} =>
            slot = j \/ j \in waiting

\* _schedule_next_job_if_needed closes queue_claim before it looks at the
\* slot: as long as every terminal status can be written, a job that ended
\* has closed its claim, or its task or a finalizer that runs is about to.
\* The slot may have been given away meanwhile; a claim that nobody closes
\* would refuse every later dispatch of the Thread.
ClaimIsGivenBack ==
    faults = 0 => \A j \in Jobs : Terminal(j) /\ job[j].claim =>
        TaskAlive(j) \/ \E p \in {Fin(j), Ctl(j)} : pc[p] \in {"finalize", "close"}

\* The state invariant: a job that has not ended is in the slot or in the
\* mirror, with its row claimed when it is about to start, and it is finalized
\* as cancelled at most once.
ServiceInv ==
    /\ TypeOK
    /\ UnstartedIsClaimed
    /\ CancelledOnce
    /\ NonTerminalIsPlaced

\* No interleaving of task, callbacks, control and dispatch moves a job along
\* an edge _ALLOWED_TRANSITIONS does not have; in particular no terminal
\* status is ever left.
LegalTransitions ==
    [][\A j \in Jobs :
        job[j].status # "unloaded" /\ job'[j].status # "unloaded" =>
            MayTransition(job[j].status, job'[j].status)]_vars

\* Every admitted job eventually has a committed outcome.  Stated of two jobs:
\* with a third the wake-up of QuietQueueIsEmpty can be lost.
EveryAdmissionSettles ==
    \A j \in Jobs : row[j] = "queued" ~> row[j] = "terminal"

\* A terminal job does not keep the active slot: its claim is closed and the
\* slot is handed to the next job or given up.
TerminalReleasesSlot ==
    \A j \in Jobs : (slot = j /\ Terminal(j)) ~> ~(slot = j /\ Terminal(j))

\* _discard_stale_terminal_followups: a follow-up discarded after its parent
\* failed is never executed.  A restart executes it: see the README.
DiscardedNeverRuns ==
    \A j \in discarded : ~ExecutorLive(j)

\* Any terminal status hands the Session to the queue: a job that waits in
\* the mirror eventually leaves it.  It stays behind a row that an executor
\* left started: see the README.
QueueDrains ==
    \A j \in Jobs : j \in waiting ~> j \notin waiting

\* The end of a job hands the Session to the queue, so that its head never
\* stays without a consumer: when nobody acts or is due to act, and no job has
\* the slot, no job waits.  A loader that is refused by the claim of a job
\* that is just ending loses the wake-up: see the README.
QuietQueueIsEmpty ==
    /\ up /\ ~wanted /\ slot = NoJob
    /\ \A p \in Procs : pc[p] = "idle"
    /\ \A j \in Jobs : ~TaskAlive(j) /\ job[j].callback = "none"
    => waiting = {}

\* The delivery policy after_interrupt: a request that waits behind a job
\* is delivered only once that job was interrupted.  A normal end delivers it
\* too: see the README.
WaitsForInterrupt ==
    [][\A j \in Jobs :
        Policy[j] = "after_interrupt" /\ slot' = j /\ slot \notin {NoJob, j} =>
            job[slot].boundary = "after_interrupt"]_vars

\* The rows under the job service, its mirror, its slot and its restarts
\* behave as the abstract queue of the Thread.
Queue == INSTANCE ThreadQueue WITH phase <- row, cursor <- commit

ImplementsThreadQueue == Queue!Spec
=============================================================================
