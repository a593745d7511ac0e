---------------------------- MODULE ExecutorStop ----------------------------
(***************************************************************************)
(* One job, its task body and its executors.  _run_job_background starts   *)
(* an executor and waits for it under two timers; a timeout or a control   *)
(* stops it with _cancel_execution_task: two bounded rounds of task.cancel *)
(* and then a wait for protected_operations_settled, the event the runner  *)
(* keeps cleared while it persists or cleans up.  An executor that ignores *)
(* the cancellations is abandoned while it runs.  A paused job that is     *)
(* resumed gets a new body and a new executor under the same admission.    *)
(*                                                                         *)
(* A pending task.cancel() is thrown at the next resumption of its task,   *)
(* so it comes before any other step of that task.                         *)
(*                                                                         *)
(* Its specification is StopSpec, so that one module can extend it and     *)
(* ThreadResidency, the runtime that the executor leases.                  *)
(***************************************************************************)
EXTENDS Naturals, Sequences, ExecutionOutcome

CONSTANTS
    MaxRuns,        \* bodies of the job: one, and one per resume
    MaxControls     \* control requests (pause, resume, cancel)

ASSUME RunsAssumption == MaxRuns \in Nat \ {0} /\ MaxControls \in Nat

VARIABLES
    status,     \* JobState.status
    run,        \* number of the current body
    body,       \* its point and why it stops its executor
    asked,      \* a task.cancel() of the body that it has not seen yet
    ex,         \* the executor of each run
    outcome,    \* executions.outcome of the job's admission
    events,     \* the terminal events published for the job, in order
    resuming,   \* a resume waits for the old body
    controls    \* control requests so far

stopVars == <<status, run, body, asked, ex, outcome, events, resuming, controls>>

Runs == 1..MaxRuns

\* Where an executor is: the title and the wait for the runner (before), the
\* reads and the writes that precede the agent loop (admit), the loop, the
\* final checkpoint (persist), the rest of the completion (close), the shielded
\* cleanups of a cancellation, an interrupt and a failure, the finally block (release), and the
\* publication of JOB_COMPLETED by JobExecutionService.run.
Ended == {"returned", "raised", "cancelled"}
Protected == {"admit", "persist", "close", "uncancel", "unintr", "unfail", "release"}
Places == {"none", "before", "loop", "publish", "published"} \cup Protected \cup Ended

Idle == [at |-> "none", hit |-> FALSE, ready |-> FALSE, scope |-> FALSE, end |-> "raised"]

Waiting == {"wait", "ready", "grace"}
Stopping == {"round1", "round2", "settle"}

StopTypeOK ==
    /\ status \in {"running", "paused", "cancelling",
                   "completed", "cancelled", "timed_out", "failed"}
    /\ run \in Runs
    /\ body \in [at : Waiting \cup Stopping \cup {"leave", "done"},
                 why : {"result", "error", "startup", "timeout", "cancelled"},
                 again : BOOLEAN]
    /\ asked \in BOOLEAN
    /\ ex \in [Runs -> [at : Places, hit : BOOLEAN, ready : BOOLEAN,
                        scope : BOOLEAN, end : Ended]]
    /\ outcome \in Outcomes
    /\ events \in Seq({"JOB_COMPLETED", "JOB_CANCELLED", "JOB_FAILED"})
    /\ resuming \in BOOLEAN
    /\ controls \in 0..MaxControls

Settled(i) == ex[i].at \notin Protected
ExDone(i) == ex[i].at \in Ended
Live(i) == ex[i].at \notin {"none"} \cup Ended

Started == [Idle EXCEPT !.at = "before"]
NewBody == [at |-> "wait", why |-> "result", again |-> FALSE]

StopInit ==
    /\ status = "running" /\ run = 1 /\ body = NewBody /\ asked = FALSE
    /\ ex = [i \in Runs |-> IF i = 1 THEN Started ELSE Idle]
    /\ outcome = "unknown" /\ events = <<>> /\ resuming = FALSE /\ controls = 0

-----------------------------------------------------------------------------
(* The executor. *)

ExAt(i, place) == ex' = [ex EXCEPT ![i].at = place]
ExFree(i, place) == ex[i].at = place /\ ~ex[i].hit
ExOnly == UNCHANGED <<status, run, body, asked, resuming, controls>>

\* The title and the configuration are done: the runner clears the event.
RunnerStarts(i) ==
    /\ ExFree(i, "before") /\ ExAt(i, "admit")
    /\ ExOnly /\ UNCHANGED <<outcome, events>>

ScopeFree == \A k \in Runs : ~ex[k].scope

\* The admission is read, the scope of the Turn is registered (create refuses
\* a second one), the runtime is acquired; the event is set and the loop
\* begins, which reports its progress to the body.
LoopBegins(i) ==
    /\ ExFree(i, "admit") /\ ScopeFree
    /\ ex' = [ex EXCEPT ![i] = [@ EXCEPT !.at = "loop", !.scope = TRUE, !.ready = TRUE]]
    /\ ExOnly /\ UNCHANGED <<outcome, events>>

\* The preparation, the loop or the completion fails; a Turn that already has
\* a scope is such a failure.
StepFails(i) ==
    /\ \E place \in {"admit", "loop", "close"} : ExFree(i, place)
    /\ ExAt(i, "unfail")
    /\ ExOnly /\ UNCHANGED <<outcome, events>>

\* A user interrupt ends the loop as a cancellation nobody sent to the task.
StepInterrupted(i) ==
    /\ ExFree(i, "loop") /\ ExAt(i, "unintr")
    /\ ExOnly /\ UNCHANGED <<outcome, events>>

\* The loop has its answer: the event is cleared for the final checkpoint.
LoopEnds(i) ==
    /\ ExFree(i, "loop") /\ ExAt(i, "persist")
    /\ ExOnly /\ UNCHANGED <<outcome, events>>

\* converge_final_message commits the outcome with the checkpoint, and refuses
\* an execution that has settled; the final item of another executor is
\* another item, so a second completion is refused too.
Converges(i) ==
    /\ ExFree(i, "persist")
    /\ IF outcome = "unknown"
       THEN outcome' = "completed" /\ ExAt(i, "close")
       ELSE ExAt(i, "unfail") /\ UNCHANGED outcome
    /\ ExOnly /\ UNCHANGED events

\* The message stream is closed and AGENT_END published.
Closes(i) ==
    /\ ExFree(i, "close")
    /\ ex' = [ex EXCEPT ![i] = [@ EXCEPT !.at = "release", !.end = "returned"]]
    /\ ExOnly /\ UNCHANGED <<outcome, events>>

\* The shielded cleanups: a cancellation marks the execution lost, a failure
\* converges it as failed or marks it lost; a user interrupt cancels an internal
\* execution and leaves that of a Turn to the job's mark.  A settled execution
\* refuses all of them and the runner raises all the same.
CleansUp(i) ==
    /\ \E place \in {"uncancel", "unintr", "unfail"} : ExFree(i, place)
    /\ \E o \in CASE ex[i].at = "uncancel" -> {"execution_lost", "cancelled", "unknown"}
                  [] ex[i].at = "unintr" -> {"cancelled", "unknown"}
                  [] ex[i].at = "unfail" -> {"execution_lost", "failed", "unknown"} :
          outcome' = IF outcome = "unknown" THEN o ELSE outcome
    /\ ex' = [ex EXCEPT ![i] = [@ EXCEPT !.at = "release",
                 !.end = IF ex[i].at = "unfail" THEN "raised" ELSE "cancelled"]]
    /\ ExOnly /\ UNCHANGED events

\* The finally block closes the scope and gives back the runtime; only then
\* AgentExecutionService sets the event.
Releases(i) ==
    /\ ExFree(i, "release")
    /\ ex' = [ex EXCEPT ![i] = [@ EXCEPT !.scope = FALSE,
                 !.at = IF ex[i].end = "returned" THEN "publish" ELSE ex[i].end]]
    /\ ExOnly /\ UNCHANGED <<outcome, events>>

Publishes(i) ==
    /\ ExFree(i, "publish") /\ ExAt(i, "published")
    /\ events' = Append(events, "JOB_COMPLETED")
    /\ ExOnly /\ UNCHANGED outcome

Returns(i) ==
    /\ ExFree(i, "published") /\ ExAt(i, "returned")
    /\ ExOnly /\ UNCHANGED <<outcome, events>>

\* The pending cancellation is thrown.  A shielded cleanup swallows it, code
\* of the agent loop may.
Hit(i) ==
    /\ ex[i].hit
    /\ \E place \in Places :
          /\ ex' = [ex EXCEPT ![i] = [@ EXCEPT !.hit = FALSE, !.at = place]]
          /\ \/ ex[i].at \in {"before", "publish", "published"} /\ place = "cancelled"
             \/ ex[i].at \in {"admit", "loop", "persist", "close"} /\ place = "uncancel"
             \/ ex[i].at \in {"loop", "uncancel", "unintr", "unfail", "release"} /\ place = ex[i].at
    /\ ExOnly /\ UNCHANGED <<outcome, events>>

ProtectedStep(i) ==
    \/ LoopBegins(i) \/ StepFails(i) \/ Converges(i) \/ Closes(i) \/ CleansUp(i) \/ Releases(i)

ExecutorStep(i) ==
    \/ RunnerStarts(i) \/ LoopBegins(i) \/ StepFails(i) \/ StepInterrupted(i) \/ LoopEnds(i)
    \/ Converges(i) \/ Closes(i) \/ CleansUp(i) \/ Releases(i)
    \/ Publishes(i) \/ Returns(i) \/ Hit(i)
-----------------------------------------------------------------------------
(* The task body. *)

BodyFree(places) == body.at \in places /\ ~asked
BodyOnly == UNCHANGED <<status, run, outcome, events, resuming, controls>>

\* execution_task is done: its result, its exception or its cancellation.
Collect ==
    /\ BodyFree(Waiting) /\ ExDone(run)
    /\ body' = [body EXCEPT !.at = "leave",
                   !.why = CASE ex[run].at = "returned" -> "result"
                             [] ex[run].at = "raised" -> "error"
                             [] ex[run].at = "cancelled" -> "cancelled"]
    /\ BodyOnly /\ UNCHANGED <<asked, ex>>

\* The loop reported progress: the startup timer no longer counts.
ReadySeen ==
    /\ BodyFree({"wait"}) /\ ~ExDone(run) /\ ex[run].ready
    /\ body' = [body EXCEPT !.at = "ready"]
    /\ BodyOnly /\ UNCHANGED <<asked, ex>>

Cancels(i) == [ex EXCEPT ![i].hit = TRUE]

StartupTimeout ==
    /\ BodyFree({"wait"}) /\ ~ExDone(run)
    /\ body' = [body EXCEPT !.at = "round1", !.why = "startup"]
    /\ ex' = Cancels(run)
    /\ BodyOnly /\ UNCHANGED asked

TotalTimeout ==
    /\ BodyFree({"wait"}) /\ ~ExDone(run)
    /\ body' = [body EXCEPT !.at = "round1", !.why = "timeout"]
    /\ ex' = Cancels(run)
    /\ BodyOnly /\ UNCHANGED asked

\* A loop that has begun gets the finalization window first.
TotalTimeoutReady ==
    /\ BodyFree({"ready"}) /\ ~ExDone(run)
    /\ body' = [body EXCEPT !.at = "grace"]
    /\ BodyOnly /\ UNCHANGED <<asked, ex>>

GraceOver ==
    /\ BodyFree({"grace"}) /\ ~ExDone(run)
    /\ body' = [body EXCEPT !.at = "round1", !.why = "timeout"]
    /\ ex' = Cancels(run)
    /\ BodyOnly /\ UNCHANGED asked

\* CancelledError while the body waits: an executor that is done is not
\* looked at again, its result is dropped.
CancelledWaiting ==
    /\ asked /\ body.at \in Waiting
    /\ asked' = FALSE
    /\ IF ExDone(run)
       THEN body' = [body EXCEPT !.at = "leave", !.why = "cancelled"] /\ UNCHANGED ex
       ELSE body' = [body EXCEPT !.at = "round1", !.why = "cancelled"] /\ ex' = Cancels(run)
    /\ BodyOnly

\* CancelledError while the body stops its executor: the rounds are shielded;
\* after the rounds of a timeout the cancellation handler runs its own.
CancelledStopping ==
    /\ asked /\ body.at \in Stopping
    /\ asked' = FALSE
    /\ body' = [body EXCEPT !.again = @ \/ body.why # "cancelled"]
    /\ BodyOnly /\ UNCHANGED ex

\* CancelledError in the finally block that gathers the timers replaces the
\* result or the error that was leaving.
CancelledLeaving ==
    /\ asked /\ body.at = "leave"
    /\ asked' = FALSE
    /\ body' = [body EXCEPT !.why = "cancelled"]
    /\ BodyOnly /\ UNCHANGED ex

\* _cancel_execution_task returns to a handler that either leaves or starts
\* over as a cancellation.
Stopped ==
    IF body.again /\ ~ExDone(run)
    THEN /\ body' = [at |-> "round1", why |-> "cancelled", again |-> FALSE]
         /\ ex' = Cancels(run)
    ELSE /\ body' = [at |-> "leave", again |-> FALSE,
                     why |-> IF body.again THEN "cancelled" ELSE body.why]
         /\ UNCHANGED ex

\* The timeout of a round is longer than the delivery of its cancellation.
RoundOver ==
    /\ BodyFree({"round1"}) /\ ~ex[run].hit
    /\ IF ExDone(run) THEN Stopped
       ELSE body' = [body EXCEPT !.at = "round2"] /\ ex' = Cancels(run)
    /\ BodyOnly /\ UNCHANGED asked

\* Mutant: the executor is abandoned after the second round, writing or not.
ForceOverAtOnce ==
    /\ BodyFree({"round2"}) /\ ~ex[run].hit /\ Stopped
    /\ BodyOnly /\ UNCHANGED asked

ForceOver ==
    /\ BodyFree({"round2"}) /\ ~ex[run].hit
    /\ IF ExDone(run) \/ Settled(run) THEN Stopped
       ELSE body' = [body EXCEPT !.at = "settle"] /\ UNCHANGED ex
    /\ BodyOnly /\ UNCHANGED asked

\* Mutant: the body waits for the executor itself.
SettlesWhenDone ==
    /\ BodyFree({"settle"}) /\ ExDone(run) /\ Stopped
    /\ BodyOnly /\ UNCHANGED asked

Settles ==
    /\ BodyFree({"settle"})
    /\ ExDone(run) \/ Settled(run)
    /\ Stopped
    /\ BodyOnly /\ UNCHANGED asked

Terminal(s, mark, event) ==
    /\ status' = s
    /\ outcome' = MarkedOutcome(outcome, mark)
    /\ events' = Append(events, event)

\* The handlers of _run_job_background, each with its shielded terminal write
\* and its event; a cancelled body of a paused job leaves it paused.
LeaveBody ==
    /\ BodyFree({"leave"})
    /\ body' = [body EXCEPT !.at = "done"]
    /\ CASE body.why = "result" -> status' = "completed" /\ UNCHANGED <<outcome, events>>
         [] body.why = "cancelled" /\ status = "paused" -> UNCHANGED <<status, outcome, events>>
         [] body.why = "cancelled" /\ status # "paused" ->
               Terminal("cancelled", "cancelled", "JOB_CANCELLED")
         [] body.why \in {"startup", "timeout"} -> Terminal("timed_out", "timed_out", "JOB_FAILED")
         [] body.why = "error" -> Terminal("failed", "failed", "JOB_FAILED")
    /\ UNCHANGED <<run, asked, ex, resuming, controls>>

StopStep == RoundOver \/ ForceOver \/ Settles \/ LeaveBody
                \/ CancelledWaiting \/ CancelledStopping \/ CancelledLeaving

BodyStep ==
    \/ Collect \/ ReadySeen \/ StartupTimeout \/ TotalTimeout \/ TotalTimeoutReady \/ GraceOver
    \/ StopStep
-----------------------------------------------------------------------------
(* JobControlService.control. *)

Request == controls < MaxControls /\ controls' = controls + 1

Pause ==
    /\ Request /\ status = "running" /\ body.at # "done"
    /\ status' = "paused" /\ asked' = TRUE
    /\ UNCHANGED <<run, body, ex, outcome, events, resuming>>

\* _resume_job_locked and _start_job_task; the new body starts its executor.
NextRun ==
    /\ run < MaxRuns
    /\ run' = run + 1
    /\ status' = "running"
    /\ body' = NewBody
    /\ ex' = [ex EXCEPT ![run + 1] = Started]

ResumeNow ==
    /\ Request /\ status = "paused" /\ body.at = "done" /\ ~resuming
    /\ NextRun
    /\ UNCHANGED <<asked, outcome, events, resuming>>

ResumeWaits ==
    /\ Request /\ status = "paused" /\ body.at # "done" /\ ~resuming /\ run < MaxRuns
    /\ asked' = TRUE /\ resuming' = TRUE
    /\ UNCHANGED <<status, run, body, ex, outcome, events>>

ResumeAfterTask ==
    /\ resuming /\ body.at = "done"
    /\ resuming' = FALSE
    /\ IF status = "paused" THEN NextRun ELSE UNCHANGED <<run, status, body, ex>>
    /\ UNCHANGED <<asked, outcome, events, controls>>

CancelLive ==
    /\ Request /\ status \in {"running", "paused", "cancelling"} /\ body.at # "done"
    /\ status' = "cancelling" /\ asked' = TRUE
    /\ UNCHANGED <<run, body, ex, outcome, events, resuming>>

\* A paused job without a body is finalized by the control itself.
CancelPaused ==
    /\ Request /\ status = "paused" /\ body.at = "done"
    /\ Terminal("cancelled", "cancelled", "JOB_CANCELLED")
    /\ UNCHANGED <<run, body, asked, ex, resuming>>

Control == Pause \/ ResumeNow \/ ResumeWaits \/ CancelLive \/ CancelPaused
-----------------------------------------------------------------------------
StopNext == (\E i \in Runs : ExecutorStep(i)) \/ BodyStep \/ Control \/ ResumeAfterTask

StopSpec == StopInit /\ [][StopNext]_stopVars

(***************************************************************************)
(* The timers of the body fire, a thrown cancellation is delivered and     *)
(* what the event protects ends (persistence and cleanup are finite I/O).  *)
(* Nothing is assumed of the loop: it may run for ever.                    *)
(***************************************************************************)
StopFairness ==
    /\ WF_stopVars(StopStep) /\ WF_stopVars(ResumeAfterTask)
    /\ \A i \in Runs : WF_stopVars(ProtectedStep(i) /\ ex[i].at \in Protected)
    /\ \A i \in Runs : WF_stopVars(Hit(i))

StopFairSpec == StopSpec /\ StopFairness
-----------------------------------------------------------------------------
(***************************************************************************)
(* Properties.                                                             *)
(***************************************************************************)

\* A body gives up a live executor (the critical log of _cancel_execution_task)
\* only while the executor neither persists nor cleans up.
WritersKeepTheSlot ==
    [][body.at # "leave" /\ body'.at = "leave" /\ Live(run) => Settled(run)]_stopVars

\* JOB_COMPLETED is announced only for an execution whose durable outcome is
\* completed, whatever an abandoned executor, a late terminal mark or a second
\* executor does around it, and at most once in the life of the job.
AnnouncedIsDurable ==
    LET completions == {n \in 1..Len(events) : events[n] = "JOB_COMPLETED"}
    IN  /\ completions # {} => outcome = "completed"
        /\ \A m, n \in completions : m = n

\* At most one executor of the job is between the start of its loop and its
\* release, although an abandoned one may still run when a resume starts the
\* next: execution_scope_registry.create refuses the second.
OneTurnScope == \A i, k \in Runs : ex[i].scope /\ ex[k].scope => i = k

\* The state invariant: one scope of a Turn at a time, and no completion is
\* announced that is not durable.
StopInv ==
    /\ StopTypeOK
    /\ AnnouncedIsDurable
    /\ OneTurnScope

\* A stop ends: once the body is cancelled or stops its executor it is done,
\* however stubborn the executor (two bounded rounds and the settled event).
StopEnds == (asked \/ body.at \in Stopping) ~> (body.at = "done")

\* What a test, a docstring and a test say; the code keeps none of the three
\* (see the README).
\* "After its terminal event a job has no other event."
OneLastEvent == Len(events) <= 1

\* "While a real writer or cleanup is not drained the slot is kept."
SlotCoversWriters == body.at = "done" /\ status # "paused" => \A i \in Runs : Settled(i)

\* "Paused: the task is dead, the semantics are not ended, after the resume it
\* must go on": the execution whose executor a pause has cancelled is not lost,
\* it can still complete.
PauseKeepsExecution ==
    status = "paused" /\ body.at = "done" /\ ex[run].at = "cancelled" => outcome # "execution_lost"
=============================================================================
