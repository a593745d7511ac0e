--------------------------- MODULE BackgroundWork ---------------------------
(***************************************************************************)
(* Background tasks of a session: a durable row and an operation lease per *)
(* task, a runner that holds an OS lock while it works, steps that may     *)
(* have an effect outside the database, and the calls that cancel,         *)
(* reconcile and delete a task while the process stops, dies or is started *)
(* again and the session is deleted.                                       *)
(***************************************************************************)
EXTENDS Naturals

CONSTANTS
    Tasks,        \* task ids of one session
    External,     \* tasks whose handler has effect = "external"
    Shard,        \* the holder lock of each task; several share one
    MaxSteps,     \* bound on the steps of a task
    MaxStarts,    \* bound on starts of the backend
    MaxControls,  \* bound on cancel, delete and reconcile calls of users
    MaxFaults     \* bound on steps that raise

ASSUME TaskAssumption == External \subseteq Tasks /\ DOMAIN Shard = Tasks
ASSUME BoundAssumption == {MaxSteps, MaxStarts, MaxControls, MaxFaults} \subseteq Nat \ {0}

VARIABLES
    row,        \* background_tasks: status, fencing token, effect mark, steps
    lease,      \* session_operation_leases: state and fencing token
    session,    \* active, checked (deletion looked for tasks) or deleting
    proc,       \* the backend: up, stopping or down
    asked,      \* tasks whose spawn has passed the admission flag
    run,        \* the runner of each task: where it is, its token and mark
    rec,        \* the token of a reconciliation in progress, 0 for none
    begun,      \* effects a handler has begun
    confirmed,  \* effects a committed step has confirmed
    budget

vars == <<row, lease, session, proc, asked, run, rec, begun, confirmed, budget>>

Active == {"pending", "running", "reconcile_required"}
Ended == {"completed", "cancelled", "failed", "deleted"}
LeaseEnded == {"completed", "cancelled", "failed"}
NoRow == [status |-> "none", token |-> 0, effect |-> FALSE, done |-> 0]
NoRunner == [at |-> "none", token |-> 0, effect |-> FALSE]

Init ==
    /\ row = [t \in Tasks |-> NoRow]
    /\ lease = [t \in Tasks |-> [state |-> "none", token |-> 0]]
    /\ session = "active" /\ proc = "up" /\ asked = {}
    /\ run = [t \in Tasks |-> NoRunner]
    /\ rec = [t \in Tasks |-> 0]
    /\ begun = [t \in Tasks |-> 0] /\ confirmed = [t \in Tasks |-> 0]
    /\ budget = [start |-> MaxStarts, control |-> MaxControls, fault |-> MaxFaults]

(* The fence and the catalog node both admit: admission().                 *)
Admitted == session # "deleting"

(* The runner has claimed the task.                                        *)
Acquired == {"mark", "step", "commit"}

(* The holder lock of a task is free.                                      *)
HolderFree(t) ==
    \A q \in Tasks : Shard[q] = Shard[t] =>
        run[q].at \notin Acquired \cup {"claim"} /\ rec[q] = 0

-----------------------------------------------------------------------------
(* Ending a task *)

Settled(l, outcome) == IF l.state \in LeaseEnded THEN l ELSE [l EXCEPT !.state = outcome]

OutcomeOf(status) == IF status \in {"completed", "cancelled"} THEN status ELSE "failed"

(* Everything in memory is gone with the process.                          *)
Forget ==
    /\ proc' = "down" /\ asked' = {}
    /\ run' = [t \in Tasks |-> NoRunner] /\ rec' = [t \in Tasks |-> 0]

(* _settle_lease: two more transactions after the row was written; the     *)
(* process can die before each of them.                                    *)
SettleLease(t, status, memory) ==
    \/ /\ lease' = IF status \in Active THEN lease
                   ELSE [lease EXCEPT ![t] = Settled(@, OutcomeOf(status))]
       /\ memory /\ UNCHANGED proc
    \/ /\ status \in Ended /\ lease[t].state \notin LeaseEnded /\ budget.start > 0
       /\ \E s \in {lease[t].state, "settling"} : lease' = [lease EXCEPT ![t].state = s]
       /\ Forget

(* _finish: the row and the lease.                                         *)
Finish(t, status, memory) ==
    /\ row' = [row EXCEPT ![t].status = status]
    /\ SettleLease(t, status, memory)

EndRunner(t) == run' = [run EXCEPT ![t] = NoRunner] /\ UNCHANGED <<asked, rec>>

(* An effect nobody has confirmed is never closed with another status.     *)
UnknownOr(effect, status) == IF effect THEN "reconcile_required" ELSE status

-----------------------------------------------------------------------------
(* spawn *)

AskSpawn(t) ==
    /\ proc = "up" /\ t \notin asked /\ row[t].status = "none"
    /\ asked' = asked \cup {t}
    /\ UNCHANGED <<row, lease, session, proc, run, rec, begun, confirmed, budget>>

(* Mutant: the admission is not asked when the row is created.             *)
SpawnUnadmitted(t) ==
    /\ t \in asked
    /\ asked' = asked \ {t}
    /\ row' = [row EXCEPT ![t].status = "pending"]
    /\ lease' = [lease EXCEPT ![t] = [state |-> "active", token |-> 1]]
    /\ run' = [run EXCEPT ![t].at = "wait"]
    /\ UNCHANGED <<session, proc, rec, begun, confirmed, budget>>

(* create_background_task and _launch, inside the admission.               *)
Spawn(t) ==
    /\ t \in asked /\ Admitted
    /\ asked' = asked \ {t}
    /\ row' = [row EXCEPT ![t].status = "pending"]
    /\ lease' = [lease EXCEPT ![t] = [state |-> "active", token |-> 1]]
    /\ run' = [run EXCEPT ![t].at = "wait"]
    /\ UNCHANGED <<session, proc, rec, begun, confirmed, budget>>

-----------------------------------------------------------------------------
(* _run *)

Hold(t) ==
    /\ run[t].at = "wait" /\ HolderFree(t)
    /\ run' = [run EXCEPT ![t].at = "claim"]
    /\ UNCHANGED <<row, lease, session, proc, asked, rec, begun, confirmed, budget>>

(* The task has ended, or the session is being deleted.                    *)
SkipClaim(t) ==
    /\ run[t].at = "claim"
    /\ ~Admitted \/ row[t].status \notin {"pending", "running"}
    /\ EndRunner(t)
    /\ UNCHANGED <<row, lease, session, proc, begun, confirmed, budget>>

FirstPlace(t) == IF t \in External THEN "mark" ELSE "step"

(* takeover_lease and claim_background_task: the new runner replaces the   *)
(* token of the last one; a task with a mark waits for a reconciliation.   *)
Claim(t) ==
    /\ run[t].at = "claim" /\ Admitted /\ row[t].status \in {"pending", "running"}
    /\ \/ /\ row[t].effect
          /\ Finish(t, "reconcile_required", EndRunner(t))
       \/ /\ ~row[t].effect
          /\ lease' = [lease EXCEPT ![t] = [state |-> "active", token |-> @.token + 1]]
          /\ row' = [row EXCEPT ![t].status = "running", ![t].token = @ + 1]
          /\ run' = [run EXCEPT ![t] = [at |-> FirstPlace(t), token |-> row'[t].token, effect |-> FALSE]]
          /\ UNCHANGED <<proc, asked, rec>>
    /\ UNCHANGED <<session, begun, confirmed, budget>>

(* Mutant: the effect begins before it is recorded.                        *)
MarkInMemory(t) ==
    /\ run[t].at = "mark" /\ Admitted
    /\ run' = [run EXCEPT ![t].at = "step", ![t].effect = TRUE]
    /\ begun' = [begun EXCEPT ![t] = @ + 1]
    /\ UNCHANGED <<row, lease, session, proc, asked, rec, confirmed, budget>>

(* mark_background_external_effect, then the step begins.                  *)
Mark(t) ==
    /\ run[t].at = "mark" /\ Admitted
    /\ row' = [row EXCEPT ![t].effect = TRUE]
    /\ run' = [run EXCEPT ![t].at = "step", ![t].effect = TRUE]
    /\ begun' = [begun EXCEPT ![t] = @ + 1]
    /\ UNCHANGED <<lease, session, proc, asked, rec, confirmed, budget>>

StepReturns(t) ==
    /\ run[t].at = "step"
    /\ run' = [run EXCEPT ![t].at = "commit"]
    /\ UNCHANGED <<row, lease, session, proc, asked, rec, begun, confirmed, budget>>

(* Mutant: the admission is not asked again after the step.                *)
CommitUnadmitted(t) ==
    /\ run[t].at = "commit"
    /\ row[t].token = run[t].token /\ row[t].status = "running"
    /\ confirmed' = [confirmed EXCEPT ![t] = begun[t]]
    /\ row' = [row EXCEPT ![t].done = @ + 1, ![t].effect = FALSE, ![t].status = "completed"]
    /\ SettleLease(t, "completed", EndRunner(t))
    /\ UNCHANGED <<session, begun, budget>>

(* commit_background_step: checkpoint, messages and mark in one            *)
(* transaction; the lease follows when the task is complete.               *)
CommitStep(t) ==
    /\ run[t].at = "commit" /\ Admitted
    /\ row[t].token = run[t].token /\ row[t].status = "running"
    /\ confirmed' = [confirmed EXCEPT ![t] = begun[t]]
    /\ \/ /\ row' = [row EXCEPT ![t].done = @ + 1, ![t].effect = FALSE, ![t].status = "completed"]
          /\ SettleLease(t, "completed", EndRunner(t))
       \/ /\ row[t].done + 1 < MaxSteps
          /\ row' = [row EXCEPT ![t].done = @ + 1, ![t].effect = FALSE]
          /\ run' = [run EXCEPT ![t].at = FirstPlace(t), ![t].effect = FALSE]
          /\ UNCHANGED <<lease, proc, asked, rec>>
    /\ UNCHANGED <<session, begun, budget>>

(* SessionDeletionPendingError at one of the admissions.                   *)
RunnerLosesSession(t) ==
    /\ run[t].at \in {"mark", "commit"} /\ ~Admitted
    /\ Finish(t, UnknownOr(run[t].effect, "cancelled"), EndRunner(t))
    /\ UNCHANGED <<session, begun, confirmed, budget>>

(* The handler raises, or the runtime generation is gone.                  *)
StepFails(t) ==
    /\ run[t].at \in {"step", "commit"} /\ budget.fault > 0
    /\ budget' = [budget EXCEPT !.fault = @ - 1]
    /\ Finish(t, UnknownOr(run[t].effect, "failed"), EndRunner(t))
    /\ UNCHANGED <<session, begun, confirmed>>

-----------------------------------------------------------------------------
(* Calls *)

(* A user asks, or the drain of the deleted session does.                  *)
Asked ==
    \/ session = "deleting" /\ UNCHANGED budget
    \/ budget.control > 0 /\ budget' = [budget EXCEPT !.control = @ - 1]

(* cancel: the runner ends first and writes what it knows, then a task     *)
(* that is still active is closed.                                         *)
Cancel(t) ==
    /\ proc # "down" /\ row[t].status \in Active /\ Asked
    /\ Finish(t, UnknownOr(row[t].effect, "cancelled"), EndRunner(t))
    /\ UNCHANGED <<session, begun, confirmed>>

(* delete: after cancel, and only when that has ended the task.  The drain *)
(* does it for every task that is not deleted.                             *)
Delete(t) ==
    /\ proc # "down" /\ row[t].status \in Ended \ {"deleted"} /\ Asked
    /\ Finish(t, "deleted", EndRunner(t))
    /\ UNCHANGED <<session, begun, confirmed>>

(* reconcile: takes the holder lock without waiting and a new token.       *)
Reconcile(t) ==
    /\ proc # "down" /\ HolderFree(t) /\ Admitted /\ t \in External
    /\ row[t].status = "reconcile_required" /\ row[t].effect
    /\ budget.control > 0 /\ budget' = [budget EXCEPT !.control = @ - 1]
    /\ lease' = [lease EXCEPT ![t] = [state |-> "active", token |-> @.token + 1]]
    /\ row' = [row EXCEPT ![t].token = @ + 1]
    /\ rec' = [rec EXCEPT ![t] = row'[t].token]
    /\ UNCHANGED <<session, proc, asked, run, begun, confirmed>>

EndReconcile(t) == rec' = [rec EXCEPT ![t] = 0] /\ UNCHANGED <<asked, run>>

(* The handler has found out; a task that goes on is launched again.       *)
ReconcileCommits(t) ==
    /\ rec[t] > 0 /\ Admitted
    /\ row[t].token = rec[t] /\ row[t].status = "reconcile_required"
    /\ confirmed' = [confirmed EXCEPT ![t] = begun[t]]
    /\ \/ /\ row' = [row EXCEPT ![t].done = @ + 1, ![t].effect = FALSE, ![t].status = "completed"]
          /\ SettleLease(t, "completed", EndReconcile(t))
       \/ /\ row[t].done + 1 < MaxSteps
          /\ row' = [row EXCEPT ![t].done = @ + 1, ![t].effect = FALSE, ![t].status = "running"]
          /\ rec' = [rec EXCEPT ![t] = 0]
          /\ run' = [run EXCEPT ![t].at = "wait"]
          /\ UNCHANGED <<lease, proc, asked>>
    /\ UNCHANGED <<session, begun, budget>>

(* It has not, or the caller or the session is gone.                       *)
ReconcileEnds(t) ==
    /\ rec[t] > 0
    /\ EndReconcile(t)
    /\ UNCHANGED <<row, lease, session, proc, begun, confirmed, budget>>

-----------------------------------------------------------------------------
(* Process and session *)

(* stop: every runner is cancelled and leaves its task to the next start.  *)
Stop ==
    /\ proc = "up" /\ proc' = "stopping"
    /\ row' = [t \in Tasks |->
                 IF run[t].at \in Acquired
                 THEN [row[t] EXCEPT !.status = UnknownOr(run[t].effect, "pending")] ELSE row[t]]
    /\ run' = [t \in Tasks |-> NoRunner]
    /\ UNCHANGED <<lease, session, asked, rec, begun, confirmed, budget>>

Die ==
    /\ proc # "down" /\ budget.start > 0
    /\ Forget
    /\ UNCHANGED <<row, lease, session, begun, confirmed, budget>>

(* Mutant: ended tasks are not looked at.                                  *)
StartWithoutSettling ==
    /\ proc = "down" /\ budget.start > 0
    /\ proc' = "up" /\ budget' = [budget EXCEPT !.start = @ - 1]
    /\ run' = [t \in Tasks |->
                 IF Admitted /\ row[t].status \in {"pending", "running"}
                 THEN [NoRunner EXCEPT !.at = "wait"] ELSE NoRunner]
    /\ UNCHANGED <<row, lease, session, asked, rec, begun, confirmed>>

(* Mutant: only tasks that were left pending are launched.                 *)
StartPendingOnly ==
    /\ proc = "down" /\ budget.start > 0
    /\ proc' = "up" /\ budget' = [budget EXCEPT !.start = @ - 1]
    /\ run' = [t \in Tasks |->
                 IF Admitted /\ row[t].status = "pending"
                 THEN [NoRunner EXCEPT !.at = "wait"] ELSE NoRunner]
    /\ UNCHANGED <<row, lease, session, asked, rec, begun, confirmed>>

(* start: leases of ended tasks are settled, active tasks are launched;    *)
(* sessions that are being deleted are not looked at.                      *)
Start ==
    /\ proc = "down" /\ budget.start > 0
    /\ proc' = "up" /\ budget' = [budget EXCEPT !.start = @ - 1]
    /\ lease' = [t \in Tasks |->
                   IF Admitted /\ row[t].status \in Ended
                   THEN Settled(lease[t], OutcomeOf(row[t].status)) ELSE lease[t]]
    /\ run' = [t \in Tasks |->
                 IF Admitted /\ row[t].status \in {"pending", "running"}
                 THEN [NoRunner EXCEPT !.at = "wait"] ELSE NoRunner]
    /\ UNCHANGED <<row, session, asked, rec, begun, confirmed>>

(* _run_shared_delete looks for active tasks, then the subtree is marked.  *)
CheckForDeletion ==
    /\ session = "active" /\ proc = "up" /\ \A t \in Tasks : row[t].status \notin Active
    /\ session' = "checked"
    /\ UNCHANGED <<row, lease, proc, asked, run, rec, begun, confirmed, budget>>

MarkDeleting ==
    /\ session = "checked" /\ proc = "up" /\ session' = "deleting"
    /\ UNCHANGED <<row, lease, proc, asked, run, rec, begun, confirmed, budget>>

Runner(t) ==
    \/ Hold(t) \/ SkipClaim(t) \/ Claim(t) \/ Mark(t) \/ StepReturns(t) \/ CommitStep(t)
    \/ RunnerLosesSession(t)

Next ==
    \/ \E t \in Tasks :
        \/ AskSpawn(t) \/ Spawn(t) \/ Runner(t) \/ StepFails(t) \/ Cancel(t) \/ Delete(t)
        \/ Reconcile(t) \/ ReconcileCommits(t) \/ ReconcileEnds(t)
    \/ Stop \/ Die \/ Start \/ CheckForDeletion \/ MarkDeleting

Spec == Init /\ [][Next]_vars

(* Handlers return, a backend that is down is started again, and the drain *)
(* of a deletion is repeated until it gets through.                        *)
Fairness ==
    /\ \A t \in Tasks : WF_vars(Runner(t)) /\ SF_vars(Hold(t))
                        /\ WF_vars(ReconcileEnds(t))
                        /\ WF_vars(session = "deleting" /\ (Cancel(t) \/ Delete(t)))
    /\ WF_vars(Start)

FairSpec == Spec /\ Fairness

-----------------------------------------------------------------------------
(* Properties *)

TypeOK ==
    /\ row \in [Tasks -> [status : Active \cup Ended \cup {"none"}, token : Nat,
                          effect : BOOLEAN, done : 0..MaxSteps]]
    /\ lease \in [Tasks -> [state : LeaseEnded \cup {"none", "active", "settling"}, token : Nat]]
    /\ session \in {"active", "checked", "deleting"} /\ proc \in {"up", "stopping", "down"}
    /\ asked \subseteq Tasks
    /\ run \in [Tasks -> [at : Acquired \cup {"none", "wait", "claim"}, token : Nat, effect : BOOLEAN]]
    /\ rec \in [Tasks -> Nat]

(* An effect that was begun and not confirmed is on record, whatever died, *)
(* stopped or was cancelled in between: the next one is not begun and the  *)
(* task is not closed before a reconciliation has confirmed it.            *)
NoBlindReplay ==
    \A t \in Tasks :
        /\ begun[t] \in {confirmed[t], confirmed[t] + 1}
        /\ begun[t] > confirmed[t] => row[t].effect /\ row[t].status \in Active

(* A runner is never fenced out: while it works on a task, the row is      *)
(* running under its token with the mark it remembers, and no other runner *)
(* or reconciliation works under the same lock.                            *)
RunnerOwnsTask ==
    \A t \in Tasks : run[t].at \in Acquired =>
        /\ row[t].status = "running" /\ row[t].token = run[t].token
        /\ row[t].effect = run[t].effect
        /\ lease[t].state = "active"
        /\ \A q \in Tasks : Shard[q] = Shard[t] =>
            rec[q] = 0 /\ (q # t => run[q].at \notin Acquired)

(* The lease of an active task is open, and the lease of an ended one is   *)
(* settled as soon as a process looks after the session.                   *)
LeaseFollowsTask ==
    \A t \in Tasks :
        /\ row[t].status \in Active => lease[t].state \in {"active", "settling"}
        /\ row[t].status \in Ended /\ proc # "down" /\ Admitted => lease[t].state \in LeaseEnded

(* The state invariant: runner, row and lease of a task agree.             *)
BackgroundInv ==
    /\ TypeOK
    /\ RunnerOwnsTask
    /\ LeaseFollowsTask

(* Nothing is written for a session once it is being deleted, except the   *)
(* end of what was there; and a task that has ended is only ever deleted.  *)
EndedStaysEnded ==
    [][\A t \in Tasks :
        /\ row[t].status \in Ended => row'[t].status \in {row[t].status, "deleted"}
        /\ session = "deleting" => row'[t].done = row[t].done /\ begun'[t] = begun[t]]_vars

(* The leases of the tasks behave as operation leases: what spawn, claims, *)
(* reconciliations, ends, drains and starts do to them, over deaths between *)
(* the row and the lease, is what the lease table promises, and none is    *)
(* created once the session is being deleted.                              *)
Leases ==
    INSTANCE OperationLease WITH
        Operations <- Tasks,
        fence <- IF session = "deleting" THEN "deleting" ELSE "active"
ImplementsLeases == Leases!Spec

(* A task gets to an end, or to the point where a reconciliation has to    *)
(* decide, over stops and deaths of the process, behind other tasks of its *)
(* lock, and when the session is deleted.                                  *)
TasksConverge ==
    \A t \in Tasks : row[t].status \in {"pending", "running"}
        ~> row[t].status \in Ended \cup {"reconcile_required"} \/ proc # "up"

(* The drain of a deleted session leaves no open lease behind.  The code   *)
(* does not keep this over two deaths: see the README.                     *)
LeasesEndWithSession ==
    (session = "deleting") ~>
        \A t \in Tasks : row[t].effect \/ lease[t].state \in LeaseEnded \cup {"none"} \/ proc # "up"
=============================================================================
