------------------------ MODULE BackgroundWorkProofs ------------------------
(***************************************************************************)
(* Background tasks, for every set of tasks, of external tasks and of      *)
(* shared locks, and for any number of steps, starts, calls and faults.    *)
(*                                                                         *)
(* First the leases: a step is legal for the lease table only if the lease *)
(* it moves is not settled yet, which no action looks at, as the code      *)
(* reads the task row.  So an invariant ties the lease to the row, and the *)
(* row to who works on it.  Then the tasks: a second invariant says who    *)
(* may own a row, what its mark says of the effect, and that a lock has    *)
(* one holder.                                                             *)
(***************************************************************************)
EXTENDS BackgroundWork, TLAPS

RowShape ==
    [status : Active \cup Ended \cup {"none"}, token : Nat, effect : BOOLEAN, done : Nat]
LeaseShape == [state : LeaseEnded \cup {"none", "active", "settling"}, token : Nat]
RunShape ==
    [at : Acquired \cup {"none", "wait", "claim"}, token : Nat, effect : BOOLEAN]

Shapes ==
    /\ row \in [Tasks -> RowShape]
    /\ lease \in [Tasks -> LeaseShape]
    /\ run \in [Tasks -> RunShape]
    /\ asked \subseteq Tasks

(* A task without a row has no lease, one with a row has one, and the      *)
(* lease of an active task is not settled.                                 *)
LeaseOfRow(t) ==
    /\ row[t].status = "none" => lease[t] = [state |-> "none", token |-> 0]
    /\ row[t].status # "none" => lease[t].state # "none"
    /\ row[t].status \in Active => lease[t].state \in {"active", "settling"}

(* A spawn that was asked has no row; whoever works on a task finds it     *)
(* running.                                                                *)
WorkerOfRow(t) ==
    /\ t \in asked => row[t].status = "none"
    /\ run[t].at \in Acquired => row[t].status = "running"

LInv == Shapes /\ \A t \in Tasks : LeaseOfRow(t) /\ WorkerOfRow(t)

(* What a step may do to the lease of a task.                              *)
LeaseMoves(t) == lease'[t] = lease[t] \/ Leases!LeaseStep(lease[t], lease'[t])

(* A step that keeps the invariant and moves the leases as it may.         *)
Sound == LInv' /\ (\A t \in Tasks : LeaseMoves(t))

USE DEF Active, Ended, LeaseEnded, Acquired

-----------------------------------------------------------------------------
LEMMA InitSound == Init => LInv
  BY DEF Init, LInv, Shapes, LeaseOfRow, WorkerOfRow, RowShape, LeaseShape, RunShape,
     NoRow, NoRunner

(* A step that leaves row, lease, run and asked alone, or only ends        *)
(* runners and forgets spawns, keeps the invariant.                        *)
LEMMA Quiet ==
  ASSUME LInv, UNCHANGED <<row, lease>>, asked' \subseteq asked,
         run' \in [Tasks -> RunShape],
         \A t \in Tasks : run'[t].at \in Acquired => run[t].at \in Acquired
  PROVE  Sound
  BY DEF LInv, Shapes, LeaseOfRow, WorkerOfRow, Sound, LeaseMoves

(* What _settle_lease does to the leases, whether or not it gets through.  *)
LeaseFollows(t, status) ==
    \/ lease' = IF status \in Active THEN lease
                ELSE [lease EXCEPT ![t] = Settled(@, OutcomeOf(status))]
    \/ /\ status \in Ended /\ lease[t].state \notin LeaseEnded
       /\ \E s \in {lease[t].state, "settling"} : lease' = [lease EXCEPT ![t].state = s]

(* No runner appears and none is left on t.                                *)
RunnerGone(t) ==
    /\ asked' \subseteq asked
    /\ run' \in [Tasks -> RunShape]
    /\ \A q \in Tasks : run'[q].at \in Acquired => q # t /\ run[q].at \in Acquired

LEMMA RunnerEnds ==
  ASSUME LInv, NEW t \in Tasks, EndRunner(t) \/ Forget
  PROVE  RunnerGone(t)
<1>1. NoRunner \in RunShape /\ NoRunner.at \notin Acquired
  BY DEF NoRunner, RunShape
<1>2. CASE EndRunner(t)
  BY <1>1, <1>2 DEF EndRunner, RunnerGone, LInv, Shapes
<1>3. CASE Forget
  <2>1. asked' = {} /\ run' = [q \in Tasks |-> NoRunner]
    BY <1>3 DEF Forget
  <2>. QED  BY <1>1, <2>1 DEF RunnerGone
<1>. QED  BY <1>2, <1>3

(* The end of a task: the row gets a status that is not "none", the lease  *)
(* follows or the process dies, and no runner is left on the task.         *)
LEMMA Ending ==
  ASSUME LInv, NEW t \in Tasks,
         NEW status \in Ended \cup {"reconcile_required"},
         row[t].status # "none",
         status = "reconcile_required" => row[t].status \in Active,
         row' \in [Tasks -> RowShape],
         \A q \in Tasks \ {t} : row'[q] = row[q],
         row'[t].status = status,
         LeaseFollows(t, status), RunnerGone(t)
  PROVE  Sound
<1>1. /\ lease' \in [Tasks -> LeaseShape]
      /\ \A q \in Tasks \ {t} : lease'[q] = lease[q]
  BY DEF LeaseFollows, LInv, Shapes, LeaseShape, Settled, OutcomeOf
<1>2. \/ /\ lease'[t] = lease[t]
         /\ status \in Ended => lease[t].state \in LeaseEnded \cup {"active", "settling"}
      \/ /\ status \in Ended /\ lease[t].state \in {"active", "settling"}
         /\ \E s \in {"settling"} \cup LeaseEnded : lease'[t] = [lease[t] EXCEPT !.state = s]
  BY DEF LeaseFollows, LInv, Shapes, LeaseOfRow, LeaseShape, Settled, OutcomeOf
<1>3. LeaseMoves(t)
  BY <1>2 DEF LeaseMoves, Leases!LeaseStep, Leases!Advanced, Leases!Unsettled, Leases!Ended
<1>4. LeaseOfRow(t)' /\ WorkerOfRow(t)'
  BY <1>1, <1>2 DEF LInv, Shapes, LeaseOfRow, WorkerOfRow, LeaseShape, RunnerGone
<1>5. \A q \in Tasks \ {t} : LeaseOfRow(q)' /\ WorkerOfRow(q)'
  BY <1>1 DEF LInv, LeaseOfRow, WorkerOfRow, RunnerGone
<1>6. Shapes'
  BY <1>1 DEF LInv, Shapes, RunnerGone
<1>. QED  BY <1>1, <1>3, <1>4, <1>5, <1>6 DEF Sound, LInv, LeaseMoves

(* _finish, for a task that has a row.                                     *)
LEMMA Finishing ==
  ASSUME LInv, NEW t \in Tasks,
         NEW status \in Ended \cup {"reconcile_required"},
         row[t].status # "none",
         status = "reconcile_required" => row[t].status \in Active,
         Finish(t, status, EndRunner(t))
  PROVE  Sound
<1>1. /\ row' \in [Tasks -> RowShape]
      /\ \A q \in Tasks \ {t} : row'[q] = row[q]
      /\ row'[t].status = status
  BY DEF Finish, LInv, Shapes, RowShape
<1>2. LeaseFollows(t, status) /\ (EndRunner(t) \/ Forget)
  BY DEF Finish, SettleLease, LeaseFollows
<1>. QED  BY <1>1, <1>2, RunnerEnds, Ending

(* A step that completes its task.                                         *)
LEMMA Completing ==
  ASSUME LInv, NEW t \in Tasks, row[t].status \in Active,
         row' = [row EXCEPT ![t].done = @ + 1, ![t].effect = FALSE, ![t].status = "completed"],
         LeaseFollows(t, "completed"), RunnerGone(t)
  PROVE  Sound
<1>1. /\ row' \in [Tasks -> RowShape]
      /\ \A q \in Tasks \ {t} : row'[q] = row[q]
      /\ row'[t].status = "completed"
  BY DEF LInv, Shapes, RowShape
<1>. QED  BY <1>1, Ending

(* A step on one task that stays alive.                                    *)
LEMMA OneTask ==
  ASSUME LInv, NEW t \in Tasks,
         row' \in [Tasks -> RowShape], lease' \in [Tasks -> LeaseShape],
         run' \in [Tasks -> RunShape], asked' \subseteq asked,
         \A q \in Tasks \ {t} : row'[q] = row[q] /\ lease'[q] = lease[q] /\ run'[q] = run[q],
         LeaseMoves(t), LeaseOfRow(t)', WorkerOfRow(t)'
  PROVE  Sound
<1>1. \A q \in Tasks \ {t} : LeaseMoves(q) /\ LeaseOfRow(q)' /\ WorkerOfRow(q)'
  BY DEF LInv, LeaseOfRow, WorkerOfRow, LeaseMoves
<1>2. Shapes'
  BY DEF LInv, Shapes
<1>. QED  BY <1>1, <1>2 DEF Sound, LInv

-----------------------------------------------------------------------------
LEMMA SpawnSound ==
  ASSUME LInv, NEW t \in Tasks, AskSpawn(t) \/ Spawn(t)
  PROVE  Sound
<1>1. CASE AskSpawn(t)
  BY <1>1 DEF AskSpawn, LInv, Shapes, LeaseOfRow, WorkerOfRow, Sound, LeaseMoves
<1>2. CASE Spawn(t)
  <2>1. row[t].status = "none" /\ lease[t] = [state |-> "none", token |-> 0] /\ Admitted
    BY <1>2 DEF Spawn, LInv, LeaseOfRow, WorkerOfRow
  <2>2. LeaseMoves(t)
    BY <1>2, <2>1 DEF Spawn, Admitted, LInv, Shapes, LeaseMoves, Leases!LeaseStep,
       Leases!Created, Leases!NoLease
  <2>3. /\ row' \in [Tasks -> RowShape] /\ row'[t].status = "pending"
        /\ \A q \in Tasks \ {t} : row'[q] = row[q]
    BY <1>2 DEF Spawn, LInv, Shapes, RowShape
  <2>4. /\ lease' \in [Tasks -> LeaseShape] /\ lease'[t].state = "active"
        /\ \A q \in Tasks \ {t} : lease'[q] = lease[q]
    BY <1>2 DEF Spawn, LInv, Shapes, LeaseShape
  <2>5. /\ run' \in [Tasks -> RunShape] /\ run'[t].at = "wait"
        /\ \A q \in Tasks \ {t} : run'[q] = run[q]
    BY <1>2 DEF Spawn, LInv, Shapes, RunShape
  <2>6. LeaseOfRow(t)' /\ WorkerOfRow(t)' /\ asked' \subseteq asked
    BY <1>2, <2>3, <2>4, <2>5 DEF Spawn, LeaseOfRow, WorkerOfRow
  <2>. QED  BY <2>2, <2>3, <2>4, <2>5, <2>6, OneTask
<1>. QED  BY <1>1, <1>2

(* A claim and a reconciliation take the lease of an active task over.     *)
LEMMA TakeoverMoves ==
  ASSUME LInv, NEW t \in Tasks, row[t].status \in Active,
         lease' = [lease EXCEPT ![t] = [state |-> "active", token |-> @.token + 1]]
  PROVE  /\ lease' \in [Tasks -> LeaseShape]
         /\ \A q \in Tasks : LeaseMoves(q)
         /\ \A q \in Tasks \ {t} : lease'[q] = lease[q]
         /\ lease'[t].state = "active"
  BY DEF LInv, Shapes, LeaseShape, LeaseOfRow, LeaseMoves, Leases!LeaseStep,
     Leases!TakenOver, Leases!Unsettled

LEMMA ClaimSound ==
  ASSUME LInv, NEW t \in Tasks, Claim(t)
  PROVE  Sound
<1>1. CASE row[t].effect
  BY <1>1, Finishing DEF Claim
<1>2. CASE ~row[t].effect
  <2>1. /\ row[t].status \in Active
        /\ lease' = [lease EXCEPT ![t] = [state |-> "active", token |-> @.token + 1]]
        /\ row' = [row EXCEPT ![t].status = "running", ![t].token = @ + 1]
        /\ run' = [run EXCEPT ![t] = [at |-> FirstPlace(t), token |-> row'[t].token, effect |-> FALSE]]
        /\ UNCHANGED asked
    BY <1>2 DEF Claim
  <2>2. /\ row' \in [Tasks -> RowShape] /\ row'[t].status = "running"
        /\ \A q \in Tasks \ {t} : row'[q] = row[q]
    BY <2>1 DEF LInv, Shapes, RowShape
  <2>3. /\ run' \in [Tasks -> RunShape]
        /\ \A q \in Tasks \ {t} : run'[q] = run[q]
    BY <2>1, <2>2 DEF LInv, Shapes, RunShape, RowShape, FirstPlace
  <2>4. /\ lease' \in [Tasks -> LeaseShape] /\ lease'[t].state = "active" /\ LeaseMoves(t)
        /\ \A q \in Tasks \ {t} : lease'[q] = lease[q]
    BY <2>1, TakeoverMoves
  <2>5. LeaseOfRow(t)' /\ WorkerOfRow(t)' /\ asked' \subseteq asked
    BY <2>1, <2>2, <2>4 DEF LInv, LeaseOfRow, WorkerOfRow
  <2>. QED  BY <2>2, <2>3, <2>4, <2>5, OneTask
<1>. QED  BY <1>1, <1>2

LEMMA StepCounted ==
  ASSUME NEW r \in RowShape
  PROVE  /\ [r EXCEPT !.done = @ + 1, !.effect = FALSE] \in RowShape
         /\ [r EXCEPT !.done = @ + 1, !.effect = FALSE].status = r.status
<1>1. r.done + 1 \in Nat
  BY DEF RowShape
<1>. QED  BY <1>1, Zenon DEF RowShape

(* A runner that goes on with its task.                                    *)
LEMMA StillWorking ==
  ASSUME LInv, NEW t \in Tasks, run[t].at \in Acquired,
         \/ row' = [row EXCEPT ![t].effect = TRUE]
         \/ row' = [row EXCEPT ![t].done = @ + 1, ![t].effect = FALSE],
         NEW place \in Acquired, NEW mark \in BOOLEAN,
         run' = [run EXCEPT ![t].at = place, ![t].effect = mark],
         UNCHANGED <<lease, asked>>
  PROVE  Sound
<1>1. /\ row' \in [Tasks -> RowShape] /\ row'[t].status = row[t].status
      /\ \A q \in Tasks \ {t} : row'[q] = row[q]
  <2>1. row \in [Tasks -> RowShape] /\ row[t] \in RowShape
    BY DEF LInv, Shapes
  <2>2. CASE row' = [row EXCEPT ![t].effect = TRUE]
    BY <2>1, <2>2 DEF RowShape
  <2>3. CASE row' = [row EXCEPT ![t].done = @ + 1, ![t].effect = FALSE]
    <3>. DEFINE moved == [row[t] EXCEPT !.done = @ + 1, !.effect = FALSE]
    <3>1. moved \in RowShape /\ moved.status = row[t].status
      BY <2>1, StepCounted
    <3>2. row' = [row EXCEPT ![t] = moved]
      BY <2>1, <2>3, Zenon
    <3>. HIDE DEF moved
    <3>. QED  BY <2>1, <3>1, <3>2
  <2>. QED  BY <2>2, <2>3
<1>2. /\ run' \in [Tasks -> RunShape]
      /\ \A q \in Tasks \ {t} : run'[q] = run[q]
  <2>1. run \in [Tasks -> RunShape] /\ run[t] \in RunShape
    BY DEF LInv, Shapes
  <2>2. place \in Acquired \cup {"none", "wait", "claim"} /\ mark \in BOOLEAN
    OBVIOUS
  <2>3. [run[t] EXCEPT !.at = place, !.effect = mark] \in RunShape
    BY <2>1, <2>2, Zenon DEF RunShape
  <2>. QED  BY <2>1, <2>3
<1>3. LeaseMoves(t) /\ LeaseOfRow(t)' /\ WorkerOfRow(t)'
  BY <1>1 DEF LInv, LeaseMoves, LeaseOfRow, WorkerOfRow
<1>4. lease' \in [Tasks -> LeaseShape] /\ \A q \in Tasks \ {t} : lease'[q] = lease[q]
  BY DEF LInv, Shapes
<1>. QED  BY <1>1, <1>2, <1>3, <1>4, OneTask

LEMMA RunnerSound ==
  ASSUME LInv, NEW t \in Tasks, Runner(t)
  PROVE  Sound
<1>1. CASE Hold(t) \/ StepReturns(t)
  <2>1. /\ run' \in [Tasks -> RunShape]
        /\ \A q \in Tasks : run'[q].at \in Acquired => run[q].at \in Acquired
    BY <1>1 DEF Hold, StepReturns, LInv, Shapes, RunShape
  <2>. QED  BY <1>1, <2>1, Quiet DEF Hold, StepReturns
<1>2. CASE SkipClaim(t)
  BY <1>2, RunnerEnds, Quiet DEF SkipClaim, RunnerGone
<1>3. CASE Claim(t)
  BY <1>3, ClaimSound
<1>4. CASE Mark(t)
  <2>1. /\ row' = [row EXCEPT ![t].effect = TRUE]
        /\ run[t].at = "mark" /\ run' = [run EXCEPT ![t].at = "step", ![t].effect = TRUE]
        /\ UNCHANGED <<lease, asked>>
    BY <1>4 DEF Mark
  <2>. QED  BY <2>1, StillWorking
<1>5. CASE CommitStep(t)
  <2>1. CASE /\ row' = [row EXCEPT ![t].done = @ + 1, ![t].effect = FALSE, ![t].status = "completed"]
             /\ SettleLease(t, "completed", EndRunner(t))
    <3>1. LeaseFollows(t, "completed") /\ (EndRunner(t) \/ Forget)
      BY <2>1 DEF SettleLease, LeaseFollows
    <3>. QED  BY <1>5, <2>1, <3>1, RunnerEnds, Completing DEF CommitStep
  <2>2. CASE /\ row' = [row EXCEPT ![t].done = @ + 1, ![t].effect = FALSE]
             /\ run' = [run EXCEPT ![t].at = FirstPlace(t), ![t].effect = FALSE]
             /\ UNCHANGED <<lease, asked>>
    <3>1. run[t].at = "commit" /\ FirstPlace(t) \in Acquired
      BY <1>5 DEF CommitStep, FirstPlace
    <3>. QED  BY <2>2, <3>1, StillWorking
  <2>. QED  BY <1>5, <2>1, <2>2 DEF CommitStep
<1>6. CASE RunnerLosesSession(t)
  <2>1. row[t].status = "running"
    BY <1>6 DEF RunnerLosesSession, LInv, WorkerOfRow
  <2>2. UnknownOr(run[t].effect, "cancelled") \in {"cancelled", "reconcile_required"}
    BY DEF UnknownOr
  <2>. QED  BY <1>6, <2>1, <2>2, Finishing DEF RunnerLosesSession
<1>. QED  BY <1>1, <1>2, <1>3, <1>4, <1>5, <1>6 DEF Runner

LEMMA CallSound ==
  ASSUME LInv, NEW t \in Tasks, StepFails(t) \/ Cancel(t) \/ Delete(t)
  PROVE  Sound
<1>1. CASE StepFails(t)
  <2>1. row[t].status = "running"
    BY <1>1 DEF StepFails, LInv, WorkerOfRow
  <2>2. UnknownOr(run[t].effect, "failed") \in {"failed", "reconcile_required"}
    BY DEF UnknownOr
  <2>. QED  BY <1>1, <2>1, <2>2, Finishing DEF StepFails
<1>2. CASE Cancel(t)
  <2>1. UnknownOr(row[t].effect, "cancelled") \in {"cancelled", "reconcile_required"}
    BY DEF UnknownOr
  <2>. QED  BY <1>2, <2>1, Finishing DEF Cancel
<1>3. CASE Delete(t)
  BY <1>3, Finishing DEF Delete
<1>. QED  BY <1>1, <1>2, <1>3

LEMMA ReconcileSound ==
  ASSUME LInv, NEW t \in Tasks, Reconcile(t) \/ ReconcileCommits(t) \/ ReconcileEnds(t)
  PROVE  Sound
<1>1. CASE Reconcile(t)
  <2>1. /\ row[t].status = "reconcile_required"
        /\ lease' = [lease EXCEPT ![t] = [state |-> "active", token |-> @.token + 1]]
        /\ row' = [row EXCEPT ![t].token = @ + 1]
        /\ UNCHANGED <<asked, run>>
    BY <1>1 DEF Reconcile
  <2>2. /\ row' \in [Tasks -> RowShape] /\ row'[t].status = row[t].status
        /\ \A q \in Tasks \ {t} : row'[q] = row[q]
    BY <2>1 DEF LInv, Shapes, RowShape
  <2>3. /\ lease' \in [Tasks -> LeaseShape] /\ lease'[t].state = "active" /\ LeaseMoves(t)
        /\ \A q \in Tasks \ {t} : lease'[q] = lease[q]
    BY <2>1, TakeoverMoves
  <2>4. LeaseOfRow(t)' /\ WorkerOfRow(t)' /\ run' \in [Tasks -> RunShape]
    BY <2>1, <2>2, <2>3 DEF LInv, Shapes, LeaseOfRow, WorkerOfRow
  <2>. QED  BY <2>1, <2>2, <2>3, <2>4, OneTask
<1>2. CASE ReconcileCommits(t)
  <2>1. row[t].status = "reconcile_required" /\ run[t].at \notin Acquired
    BY <1>2 DEF ReconcileCommits, LInv, WorkerOfRow
  <2>2. CASE /\ row' = [row EXCEPT ![t].done = @ + 1, ![t].effect = FALSE, ![t].status = "completed"]
             /\ SettleLease(t, "completed", EndReconcile(t))
    <3>1. LeaseFollows(t, "completed") /\ (EndReconcile(t) \/ Forget)
      BY <2>2 DEF SettleLease, LeaseFollows
    <3>2. EndReconcile(t) => RunnerGone(t)
      BY <2>1 DEF EndReconcile, RunnerGone, LInv, Shapes
    <3>. QED  BY <2>1, <2>2, <3>1, <3>2, RunnerEnds, Completing
  <2>3. CASE /\ row' = [row EXCEPT ![t].done = @ + 1, ![t].effect = FALSE, ![t].status = "running"]
             /\ run' = [run EXCEPT ![t].at = "wait"]
             /\ UNCHANGED <<lease, asked>>
    BY <2>1, <2>3 DEF LInv, Shapes, LeaseOfRow, WorkerOfRow, RowShape, RunShape, Sound, LeaseMoves
  <2>. QED  BY <1>2, <2>2, <2>3 DEF ReconcileCommits
<1>3. CASE ReconcileEnds(t)
  BY <1>3, Quiet DEF ReconcileEnds, EndReconcile, LInv, Shapes
<1>. QED  BY <1>1, <1>2, <1>3

-----------------------------------------------------------------------------
LEMMA ProcessSound ==
  ASSUME LInv, Stop \/ Die \/ Start
  PROVE  Sound
<1>0. NoRunner \in RunShape /\ NoRunner.at = "none"
  BY DEF NoRunner, RunShape
<1>1. CASE Stop
  <2>1. run' = [t \in Tasks |-> NoRunner] /\ UNCHANGED <<lease, asked>>
    BY <1>1 DEF Stop
  <2>2. ASSUME NEW t \in Tasks
        PROVE  /\ row'[t] \in RowShape
               /\ \/ row'[t] = row[t]
                  \/ /\ row[t].status = "running"
                     /\ row'[t].status \in {"pending", "reconcile_required"}
    <3>1. row[t] \in RowShape /\ (run[t].at \in Acquired => row[t].status = "running")
      BY DEF LInv, Shapes, WorkerOfRow
    <3>2. row'[t] = IF run[t].at \in Acquired
                    THEN [row[t] EXCEPT !.status = UnknownOr(run[t].effect, "pending")] ELSE row[t]
      BY <1>1 DEF Stop
    <3>. QED  BY <3>1, <3>2 DEF UnknownOr, RowShape
  <2>3. row' \in [Tasks -> RowShape]
    <3>1. row' = [t \in Tasks |-> row'[t]]
      BY <1>1 DEF Stop
    <3>. QED  BY <2>2, <3>1
  <2>4. \A t \in Tasks : LeaseOfRow(t)' /\ WorkerOfRow(t)'
    BY <1>0, <2>1, <2>2 DEF LInv, LeaseOfRow, WorkerOfRow
  <2>. QED  BY <1>0, <2>1, <2>3, <2>4 DEF Sound, LInv, Shapes, LeaseMoves
<1>2. CASE Die
  <2>1. /\ run' = [t \in Tasks |-> NoRunner] /\ asked' = {}
        /\ UNCHANGED <<row, lease>>
    BY <1>2 DEF Die, Forget
  <2>. QED  BY <1>0, <2>1, Quiet
<1>3. CASE Start
  <2>1. UNCHANGED <<row, asked>>
    BY <1>3 DEF Start
  <2>2. /\ run' \in [Tasks -> RunShape]
        /\ \A t \in Tasks : run'[t].at \notin Acquired
    <3>1. [NoRunner EXCEPT !.at = "wait"] \in RunShape /\ [NoRunner EXCEPT !.at = "wait"].at = "wait"
      BY DEF NoRunner, RunShape
    <3>. QED  BY <1>0, <1>3, <3>1 DEF Start
  <2>3. ASSUME NEW t \in Tasks
        PROVE  /\ lease'[t] \in LeaseShape
               /\ \/ lease'[t] = lease[t]
                  \/ /\ row[t].status \in Ended /\ lease[t].state \in {"active", "settling"}
                     /\ \E s \in LeaseEnded : lease'[t] = [lease[t] EXCEPT !.state = s]
    <3>1. lease[t] \in LeaseShape /\ (row[t].status # "none" => lease[t].state # "none")
      BY DEF LInv, Shapes, LeaseOfRow
    <3>2. lease'[t] = IF Admitted /\ row[t].status \in Ended
                      THEN Settled(lease[t], OutcomeOf(row[t].status)) ELSE lease[t]
      BY <1>3 DEF Start
    <3>. QED  BY <3>1, <3>2 DEF Settled, OutcomeOf, LeaseShape
  <2>4. lease' \in [Tasks -> LeaseShape]
    <3>1. lease' = [t \in Tasks |-> lease'[t]]
      BY <1>3 DEF Start
    <3>. QED  BY <2>3, <3>1
  <2>5. \A t \in Tasks : LeaseMoves(t)
    BY <2>3 DEF LeaseMoves, Leases!LeaseStep, Leases!Advanced, Leases!Unsettled, Leases!Ended
  <2>6. \A t \in Tasks : LeaseOfRow(t)' /\ WorkerOfRow(t)'
    BY <2>1, <2>2, <2>3, ZenonT(60) DEF LInv, Shapes, LeaseShape, LeaseOfRow, WorkerOfRow
  <2>. QED  BY <2>1, <2>2, <2>4, <2>5, <2>6 DEF Sound, LInv, Shapes
<1>. QED  BY <1>1, <1>2, <1>3

LEMMA SessionSound ==
  ASSUME LInv, CheckForDeletion \/ MarkDeleting \/ UNCHANGED vars
  PROVE  Sound
  BY Quiet DEF CheckForDeletion, MarkDeleting, vars, LInv, Shapes

LEMMA StepSound ==
  ASSUME LInv, [Next]_vars
  PROVE  Sound
  BY SpawnSound, RunnerSound, CallSound, ReconcileSound, ProcessSound, SessionSound DEF Next

(* The invariant that ties the lease of a task to its row and the row to   *)
(* whoever works on it holds of background_task_registry.py.               *)
THEOREM LeaseInvariance == Spec => []LInv
<1>1. LInv /\ [Next]_vars => LInv'
  BY StepSound DEF Sound
<1>. QED  BY InitSound, <1>1, PTL DEF Spec

-----------------------------------------------------------------------------
(* No step moves the fence and a lease at a time, and a session that is    *)
(* being deleted stays so.                                                 *)
LEMMA FenceMoves ==
  ASSUME [Next]_vars
  PROVE  \/ UNCHANGED session
         \/ UNCHANGED lease /\ session = "active" /\ session' = "checked"
         \/ UNCHANGED lease /\ session = "checked" /\ session' = "deleting"
<1>1. CASE \E t \in Tasks : AskSpawn(t) \/ Spawn(t) \/ Runner(t) \/ StepFails(t) \/ Cancel(t)
                            \/ Delete(t) \/ Reconcile(t) \/ ReconcileCommits(t) \/ ReconcileEnds(t)
  BY <1>1 DEF AskSpawn, Spawn, Runner, Hold, SkipClaim, Claim, Mark, StepReturns, CommitStep,
     RunnerLosesSession, StepFails, Cancel, Delete, Reconcile, ReconcileCommits, ReconcileEnds
<1>2. CASE Stop \/ Die \/ Start \/ UNCHANGED vars
  BY <1>2 DEF Stop, Die, Start, vars
<1>3. CASE CheckForDeletion \/ MarkDeleting
  BY <1>3 DEF CheckForDeletion, MarkDeleting
<1>. QED  BY <1>1, <1>2, <1>3 DEF Next

(* Whatever cancel, reconcile, the runners, deaths and starts do to the    *)
(* rows, their leases move only as the lease table allows: created before  *)
(* the session is deleted, settled once, and taken over before that.       *)
THEOREM LeasesImplemented == Spec => ImplementsLeases
<1>1. Init => Leases!Init
  BY DEF Init, Leases!Init, Leases!NoLease
<1>2. LInv /\ [Next]_vars => [Leases!Next]_(Leases!leaseVars)
  <2>. SUFFICES ASSUME LInv, [Next]_vars
                PROVE  [Leases!Next]_(Leases!leaseVars)
    OBVIOUS
  <2>1. Sound
    BY StepSound
  <2>2. CASE UNCHANGED session
    <3>1. Leases!MoveLeases
      BY <2>1, <2>2 DEF Sound, LInv, Shapes, LeaseShape, LeaseMoves, Leases!MoveLeases,
         Leases!Unsettled, Leases!Ended
    <3>. QED  BY <3>1 DEF Leases!Next
  <2>3. CASE UNCHANGED lease /\ session = "active" /\ session' = "checked"
    BY <2>3 DEF Leases!leaseVars
  <2>4. CASE UNCHANGED lease /\ session = "checked" /\ session' = "deleting"
    BY <2>4 DEF Leases!Next, Leases!CloseFence
  <2>. QED  BY <2>2, <2>3, <2>4, FenceMoves
<1>. QED  BY <1>1, <1>2, LeaseInvariance, PTL DEF Spec, ImplementsLeases, Leases!Spec

-----------------------------------------------------------------------------
(* Runners, effects and ended tasks                                        *)

Works(t) == run[t].at \in Acquired \cup {"claim"}

(* Who works on a task finds the row and the lease it has left there.      *)
OwnerOfRow(t) ==
    /\ run[t].at \in Acquired =>
        /\ row[t].token = run[t].token /\ row[t].effect = run[t].effect
        /\ lease[t].state = "active"
    /\ run[t].at = "mark" => ~row[t].effect
    /\ rec[t] > 0 => row[t].status = "reconcile_required"

(* A task waits for a reconciliation only because of its mark; it has a    *)
(* step left while it is active; its lease is settled when it ends.        *)
RowSound(t) ==
    /\ row[t].status = "reconcile_required" => row[t].effect
    /\ row[t].done <= MaxSteps
    /\ row[t].status \in Active \cup {"none"} => row[t].done < MaxSteps
    /\ row[t].status \in Ended /\ proc # "down" /\ Admitted => lease[t].state \in LeaseEnded

EffectOnRecord(t) ==
    /\ begun[t] \in {confirmed[t], confirmed[t] + 1}
    /\ begun[t] > confirmed[t] => row[t].effect /\ row[t].status \in Active

TaskSound(t) == OwnerOfRow(t) /\ RowSound(t) /\ EffectOnRecord(t)

(* One runner or reconciliation holds a lock at a time.                    *)
OneHolder ==
    \A t, q \in Tasks : Works(t) /\ Shard[q] = Shard[t] => rec[q] = 0 /\ (q # t => ~Works(q))

Counters ==
    /\ rec \in [Tasks -> Nat] /\ begun \in [Tasks -> Nat] /\ confirmed \in [Tasks -> Nat]
    /\ session \in {"active", "checked", "deleting"} /\ proc \in {"up", "stopping", "down"}

WInv == LInv /\ Counters /\ OneHolder /\ \A t \in Tasks : TaskSound(t)

LEMMA InitWorks == Init => WInv
  BY InitSound, BoundAssumption DEF Init, WInv, Counters, OneHolder, TaskSound, OwnerOfRow,
     RowSound, EffectOnRecord, Works, NoRow, NoRunner

(* No step takes a lock that it does not say it takes.                     *)
NoNewHolder == \A q \in Tasks : (Works(q)' => Works(q)) /\ rec'[q] \in {rec[q], 0}

LEMMA HolderKept ==
  ASSUME WInv, NoNewHolder
  PROVE  OneHolder'
  BY DEF WInv, Counters, NoNewHolder, OneHolder

(* A step on t leaves the other tasks alone, or takes their runners with   *)
(* the process.                                                            *)
Others(t) ==
    /\ \A q \in Tasks \ {t} :
        /\ row'[q] = row[q] /\ lease'[q] = lease[q]
        /\ begun'[q] = begun[q] /\ confirmed'[q] = confirmed[q]
    /\ \/ proc' = proc /\ \A q \in Tasks \ {t} : run'[q] = run[q] /\ rec'[q] = rec[q]
       \/ Forget
    /\ session' = session

LEMMA OneTaskWorks ==
  ASSUME WInv, LInv', Counters', OneHolder', NEW t \in Tasks, Others(t), TaskSound(t)'
  PROVE  WInv'
<1>1. ASSUME NEW q \in Tasks \ {t}
      PROVE  TaskSound(q)'
  <2>1. TaskSound(q) /\ q \in Tasks
    BY DEF WInv
  <2>2. CASE proc' = proc /\ run'[q] = run[q] /\ rec'[q] = rec[q]
    BY <2>1, <2>2 DEF Others, TaskSound, OwnerOfRow, RowSound, EffectOnRecord, Admitted
  <2>3. CASE Forget
    <3>1. run'[q] = NoRunner /\ rec'[q] = 0 /\ proc' = "down"
      BY <2>3 DEF Forget
    <3>. QED  BY <2>1, <3>1 DEF Others, TaskSound, OwnerOfRow, RowSound, EffectOnRecord, NoRunner
  <2>. QED  BY <2>2, <2>3 DEF Others
<1>. QED  BY <1>1 DEF WInv

(* _settle_lease gets through.                                             *)
SettlesNow(t, status) ==
    /\ lease' = IF status \in Active THEN lease
                ELSE [lease EXCEPT ![t] = Settled(@, OutcomeOf(status))]
    /\ UNCHANGED proc

(* What _settle_lease leaves: the lease of an ended task is settled, or    *)
(* the process is gone.                                                    *)
LEMMA Settling ==
  ASSUME WInv, NEW t \in Tasks, NEW status \in Ended \cup {"reconcile_required"},
         \/ SettleLease(t, status, EndRunner(t))
         \/ SettleLease(t, status, EndReconcile(t)) /\ ~Works(t)
  PROVE  /\ \A q \in Tasks \ {t} : lease'[q] = lease[q]
         /\ status \in Ended => lease'[t].state \in LeaseEnded \/ proc' = "down"
         /\ proc' \in {proc, "down"}
         /\ \/ proc' = proc /\ \A q \in Tasks \ {t} : run'[q] = run[q] /\ rec'[q] = rec[q]
            \/ Forget
         /\ ~Works(t)' /\ NoNewHolder /\ rec' \in [Tasks -> Nat]
<1>1. lease \in [Tasks -> LeaseShape] /\ run \in [Tasks -> RunShape] /\ rec \in [Tasks -> Nat]
  BY DEF WInv, LInv, Shapes, Counters
<1>2. CASE Forget
  <2>1. run' = [q \in Tasks |-> NoRunner] /\ rec' = [q \in Tasks |-> 0] /\ proc' = "down"
    BY <1>2 DEF Forget
  <2>2. \A q \in Tasks \ {t} : lease'[q] = lease[q]
    BY <1>1 DEF SettleLease
  <2>. QED  BY <1>2, <2>1, <2>2 DEF Works, NoRunner, NoNewHolder
<1>3. CASE SettlesNow(t, status) /\ (EndRunner(t) \/ (EndReconcile(t) /\ ~Works(t)))
  <2>1. /\ \A q \in Tasks \ {t} : lease'[q] = lease[q]
        /\ status \in Ended => lease'[t].state \in LeaseEnded
        /\ proc' = proc
    BY <1>1, <1>3 DEF SettlesNow, Settled, OutcomeOf, LeaseShape
  <2>2. CASE EndRunner(t)
    BY <1>1, <2>1, <2>2 DEF EndRunner, Works, NoNewHolder, NoRunner
  <2>3. CASE EndReconcile(t) /\ ~Works(t)
    BY <1>1, <2>1, <2>3 DEF EndReconcile, Works, NoNewHolder
  <2>. QED  BY <1>3, <2>2, <2>3
<1>4. Forget \/ (SettlesNow(t, status) /\ (EndRunner(t) \/ (EndReconcile(t) /\ ~Works(t))))
  <2>1. ASSUME SettleLease(t, status, EndRunner(t))
        PROVE  Forget \/ (SettlesNow(t, status) /\ EndRunner(t))
    BY <2>1, Zenon DEF SettleLease, SettlesNow
  <2>2. ASSUME SettleLease(t, status, EndReconcile(t))
        PROVE  Forget \/ (SettlesNow(t, status) /\ EndReconcile(t))
    BY <2>2, Zenon DEF SettleLease, SettlesNow
  <2>. QED  BY <2>1, <2>2
<1>. QED  BY <1>2, <1>3, <1>4

(* _finish keeps the mark: it ends no task whose effect is not confirmed.  *)
LEMMA FinishingWorks ==
  ASSUME WInv, LInv', NEW t \in Tasks, NEW status \in Ended \cup {"reconcile_required"},
         Finish(t, status, EndRunner(t)),
         row[t].effect /\ row[t].status \in Active => status = "reconcile_required",
         status = "reconcile_required" => row[t].effect /\ row[t].status \in Active,
         UNCHANGED <<session, begun, confirmed>>
  PROVE  WInv'
<1>1. /\ row'[t] = [row[t] EXCEPT !.status = status]
      /\ \A q \in Tasks \ {t} : row'[q] = row[q]
      /\ SettleLease(t, status, EndRunner(t))
  BY DEF Finish, WInv, LInv, Shapes
<1>2. row[t] \in RowShape /\ TaskSound(t) /\ Counters
  BY DEF WInv, LInv, Shapes
<1>3. /\ row'[t].status = status /\ row'[t].effect = row[t].effect
      /\ row'[t].done = row[t].done
  BY <1>1, <1>2 DEF RowShape
<1>4. Others(t) /\ NoNewHolder /\ Counters'
  BY <1>1, <1>2, Settling DEF Others, Counters
<1>5. TaskSound(t)'
  <2>1. ~Works(t)' /\ rec'[t] \in {rec[t], 0}
        /\ (status \in Ended => lease'[t].state \in LeaseEnded \/ proc' = "down")
    BY <1>1, Settling DEF NoNewHolder
  <2>2. OwnerOfRow(t)'
    BY <1>2, <1>3, <2>1 DEF TaskSound, OwnerOfRow, RowSound, Works, Counters
  <2>3. RowSound(t)' /\ EffectOnRecord(t)'
    BY <1>2, <1>3, <2>1 DEF TaskSound, RowSound, EffectOnRecord
  <2>. QED  BY <2>2, <2>3 DEF TaskSound
<1>. QED  BY <1>4, <1>5, HolderKept, OneTaskWorks

(* A step that completes the task confirms its effect.                     *)
LEMMA CompletingWorks ==
  ASSUME WInv, LInv', NEW t \in Tasks, row[t].status \in Active,
         row' = [row EXCEPT ![t].done = @ + 1, ![t].effect = FALSE, ![t].status = "completed"],
         confirmed' = [confirmed EXCEPT ![t] = begun[t]],
         \/ SettleLease(t, "completed", EndRunner(t)) /\ rec[t] = 0
         \/ SettleLease(t, "completed", EndReconcile(t)) /\ ~Works(t),
         UNCHANGED <<session, begun>>
  PROVE  WInv'
<1>1. row[t] \in RowShape /\ TaskSound(t) /\ Counters
  BY DEF WInv, LInv, Shapes
<1>2. /\ row'[t].status = "completed" /\ row'[t].effect = FALSE
      /\ row'[t].done = row[t].done + 1
      /\ \A q \in Tasks \ {t} : row'[q] = row[q]
  BY <1>1 DEF WInv, LInv, Shapes, RowShape
<1>3. /\ confirmed'[t] = begun[t] /\ \A q \in Tasks \ {t} : confirmed'[q] = confirmed[q]
      /\ confirmed' \in [Tasks -> Nat]
  BY <1>1 DEF Counters
<1>4. Others(t) /\ NoNewHolder /\ Counters'
  BY <1>1, <1>2, <1>3, Settling DEF Others, Counters
<1>5. TaskSound(t)'
  <2>1. ~Works(t)' /\ (lease'[t].state \in LeaseEnded \/ proc' = "down")
    BY Settling
  <2>2. rec'[t] = 0
    BY <1>1, <1>4 DEF SettleLease, EndRunner, EndReconcile, Forget, Counters
  <2>3. OwnerOfRow(t)'
    <3>1. run'[t].at \notin Acquired /\ ~(rec'[t] > 0)
      BY <2>1, <2>2 DEF Works
    <3>. QED  BY <3>1 DEF OwnerOfRow
  <2>4. EffectOnRecord(t)'
    BY <1>1, <1>2, <1>3 DEF EffectOnRecord, Counters
  <2>5. RowSound(t)'
    BY <1>1, <1>2, <2>1, BoundAssumption DEF TaskSound, RowSound, RowShape
  <2>. QED  BY <2>3, <2>4, <2>5 DEF TaskSound
<1>. QED  BY <1>4, <1>5, HolderKept, OneTaskWorks

-----------------------------------------------------------------------------
LEMMA SpawnWorks ==
  ASSUME WInv, LInv', NEW t \in Tasks, AskSpawn(t) \/ Spawn(t)
  PROVE  WInv'
<1>1. CASE AskSpawn(t)
  BY <1>1 DEF AskSpawn, WInv, Counters, OneHolder, Works, TaskSound, OwnerOfRow, RowSound,
     EffectOnRecord, Admitted
<1>2. CASE Spawn(t)
  <2>1. row[t].status = "none" /\ row[t] \in RowShape /\ TaskSound(t) /\ Counters
    BY <1>2 DEF Spawn, WInv, LInv, WorkerOfRow, Shapes
  <2>2. /\ row'[t] = [row[t] EXCEPT !.status = "pending"]
        /\ \A q \in Tasks \ {t} : row'[q] = row[q]
    BY <1>2 DEF Spawn, WInv, LInv, Shapes
  <2>3. row'[t].status = "pending" /\ row'[t].effect = row[t].effect /\ row'[t].done = row[t].done
    BY <2>1, <2>2 DEF RowShape
  <2>4. run'[t].at = "wait" /\ \A q \in Tasks \ {t} : run'[q] = run[q]
    BY <1>2 DEF Spawn, WInv, LInv, Shapes, RunShape
  <2>5. \A q \in Tasks \ {t} : lease'[q] = lease[q]
    BY <1>2 DEF Spawn, WInv, LInv, Shapes
  <2>6. Others(t) /\ NoNewHolder /\ Counters'
    BY <1>2, <2>1, <2>2, <2>4, <2>5 DEF Spawn, Others, NoNewHolder, Works, Counters
  <2>7. TaskSound(t)'
    BY <1>2, <2>1, <2>3, <2>4 DEF Spawn, TaskSound, OwnerOfRow, RowSound, EffectOnRecord, Counters
  <2>. QED  BY <2>6, <2>7, HolderKept, OneTaskWorks
<1>. QED  BY <1>1, <1>2

(* The holder lock is taken while nobody works on a task under it.         *)
LEMMA HoldWorks ==
  ASSUME WInv, LInv', NEW t \in Tasks, Hold(t)
  PROVE  WInv'
<1>1. /\ run[t] \in RunShape /\ run[t].at = "wait" /\ run'[t].at = "claim"
      /\ \A q \in Tasks \ {t} : run'[q] = run[q]
      /\ UNCHANGED <<row, lease, session, proc, rec, begun, confirmed>>
  BY DEF Hold, WInv, LInv, Shapes, RunShape
<1>2. OneHolder'
  <2>1. \A q \in Tasks : Shard[q] = Shard[t] => ~Works(q) /\ rec[q] = 0
    BY DEF Hold, HolderFree, Works
  <2>. QED  BY <1>1, <2>1 DEF OneHolder, WInv, Works
<1>3. Others(t) /\ TaskSound(t)' /\ Counters'
  BY <1>1 DEF Others, WInv, TaskSound, OwnerOfRow, RowSound, EffectOnRecord, Counters, Admitted
<1>. QED  BY <1>2, <1>3, OneTaskWorks

LEMMA ClaimWorks ==
  ASSUME WInv, LInv', NEW t \in Tasks, Claim(t)
  PROVE  WInv'
<1>0. /\ run[t].at = "claim" /\ row[t] \in RowShape /\ row[t].status \in {"pending", "running"}
      /\ UNCHANGED <<session, begun, confirmed>>
  BY DEF Claim, WInv, LInv, Shapes
<1>1. CASE Finish(t, "reconcile_required", EndRunner(t)) /\ row[t].effect
  BY <1>0, <1>1, FinishingWorks
<1>2. CASE /\ ~row[t].effect
           /\ lease' = [lease EXCEPT ![t] = [state |-> "active", token |-> @.token + 1]]
           /\ row' = [row EXCEPT ![t].status = "running", ![t].token = @ + 1]
           /\ run' = [run EXCEPT ![t] = [at |-> FirstPlace(t), token |-> row'[t].token, effect |-> FALSE]]
           /\ UNCHANGED <<proc, asked, rec>>
  <2>1. /\ row'[t].status = "running" /\ row'[t].effect = FALSE /\ row'[t].done = row[t].done
        /\ \A q \in Tasks \ {t} : row'[q] = row[q]
    BY <1>0, <1>2 DEF WInv, LInv, Shapes, RowShape
  <2>2. /\ run'[t].token = row'[t].token /\ run'[t].effect = FALSE /\ run'[t].at \in Acquired
        /\ \A q \in Tasks \ {t} : run'[q] = run[q]
    BY <1>2 DEF WInv, LInv, Shapes, FirstPlace
  <2>3. lease'[t].state = "active" /\ \A q \in Tasks \ {t} : lease'[q] = lease[q]
    BY <1>2 DEF WInv, LInv, Shapes
  <2>4. Counters /\ TaskSound(t) /\ rec[t] = 0
    BY <1>0 DEF WInv, OneHolder, Works
  <2>5. Others(t) /\ NoNewHolder /\ Counters'
    BY <1>0, <1>2, <2>1, <2>2, <2>3, <2>4 DEF Others, NoNewHolder, Works, Counters
  <2>6. TaskSound(t)'
    BY <1>0, <1>2, <2>1, <2>2, <2>3, <2>4
       DEF TaskSound, OwnerOfRow, RowSound, EffectOnRecord, Counters
  <2>. QED  BY <2>5, <2>6, HolderKept, OneTaskWorks
<1>. QED  BY <1>1, <1>2 DEF Claim

(* The mark is on the row before the effect begins.                        *)
LEMMA MarkWorks ==
  ASSUME WInv, LInv', NEW t \in Tasks, Mark(t)
  PROVE  WInv'
<1>1. /\ row[t] \in RowShape /\ run[t] \in RunShape /\ run[t].at = "mark"
      /\ TaskSound(t) /\ Counters /\ row[t].status = "running" /\ rec[t] = 0
  BY DEF Mark, WInv, LInv, Shapes, WorkerOfRow, OneHolder, Works
<1>2. /\ row'[t].status = "running" /\ row'[t].effect = TRUE /\ row'[t].done = row[t].done
      /\ row'[t].token = row[t].token
      /\ \A q \in Tasks \ {t} : row'[q] = row[q]
  BY <1>1 DEF Mark, WInv, LInv, Shapes, RowShape
<1>3. /\ run'[t].at = "step" /\ run'[t].effect = TRUE /\ run'[t].token = run[t].token
      /\ \A q \in Tasks \ {t} : run'[q] = run[q]
  BY <1>1 DEF Mark, WInv, LInv, Shapes, RunShape
<1>4. /\ begun'[t] = begun[t] + 1 /\ begun' \in [Tasks -> Nat]
      /\ \A q \in Tasks \ {t} : begun'[q] = begun[q]
      /\ UNCHANGED <<lease, session, proc, asked, rec, confirmed>>
  BY <1>1 DEF Mark, Counters
<1>5. Others(t) /\ NoNewHolder /\ Counters'
  BY <1>1, <1>2, <1>3, <1>4 DEF Others, NoNewHolder, Works, Counters
<1>6. begun[t] = confirmed[t]
  BY <1>1 DEF TaskSound, OwnerOfRow, EffectOnRecord, Counters
<1>7. TaskSound(t)'
  BY <1>1, <1>2, <1>3, <1>4, <1>6 DEF TaskSound, OwnerOfRow, RowSound, EffectOnRecord, Counters
<1>. QED  BY <1>5, <1>7, HolderKept, OneTaskWorks

LEMMA CommitWorks ==
  ASSUME WInv, LInv', NEW t \in Tasks, CommitStep(t)
  PROVE  WInv'
<1>1. /\ row[t] \in RowShape /\ run[t] \in RunShape /\ run[t].at = "commit"
      /\ TaskSound(t) /\ Counters /\ row[t].status = "running" /\ rec[t] = 0
  BY DEF CommitStep, WInv, LInv, Shapes, OneHolder, Works
<1>2. confirmed' = [confirmed EXCEPT ![t] = begun[t]] /\ UNCHANGED <<session, begun>>
  BY DEF CommitStep
<1>3. CASE /\ row' = [row EXCEPT ![t].done = @ + 1, ![t].effect = FALSE, ![t].status = "completed"]
           /\ SettleLease(t, "completed", EndRunner(t))
  BY <1>1, <1>2, <1>3, CompletingWorks
<1>4. CASE /\ row[t].done + 1 < MaxSteps
           /\ row' = [row EXCEPT ![t].done = @ + 1, ![t].effect = FALSE]
           /\ run' = [run EXCEPT ![t].at = FirstPlace(t), ![t].effect = FALSE]
           /\ UNCHANGED <<lease, proc, asked, rec>>
  <2>1. /\ row'[t].status = "running" /\ row'[t].effect = FALSE /\ row'[t].done = row[t].done + 1
        /\ row'[t].token = row[t].token
        /\ \A q \in Tasks \ {t} : row'[q] = row[q]
    BY <1>1, <1>4 DEF WInv, LInv, Shapes, RowShape
  <2>2. /\ run'[t].at = FirstPlace(t) /\ run'[t].effect = FALSE /\ run'[t].token = run[t].token
        /\ \A q \in Tasks \ {t} : run'[q] = run[q]
    BY <1>1, <1>4 DEF WInv, LInv, Shapes, RunShape
  <2>3. /\ confirmed'[t] = begun[t] /\ \A q \in Tasks \ {t} : confirmed'[q] = confirmed[q]
        /\ confirmed' \in [Tasks -> Nat]
    BY <1>1, <1>2 DEF Counters
  <2>4. Others(t) /\ NoNewHolder /\ Counters'
    BY <1>1, <1>2, <1>4, <2>1, <2>2, <2>3 DEF Others, NoNewHolder, Works, Counters
  <2>5. TaskSound(t)'
    <3>1. OwnerOfRow(t)'
      BY <1>1, <1>4, <2>1, <2>2 DEF TaskSound, OwnerOfRow
    <3>2. row[t].done + 1 <= MaxSteps
      BY <1>1, <1>4, BoundAssumption DEF RowShape
    <3>3. RowSound(t)'
      BY <1>4, <2>1, <3>2 DEF RowSound
    <3>4. EffectOnRecord(t)'
      BY <1>1, <1>2, <2>3 DEF EffectOnRecord, Counters
    <3>. QED  BY <3>1, <3>3, <3>4 DEF TaskSound
  <2>. QED  BY <2>4, <2>5, HolderKept, OneTaskWorks
<1>. QED  BY <1>3, <1>4 DEF CommitStep

LEMMA RunnerWorks ==
  ASSUME WInv, LInv', NEW t \in Tasks, Runner(t)
  PROVE  WInv'
<1>1. CASE SkipClaim(t)
  <2>1. /\ run[t] \in RunShape /\ run[t].at = "claim" /\ run'[t] = NoRunner
        /\ \A q \in Tasks \ {t} : run'[q] = run[q]
        /\ UNCHANGED <<row, lease, session, proc, rec, begun, confirmed>>
    BY <1>1 DEF SkipClaim, EndRunner, WInv, LInv, Shapes
  <2>2. Others(t) /\ NoNewHolder /\ Counters'
    BY <2>1 DEF Others, NoNewHolder, Works, NoRunner, WInv, Counters
  <2>3. TaskSound(t)'
    BY <2>1 DEF WInv, TaskSound, OwnerOfRow, RowSound, EffectOnRecord, NoRunner, Admitted
  <2>. QED  BY <2>2, <2>3, HolderKept, OneTaskWorks
<1>2. CASE StepReturns(t)
  <2>1. /\ run[t] \in RunShape /\ run[t].at = "step" /\ run'[t].at = "commit"
        /\ run'[t].token = run[t].token /\ run'[t].effect = run[t].effect
        /\ \A q \in Tasks \ {t} : run'[q] = run[q]
        /\ UNCHANGED <<row, lease, session, proc, rec, begun, confirmed>>
    BY <1>2 DEF StepReturns, WInv, LInv, Shapes, RunShape
  <2>2. Others(t) /\ NoNewHolder /\ Counters'
    BY <2>1 DEF Others, NoNewHolder, Works, WInv, Counters
  <2>3. TaskSound(t)'
    BY <2>1 DEF WInv, TaskSound, OwnerOfRow, RowSound, EffectOnRecord, Admitted
  <2>. QED  BY <2>2, <2>3, HolderKept, OneTaskWorks
<1>3. CASE RunnerLosesSession(t)
  <2>1. row[t].status = "running" /\ row[t].effect = run[t].effect /\ run[t].effect \in BOOLEAN
    BY <1>3 DEF RunnerLosesSession, WInv, LInv, Shapes, RunShape, WorkerOfRow, TaskSound, OwnerOfRow
  <2>2. /\ UnknownOr(run[t].effect, "cancelled") \in {"cancelled", "reconcile_required"}
        /\ UnknownOr(run[t].effect, "cancelled") = "reconcile_required" <=> run[t].effect
    BY <2>1 DEF UnknownOr
  <2>3. /\ Finish(t, UnknownOr(run[t].effect, "cancelled"), EndRunner(t))
        /\ UNCHANGED <<session, begun, confirmed>>
    BY <1>3 DEF RunnerLosesSession
  <2>. QED  BY <2>1, <2>2, <2>3, FinishingWorks
<1>. QED  BY <1>1, <1>2, <1>3, HoldWorks, ClaimWorks, MarkWorks, CommitWorks DEF Runner

LEMMA CallWorks ==
  ASSUME WInv, LInv', NEW t \in Tasks, StepFails(t) \/ Cancel(t) \/ Delete(t)
  PROVE  WInv'
<1>1. CASE StepFails(t)
  <2>1. row[t].status = "running" /\ row[t].effect = run[t].effect /\ run[t].effect \in BOOLEAN
    BY <1>1 DEF StepFails, WInv, LInv, Shapes, RunShape, WorkerOfRow, TaskSound, OwnerOfRow
  <2>2. /\ UnknownOr(run[t].effect, "failed") \in {"failed", "reconcile_required"}
        /\ UnknownOr(run[t].effect, "failed") = "reconcile_required" <=> run[t].effect
    BY <2>1 DEF UnknownOr
  <2>3. /\ Finish(t, UnknownOr(run[t].effect, "failed"), EndRunner(t))
        /\ UNCHANGED <<session, begun, confirmed>>
    BY <1>1 DEF StepFails
  <2>. QED  BY <2>1, <2>2, <2>3, FinishingWorks
<1>2. CASE Cancel(t)
  <2>1. row[t].effect \in BOOLEAN /\ row[t].status \in Active
    BY <1>2 DEF Cancel, WInv, LInv, Shapes, RowShape
  <2>2. /\ UnknownOr(row[t].effect, "cancelled") \in {"cancelled", "reconcile_required"}
        /\ UnknownOr(row[t].effect, "cancelled") = "reconcile_required" <=> row[t].effect
    BY <2>1 DEF UnknownOr
  <2>3. /\ Finish(t, UnknownOr(row[t].effect, "cancelled"), EndRunner(t))
        /\ UNCHANGED <<session, begun, confirmed>>
    BY <1>2 DEF Cancel
  <2>. QED  BY <2>1, <2>2, <2>3, FinishingWorks
<1>3. CASE Delete(t)
  <2>1. /\ Finish(t, "deleted", EndRunner(t)) /\ row[t].status \notin Active
        /\ UNCHANGED <<session, begun, confirmed>>
    BY <1>3 DEF Delete
  <2>. QED  BY <2>1, FinishingWorks
<1>. QED  BY <1>1, <1>2, <1>3

LEMMA ReconcileWorks ==
  ASSUME WInv, LInv', NEW t \in Tasks,
         Reconcile(t) \/ ReconcileCommits(t) \/ ReconcileEnds(t)
  PROVE  WInv'
<1>0. row[t] \in RowShape /\ run[t] \in RunShape /\ TaskSound(t) /\ Counters
  BY DEF WInv, LInv, Shapes
<1>1. CASE Reconcile(t)
  <2>1. /\ row[t].status = "reconcile_required" /\ ~Works(t)
        /\ \A q \in Tasks : Shard[q] = Shard[t] => ~Works(q) /\ rec[q] = 0
    BY <1>1 DEF Reconcile, HolderFree, Works
  <2>2. /\ row'[t].status = row[t].status /\ row'[t].effect = row[t].effect
        /\ row'[t].done = row[t].done /\ row'[t].token \in Nat
        /\ \A q \in Tasks \ {t} : row'[q] = row[q]
    BY <1>0, <1>1 DEF Reconcile, WInv, LInv, Shapes, RowShape
  <2>3. /\ rec' \in [Tasks -> Nat] /\ \A q \in Tasks \ {t} : rec'[q] = rec[q]
    BY <1>0, <1>1, <2>2 DEF Reconcile, Counters
  <2>4. \A q \in Tasks \ {t} : lease'[q] = lease[q]
    BY <1>1 DEF Reconcile, WInv, LInv, Shapes
  <2>5. Others(t) /\ Counters'
    BY <1>0, <1>1, <2>2, <2>3, <2>4 DEF Reconcile, Others, Counters
  <2>6. OneHolder'
    BY <1>1, <2>1, <2>3 DEF Reconcile, OneHolder, WInv, Works
  <2>7. TaskSound(t)'
    BY <1>0, <1>1, <2>1, <2>2
       DEF Reconcile, TaskSound, OwnerOfRow, RowSound, EffectOnRecord, Works, Admitted
  <2>. QED  BY <2>5, <2>6, <2>7, OneTaskWorks
<1>2. CASE ReconcileCommits(t)
  <2>1. /\ row[t].status = "reconcile_required" /\ rec[t] # 0 /\ ~Works(t)
        /\ confirmed' = [confirmed EXCEPT ![t] = begun[t]] /\ UNCHANGED <<session, begun>>
    BY <1>0, <1>2 DEF ReconcileCommits, WInv, OneHolder, Counters
  <2>2. CASE /\ row' = [row EXCEPT ![t].done = @ + 1, ![t].effect = FALSE, ![t].status = "completed"]
             /\ SettleLease(t, "completed", EndReconcile(t))
    BY <2>1, <2>2, CompletingWorks
  <2>3. CASE /\ row[t].done + 1 < MaxSteps
             /\ row' = [row EXCEPT ![t].done = @ + 1, ![t].effect = FALSE, ![t].status = "running"]
             /\ rec' = [rec EXCEPT ![t] = 0]
             /\ run' = [run EXCEPT ![t].at = "wait"]
             /\ UNCHANGED <<lease, proc, asked>>
    <3>1. /\ row'[t].status = "running" /\ row'[t].effect = FALSE /\ row'[t].done = row[t].done + 1
          /\ \A q \in Tasks \ {t} : row'[q] = row[q]
      BY <1>0, <2>3 DEF WInv, LInv, Shapes, RowShape
    <3>2. run'[t].at = "wait" /\ \A q \in Tasks \ {t} : run'[q] = run[q]
      BY <1>0, <2>3 DEF WInv, LInv, Shapes, RunShape
    <3>3. /\ confirmed'[t] = begun[t] /\ \A q \in Tasks \ {t} : confirmed'[q] = confirmed[q]
          /\ confirmed' \in [Tasks -> Nat]
      BY <1>0, <2>1 DEF Counters
    <3>4. /\ rec'[t] = 0 /\ \A q \in Tasks \ {t} : rec'[q] = rec[q]
          /\ rec' \in [Tasks -> Nat]
      BY <1>0, <2>3 DEF Counters
    <3>5. Others(t) /\ NoNewHolder /\ Counters'
      BY <1>0, <2>1, <2>3, <3>1, <3>2, <3>3, <3>4 DEF Others, NoNewHolder, Works, Counters
    <3>6. OwnerOfRow(t)'
      BY <3>2, <3>4 DEF OwnerOfRow
    <3>7. row[t].done + 1 <= MaxSteps
      BY <1>0, <2>3, BoundAssumption DEF RowShape
    <3>8. RowSound(t)' /\ EffectOnRecord(t)'
      BY <1>0, <2>1, <2>3, <3>1, <3>3, <3>7 DEF RowSound, EffectOnRecord, Counters
    <3>. QED  BY <3>5, <3>6, <3>8, HolderKept, OneTaskWorks DEF TaskSound
  <2>. QED  BY <1>2, <2>2, <2>3 DEF ReconcileCommits
<1>3. CASE ReconcileEnds(t)
  <2>1. /\ rec'[t] = 0 /\ \A q \in Tasks \ {t} : rec'[q] = rec[q]
        /\ rec' \in [Tasks -> Nat]
        /\ UNCHANGED <<row, lease, session, proc, run, begun, confirmed>>
    BY <1>0, <1>3 DEF ReconcileEnds, EndReconcile, Counters
  <2>2. Others(t) /\ NoNewHolder /\ Counters' /\ TaskSound(t)'
    BY <1>0, <2>1
       DEF Others, NoNewHolder, Works, Counters, TaskSound, OwnerOfRow, RowSound, EffectOnRecord, Admitted
  <2>. QED  BY <2>2, HolderKept, OneTaskWorks
<1>. QED  BY <1>1, <1>2, <1>3

-----------------------------------------------------------------------------
(* A stop leaves a marked task to a reconciliation, a start settles what   *)
(* the last process has left.                                              *)
LEMMA ProcessWorks ==
  ASSUME WInv, LInv', Stop \/ Die \/ Start
  PROVE  WInv'
<1>0. ASSUME NEW t \in Tasks
      PROVE  row[t] \in RowShape /\ TaskSound(t) /\ WorkerOfRow(t)
  BY DEF WInv, LInv, Shapes
<1>1. CASE Stop
  <2>1. /\ \A t \in Tasks : run'[t].at = "none"
        /\ UNCHANGED <<lease, session, rec, begun, confirmed>>
        /\ proc = "up" /\ proc' = "stopping"
    BY <1>1 DEF Stop, NoRunner
  <2>2. ASSUME NEW t \in Tasks
        PROVE  /\ \/ row'[t].status = row[t].status
                  \/ row[t].status = "running" /\ row'[t].status = UnknownOr(row[t].effect, "pending")
               /\ row'[t].effect = row[t].effect /\ row'[t].done = row[t].done
    BY <1>0, <1>1 DEF Stop, RowShape, WorkerOfRow, TaskSound, OwnerOfRow
  <2>3. ASSUME NEW t \in Tasks
        PROVE  TaskSound(t)'
    BY <1>0, <2>1, <2>2 DEF TaskSound, OwnerOfRow, RowSound, EffectOnRecord, UnknownOr, Admitted
  <2>4. NoNewHolder /\ Counters'
    BY <2>1 DEF NoNewHolder, Works, WInv, Counters
  <2>. QED  BY <2>3, <2>4, HolderKept DEF WInv
<1>2. CASE Die
  <2>1. /\ run' = [t \in Tasks |-> NoRunner] /\ rec' = [t \in Tasks |-> 0] /\ proc' = "down"
        /\ UNCHANGED <<row, lease, session, begun, confirmed>>
    BY <1>2 DEF Die, Forget
  <2>2. NoNewHolder /\ Counters' /\ \A t \in Tasks : TaskSound(t)'
    BY <1>0, <2>1 DEF NoNewHolder, Works, NoRunner, WInv, Counters, TaskSound, OwnerOfRow,
       RowSound, EffectOnRecord
  <2>. QED  BY <2>2, HolderKept DEF WInv
<1>3. CASE Start
  <2>1. /\ \A t \in Tasks : run'[t].at \in {"none", "wait"}
        /\ UNCHANGED <<row, session, rec, begun, confirmed>> /\ proc' = "up"
    BY <1>3 DEF Start, NoRunner
  <2>2. ASSUME NEW t \in Tasks
        PROVE  row[t].status \in Ended /\ Admitted => lease'[t].state \in LeaseEnded
    <3>1. lease[t] \in LeaseShape
      BY DEF WInv, LInv, Shapes
    <3>. QED  BY <1>3, <3>1 DEF Start, Settled, OutcomeOf, LeaseShape
  <2>3. NoNewHolder /\ Counters' /\ \A t \in Tasks : TaskSound(t)'
    BY <1>0, <2>1, <2>2 DEF NoNewHolder, Works, WInv, Counters, TaskSound, OwnerOfRow,
       RowSound, EffectOnRecord, Admitted
  <2>. QED  BY <2>3, HolderKept DEF WInv
<1>. QED  BY <1>1, <1>2, <1>3

LEMMA SessionWorks ==
  ASSUME WInv, LInv', CheckForDeletion \/ MarkDeleting \/ UNCHANGED vars
  PROVE  WInv'
<1>1. /\ UNCHANGED <<row, lease, proc, run, rec, begun, confirmed>>
      /\ session' \in {session, "checked", "deleting"} /\ (Admitted' => Admitted)
  BY DEF CheckForDeletion, MarkDeleting, vars, Admitted
<1>2. NoNewHolder /\ Counters' /\ \A t \in Tasks : TaskSound(t)'
  BY <1>1 DEF NoNewHolder, Works, WInv, Counters, TaskSound, OwnerOfRow, RowSound, EffectOnRecord
<1>. QED  BY <1>2, HolderKept DEF WInv

LEMMA StepWorks ==
  ASSUME WInv, [Next]_vars
  PROVE  WInv'
<1>1. LInv'
  BY StepSound DEF WInv, Sound
<1>. QED  BY <1>1, SpawnWorks, RunnerWorks, CallWorks, ReconcileWorks, ProcessWorks, SessionWorks
          DEF Next

(* What ties runners, reconciliations, marks and counters to the rows      *)
(* holds of background_task_registry.py.                                   *)
THEOREM WorkInvariance == Spec => []WInv
  BY InitWorks, StepWorks, PTL DEF Spec

(* No death, stop, cancellation or deletion between the mark of a task and *)
(* the commit of its step lets an effect begin again or the task be closed *)
(* before a reconciliation has confirmed it.                               *)
THEOREM EffectsAreNotReplayed == Spec => []NoBlindReplay
<1>1. WInv => NoBlindReplay
  BY DEF WInv, TaskSound, EffectOnRecord, NoBlindReplay
<1>. QED  BY <1>1, WorkInvariance, PTL

(* Runner, row and lease agree: the runner that works on a task owns its   *)
(* row and its lock, and the lease of a task is open exactly as long as it *)
(* must be.                                                                *)
THEOREM BackgroundInvariance == Spec => []BackgroundInv
<1>1. ASSUME WInv
      PROVE  TypeOK
  <2>1. ASSUME NEW t \in Tasks
        PROVE  row[t] \in [status : Active \cup Ended \cup {"none"}, token : Nat,
                           effect : BOOLEAN, done : 0..MaxSteps]
    BY <1>1, BoundAssumption DEF WInv, LInv, Shapes, RowShape, TaskSound, RowSound
  <2>2. row \in [Tasks -> [status : Active \cup Ended \cup {"none"}, token : Nat,
                           effect : BOOLEAN, done : 0..MaxSteps]]
    BY <1>1, <2>1 DEF WInv, LInv, Shapes
  <2>. QED  BY <1>1, <2>2 DEF TypeOK, WInv, LInv, Shapes, LeaseShape, RunShape, Counters
<1>2. WInv => RunnerOwnsTask
  BY DEF WInv, LInv, WorkerOfRow, TaskSound, OwnerOfRow, OneHolder, Works, RunnerOwnsTask
<1>3. WInv => LeaseFollowsTask
  BY DEF WInv, LInv, LeaseOfRow, TaskSound, RowSound, LeaseFollowsTask
<1>. QED  BY <1>1, <1>2, <1>3, WorkInvariance, PTL DEF BackgroundInv

-----------------------------------------------------------------------------
(* What may happen to a task that has ended, and to any task of a session  *)
(* that is being deleted.                                                  *)
Final(t) ==
    /\ row[t].status \in Ended => row'[t].status \in {row[t].status, "deleted"}
    /\ session = "deleting" => row'[t].done = row[t].done /\ begun'[t] = begun[t]

(* _finish writes no step and starts no effect.                            *)
LEMMA FinishIsFinal ==
  ASSUME LInv, NEW t \in Tasks, NEW status, Finish(t, status, EndRunner(t)), UNCHANGED begun,
         row[t].status \in Ended => status = "deleted"
  PROVE  \A q \in Tasks : Final(q)
<1>1. /\ row'[t] = [row[t] EXCEPT !.status = status] /\ row[t] \in RowShape
      /\ \A q \in Tasks \ {t} : row'[q] = row[q]
  BY DEF Finish, LInv, Shapes
<1>2. row'[t].status = status /\ row'[t].done = row[t].done
  BY <1>1 DEF RowShape
<1>. QED  BY <1>1, <1>2 DEF Final

(* Every other step on t is taken while the session is admitted and only   *)
(* moves a row that has not ended.                                         *)
LEMMA AdmittedIsFinal ==
  ASSUME NEW t \in Tasks, \A q \in Tasks \ {t} : row'[q] = row[q] /\ begun'[q] = begun[q],
         row[t].status \notin Ended, Admitted
  PROVE  \A q \in Tasks : Final(q)
  BY DEF Final, Admitted

LEMMA StepIsFinal ==
  ASSUME WInv, [Next]_vars
  PROVE  \A t \in Tasks : Final(t)
<1>0. LInv /\ Counters /\ \A t \in Tasks : row[t] \in RowShape
  BY DEF WInv, LInv, Shapes
<1>1. CASE UNCHANGED <<row, begun>>
  BY <1>1 DEF Final
<1>2. ASSUME NEW t \in Tasks, Spawn(t)
      PROVE  \A q \in Tasks : Final(q)
  <2>1. /\ row[t].status = "none" /\ Admitted
        /\ \A q \in Tasks \ {t} : row'[q] = row[q] /\ begun'[q] = begun[q]
    BY <1>0, <1>2 DEF Spawn, LInv, WorkerOfRow, Shapes
  <2>. QED  BY <2>1, AdmittedIsFinal
<1>3. ASSUME NEW t \in Tasks, Claim(t) \/ Mark(t) \/ CommitStep(t) \/ Reconcile(t)
                              \/ ReconcileCommits(t)
      PROVE  \A q \in Tasks : Final(q)
  <2>1. row[t].status \notin Ended /\ Admitted
    BY <1>0, <1>3 DEF Claim, Mark, CommitStep, Reconcile, ReconcileCommits, LInv, WorkerOfRow
  <2>2. \A q \in Tasks \ {t} : row'[q] = row[q] /\ begun'[q] = begun[q]
    <3>1. CASE Claim(t) \/ Reconcile(t)
      BY <1>0, <3>1 DEF Claim, Finish, Reconcile, LInv, Shapes, Counters
    <3>2. CASE Mark(t)
      BY <1>0, <3>2 DEF Mark, LInv, Shapes, Counters
    <3>3. CASE CommitStep(t) \/ ReconcileCommits(t)
      BY <1>0, <3>3 DEF CommitStep, ReconcileCommits, LInv, Shapes, Counters
    <3>. QED  BY <1>3, <3>1, <3>2, <3>3
  <2>. QED  BY <2>1, <2>2, AdmittedIsFinal
<1>4. ASSUME NEW t \in Tasks, RunnerLosesSession(t)
      PROVE  \A q \in Tasks : Final(q)
  <2>1. row[t].status \notin Ended
    BY <1>0, <1>4 DEF RunnerLosesSession, LInv, WorkerOfRow
  <2>. QED  BY <1>0, <1>4, <2>1, FinishIsFinal DEF RunnerLosesSession
<1>5. ASSUME NEW t \in Tasks, StepFails(t)
      PROVE  \A q \in Tasks : Final(q)
  <2>1. row[t].status \notin Ended
    BY <1>0, <1>5 DEF StepFails, LInv, WorkerOfRow
  <2>. QED  BY <1>0, <1>5, <2>1, FinishIsFinal DEF StepFails
<1>6. ASSUME NEW t \in Tasks, Cancel(t)
      PROVE  \A q \in Tasks : Final(q)
  BY <1>0, <1>6, FinishIsFinal DEF Cancel
<1>7. ASSUME NEW t \in Tasks, Delete(t)
      PROVE  \A q \in Tasks : Final(q)
  BY <1>0, <1>7, FinishIsFinal DEF Delete
<1>8. CASE Stop
  <2>1. ASSUME NEW t \in Tasks
        PROVE  row'[t].done = row[t].done /\ (row[t].status \in Ended => row'[t] = row[t])
    BY <1>0, <1>8 DEF Stop, RowShape, LInv, WorkerOfRow
  <2>. QED  BY <1>8, <2>1 DEF Stop, Final
<1>9. CASE Die \/ Start \/ CheckForDeletion \/ MarkDeleting \/ UNCHANGED vars
  BY <1>1, <1>9 DEF Die, Start, CheckForDeletion, MarkDeleting, vars
<1>10. ASSUME NEW t \in Tasks,
              AskSpawn(t) \/ Hold(t) \/ SkipClaim(t) \/ StepReturns(t) \/ ReconcileEnds(t)
       PROVE  \A q \in Tasks : Final(q)
  BY <1>1, <1>10 DEF AskSpawn, Hold, SkipClaim, StepReturns, ReconcileEnds
<1>. QED  BY <1>2, <1>3, <1>4, <1>5, <1>6, <1>7, <1>8, <1>9, <1>10 DEF Next, Runner

(* An ended task is only ever deleted, and no step is committed and no     *)
(* effect begun for a session that is being deleted, whatever runner or    *)
(* reconciliation was under way when the deletion was recorded.            *)
THEOREM EndIsFinal == Spec => EndedStaysEnded
<1>1. WInv /\ [Next]_vars =>
        [\A t \in Tasks :
            /\ row[t].status \in Ended => row'[t].status \in {row[t].status, "deleted"}
            /\ session = "deleting" => row'[t].done = row[t].done /\ begun'[t] = begun[t]]_vars
  BY StepIsFinal DEF Final
<1>. QED  BY <1>1, WorkInvariance, PTL DEF Spec, EndedStaysEnded
=============================================================================
