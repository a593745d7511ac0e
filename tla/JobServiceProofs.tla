-------------------------- MODULE JobServiceProofs --------------------------
(***************************************************************************)
(* Proofs about JobService for any set of jobs, any delivery policies and  *)
(* any number of crashes, write faults and control requests.               *)
(*                                                                         *)
(* The properties are not inductive by themselves: whether a finalizer may *)
(* settle a job, whether a task may still move its status and whether a    *)
(* claim may be taken depend on where the task, its callback and the       *)
(* coroutines are.  JInv says so job by job: ShapeOf relates the fields of *)
(* a JobState to the slot, DurableOf to the row and to the published       *)
(* events, PlaceOf to the coroutines that act for the job, RowOf is about  *)
(* the row alone.  LoadedInv adds where a queued job waits, which needs    *)
(* that no client cancels a job before the mirror is loaded.               *)
(* OwnInv adds that the job that is claimed or started shares the claims   *)
(* of the Thread with nobody, which bounds what executors that ignored     *)
(* their cancellation may do; CloseInv adds who closes the claim of a job. *)
(***************************************************************************)
EXTENDS JobService, TLAPS

Reached == {"unloaded", "queued", "running", "paused", "cancelling",
            "completed", "failed", "cancelled", "timed_out"}
Active(j) == job[j].status \in {"running", "paused", "cancelling"}
Executing == {"executing", "stopping_cancel", "stopping_timeout"}
Ending == {"releasing", "releasing_error"}
Canonical == {"cancelled", "timed_out", "completed"}

Labels == {"idle", "wait_task", "finalize", "close", "handover",
           "select", "launch", "install", "wait_control", "notify"}

Saw(j, event) == \E i \in DOMAIN events[j] : events[j][i] = event

\* A job that is not done has the slot and the claim; one that never started
\* has neither task nor callback; what runs in the task agrees with the status.
ShapeOf(j) ==
    /\ job[j].status \in Reached
    /\ job[j].status \in {"unloaded", "queued"} =>
        /\ job[j].task = "none" /\ job[j].callback = "none"
        /\ ~job[j].restoring /\ ~job[j].resuming
    /\ Active(j) => slot = j /\ job[j].claim
    /\ job[j].task \in Executing \cup {"starting"} => Active(j) /\ job[j].callback = "none"
    /\ job[j].task = "settle_cancelled" => job[j].status = "cancelling"
    /\ job[j].task = "none" => job[j].abandoned = {}
    /\ ExecutorLive(j) => job[j].task \in Executing
    /\ job[j].restoring =>
        /\ job[j].status = "running" /\ ~job[j].resuming
        /\ job[j].task = "none" /\ job[j].callback = "none"

\* What memory says of a job is backed by its row.
DurableOf(j) ==
    /\ job[j].status # "unloaded" => row[j] # "absent"
    /\ job[j].executor \in {"finishing", "returned"} => row[j] = "terminal"
    /\ job[j].restoring \/ Unstarted(j) => row[j] = "claimed"
    /\ job[j].status \in Canonical => row[j] = "terminal"
    /\ Saw(j, "cancelled") => row[j] = "terminal" /\ job[j].status \in {"unloaded", "cancelled"}
    /\ j \in waiting => job[j].status = "queued"
    /\ j \in loaded /\ job[j].status = "unloaded" => row[j] = "queued"

\* Who dispatches for a job: its task only once it ends, a finalizer only when
\* no task is left and the job is being cancelled or has ended.
PlaceOf(j) ==
    /\ pc[Task(j)] # "idle" => job[j].task \in Ending
    /\ pc[Task(j)] \notin {"wait_task", "finalize"}
    /\ \A p \in {Fin(j), Ctl(j)} :
        /\ pc[p] = "finalize" => ~TaskAlive(j)
        /\ pc[p] \in {"wait_task", "finalize"} => job[j].status = "cancelling" \/ Terminal(j)
    /\ \A p \in {Task(j), Fin(j), Ctl(j)} : pc[p] = "handover" => Terminal(j)

\* The rows: distinct commits, a row is closed exactly when its execution is
\* settled, and only the first open row is claimed or started.
RowOf(j) ==
    /\ row[j] = "absent" <=> commit[j] = 0
    /\ commit[j] <= lastCommit
    /\ row[j] = "terminal" <=> outcome[j] # "unknown"
    /\ row[j] \in {"claimed", "started"} => IsDurableHead(j)
    /\ \A k \in Jobs : commit[k] = commit[j] /\ commit[j] # 0 => k = j

CancelledOnceOf(j) ==
    \A h, i \in DOMAIN events[j] :
        events[j][h] = "cancelled" /\ events[j][i] = "cancelled" => h = i

\* The slot is not behind any open row; one claim at most; a dead backend
\* knows no job.
SlotSound ==
    /\ slot # NoJob => /\ job[slot].status \notin {"unloaded", "queued"}
                       /\ \A k \in Jobs : Open(k) => commit[slot] <= commit[k]
    /\ \A j, k \in Jobs : job[j].claim /\ job[k].claim => j = k
    /\ ~up => \A j \in Jobs : job[j] = Unloaded

JobOf(j) == ShapeOf(j) /\ DurableOf(j) /\ PlaceOf(j) /\ CancelledOnceOf(j)

JInv ==
    /\ TypeOK
    /\ SlotSound
    /\ \A j \in Jobs : JobOf(j)
    /\ \A j \in Jobs : RowOf(j)

Legal == \A k \in Jobs :
            job[k].status # "unloaded" /\ job'[k].status # "unloaded" =>
                MayTransition(job[k].status, job'[k].status)

-----------------------------------------------------------------------------
(* The status table. *)

LEMMA SameStatus == ASSUME NEW s PROVE MayTransition(s, s)
BY DEF MayTransition

LEMMA StatusEdges ==
    /\ \A t \in {"running", "failed", "cancelled"} : MayTransition("queued", t)
    /\ \A t \in {"paused", "cancelling", "completed", "failed", "timed_out", "cancelled"} :
            MayTransition("running", t)
    /\ MayTransition("paused", "running") /\ MayTransition("paused", "cancelling")
    /\ MayTransition("cancelling", "cancelled")
BY DEF MayTransition, AllowedTargets, TerminalStatus

\* An ended job never moves, a paused one is not settled by its task.
LEMMA NoEdges ==
    /\ \A s \in TerminalStatus, t \in Reached : MayTransition(s, t) => t = s
    /\ \A t \in {"completed", "failed", "timed_out"} : ~MayTransition("paused", t)
    /\ ~MayTransition("cancelling", "running")
BY DEF MayTransition, AllowedTargets, TerminalStatus, Reached

-----------------------------------------------------------------------------
(* Frames: what a step leaves alone stays sound. *)

LEMMA ShapeKept ==
    ASSUME NEW k \in Jobs, ShapeOf(k), job'[k] = job[k], Active(k) => slot' = slot
    PROVE  ShapeOf(k)'
BY DEF ShapeOf, Active, ExecutorLive

LEMMA PlaceKept ==
    ASSUME NEW k \in Jobs, PlaceOf(k), job'[k] = job[k],
           pc'[Task(k)] = pc[Task(k)], pc'[Fin(k)] = pc[Fin(k)], pc'[Ctl(k)] = pc[Ctl(k)]
    PROVE  PlaceOf(k)'
BY DEF PlaceOf, TaskAlive, Terminal, Task, Fin, Ctl

LEMMA DurableKept ==
    ASSUME NEW k \in Jobs, DurableOf(k), job'[k] = job[k], row'[k] = row[k],
           events'[k] = events[k], k \in waiting' => k \in waiting, k \in loaded' => k \in loaded
    PROVE  DurableOf(k)'
BY DEF DurableOf, Unstarted, Saw

LEMMA OnceKept ==
    ASSUME NEW k \in Jobs, CancelledOnceOf(k), events'[k] = events[k]
    PROVE  CancelledOnceOf(k)'
BY DEF CancelledOnceOf

\* Another event.
LEMMA OtherEvent ==
    ASSUME TypeOK, NEW j \in Jobs, NEW e \in {"completed", "failed"}, CancelledOnceOf(j),
           events'[j] = Append(events[j], e)
    PROVE  CancelledOnceOf(j)' /\ (Saw(j, "cancelled")' => Saw(j, "cancelled"))
<1> DEFINE s == events[j]
<1>1. s \in Seq({"completed", "failed", "cancelled"})  BY DEF TypeOK
<1>2. DOMAIN events'[j] = 1..(Len(s) + 1)
  BY <1>1
<1>3. \A i \in DOMAIN events'[j] : events'[j][i] = "cancelled" => i \in DOMAIN s /\ s[i] = "cancelled"
  BY <1>1, <1>2
<1>. QED  BY <1>3 DEF CancelledOnceOf, Saw

\* The first JOB_CANCELLED.
LEMMA FirstCancelled ==
    ASSUME TypeOK, NEW j \in Jobs, ~Saw(j, "cancelled"),
           events'[j] = Append(events[j], "cancelled")
    PROVE  CancelledOnceOf(j)'
BY DEF TypeOK, CancelledOnceOf, Saw

-----------------------------------------------------------------------------
(* The rows. *)

RowsKept == row' = row /\ outcome' = outcome /\ commit' = commit /\ lastCommit' = lastCommit

\* The execution of j is settled, or a lost one is corrected.
RowSettled(j) ==
    \E r \in Outcomes \ {"unknown"} :
        /\ outcome' = [outcome EXCEPT ![j] = r] /\ row' = [row EXCEPT ![j] = "terminal"]
        /\ commit' = commit /\ lastCommit' = lastCommit
        /\ row[j] = "terminal" =>
            outcome[j] = "execution_lost" /\ r \in {"cancelled", "interrupted"}

LEMMA RowsStay ==
    ASSUME \A j \in Jobs : RowOf(j), RowsKept
    PROVE  \A j \in Jobs : RowOf(j)'
BY DEF RowOf, RowsKept, IsDurableHead, Open

LEMMA RowsAfterSettle ==
    ASSUME TypeOK, NEW j \in Jobs, \A k \in Jobs : RowOf(k), row[j] # "absent", RowSettled(j)
    PROVE  \A k \in Jobs : RowOf(k)'
<1>1. PICK r \in Outcomes \ {"unknown"} :
        /\ outcome' = [outcome EXCEPT ![j] = r] /\ row' = [row EXCEPT ![j] = "terminal"]
        /\ commit' = commit /\ lastCommit' = lastCommit
  BY DEF RowSettled
<1>2. row'[j] = "terminal" /\ outcome'[j] # "unknown"  BY <1>1 DEF TypeOK
<1>3. \A k \in Jobs \ {j} : row'[k] = row[k] /\ outcome'[k] = outcome[k]  BY <1>1 DEF TypeOK
<1>. QED  BY <1>1, <1>2, <1>3 DEF RowOf, IsDurableHead, Open

\* The head of the open rows is claimed (again) or started.
RowTaken(j) ==
    \E phase \in {"claimed", "started"} :
        row' = [row EXCEPT ![j] = phase] /\ outcome' = outcome /\ commit' = commit
        /\ lastCommit' = lastCommit

LEMMA RowsAfterTake ==
    ASSUME TypeOK, NEW j \in Jobs, \A k \in Jobs : RowOf(k), IsDurableHead(j), RowTaken(j)
    PROVE  \A k \in Jobs : RowOf(k)'
<1>1. PICK phase \in {"claimed", "started"} :
        row' = [row EXCEPT ![j] = phase] /\ outcome' = outcome /\ commit' = commit
        /\ lastCommit' = lastCommit
  BY DEF RowTaken
<1>2. row'[j] = phase  BY <1>1 DEF TypeOK
<1>3. \A k \in Jobs \ {j} : row'[k] = row[k]  BY <1>1 DEF TypeOK
<1>4. \A k \in Jobs : Open(k)' = Open(k)  BY <1>2, <1>3 DEF Open, IsDurableHead
<1>. QED  BY <1>1, <1>2, <1>3, <1>4 DEF RowOf, IsDurableHead, Open, TypeOK

\* A terminal mark settles the row, corrects a lost execution or does nothing.
LEMMA PersistFacts ==
    ASSUME TypeOK, NEW j \in Jobs, RowOf(j), NEW mark \in TerminalMarks, Persist(j, mark)
    PROVE  /\ RowsKept \/ RowSettled(j)
           /\ mark # "failed" => row'[j] = "terminal"
           /\ row[j] = "terminal" => row'[j] = "terminal"
           /\ \A k \in Jobs \ {j} : row'[k] = row[k]
           /\ row' \in [Jobs -> {"absent", "queued", "claimed", "started", "terminal"}]
           /\ outcome' \in [Jobs -> Outcomes] /\ commit' = commit /\ lastCommit' = lastCommit
<1> DEFINE r == MarkedOutcome(outcome[j], mark)
<1>1. /\ outcome' = [outcome EXCEPT ![j] = r]
      /\ row' = [row EXCEPT ![j] = RowPhaseAfter(row[j], r)]
      /\ commit' = commit /\ lastCommit' = lastCommit
  BY DEF Persist, admission, TypeOK
<1>2. /\ r \in Outcomes
      /\ mark # "failed" => r # "unknown"
      /\ outcome[j] # "unknown" => r # "unknown"
      /\ r # outcome[j] => /\ outcome[j] \in {"unknown", "execution_lost"} /\ r # "unknown"
                           /\ outcome[j] = "execution_lost" => r \in {"cancelled", "interrupted"}
  BY DEF TypeOK, MarkedOutcome, OutcomeOf, Outcomes, TerminalMarks
<1>3. CASE r = "unknown"
  <2>1. outcome[j] = "unknown" /\ mark = "failed" /\ row[j] # "terminal"  BY <1>2, <1>3 DEF RowOf
  <2>2. row' = row /\ outcome' = outcome  BY <1>1, <1>3, <2>1 DEF RowPhaseAfter, TypeOK
  <2>. QED  BY <1>1, <2>1, <2>2 DEF RowsKept, TypeOK
<1>4. CASE r # "unknown"
  <2>1. row' = [row EXCEPT ![j] = "terminal"]  BY <1>1, <1>4 DEF RowPhaseAfter
  <2>2. RowsKept \/ RowSettled(j)
    <3>1. CASE r = outcome[j]
      <4>1. row[j] = "terminal"  BY <1>4, <3>1 DEF RowOf
      <4>2. row' = row /\ outcome' = outcome  BY <1>1, <2>1, <3>1, <4>1 DEF TypeOK
      <4>. QED  BY <1>1, <4>2 DEF RowsKept
    <3>2. CASE r # outcome[j]
      <4>1. row[j] = "terminal" => outcome[j] = "execution_lost" /\ r \in {"cancelled", "interrupted"}
        BY <1>2, <3>2 DEF RowOf
      <4>. QED  BY <1>1, <1>2, <1>4, <2>1, <4>1 DEF RowSettled
    <3>. QED  BY <3>1, <3>2
  <2>. QED  BY <1>1, <1>2, <2>1, <2>2 DEF TypeOK
<1>. QED  BY <1>3, <1>4

-----------------------------------------------------------------------------
(* A step that moves one job. *)

RowStep(j) == \/ RowsKept
              \/ row[j] # "absent" /\ RowSettled(j)
              \/ IsDurableHead(j) /\ RowTaken(j)

LEMMA OneJob ==
    ASSUME JInv, TypeOK', NEW j \in Jobs, up', RowStep(j),
           slot' = slot, waiting' \subseteq waiting, loaded' = loaded,
           \A k \in Jobs \ {j} : job'[k] = job[k] /\ events'[k] = events[k],
           \A k \in Jobs \ {j} : \A p \in {Task(k), Fin(k), Ctl(k)} : pc'[p] = pc[p],
           job'[j].claim => job[j].claim,
           job[j].status \notin {"unloaded", "queued"} =>
                job'[j].status \notin {"unloaded", "queued"},
           MayTransition(job[j].status, job'[j].status),
           JobOf(j)'
    PROVE  JInv' /\ Legal
<1>1. \A k \in Jobs : RowOf(k)'
  BY RowsStay, RowsAfterSettle, RowsAfterTake DEF JInv, RowStep
<1>2. \A k \in Jobs \ {j} : row'[k] = row[k]
  BY ZenonT(60) DEF JInv, TypeOK, RowStep, RowsKept, RowSettled, RowTaken
<1>3. commit' = commit /\ \A k \in Jobs : Open(k)' => Open(k)
  <2>1. commit' = commit  BY DEF RowStep, RowsKept, RowSettled, RowTaken
  <2>2. Open(j)' => Open(j)
    <3>1. CASE RowsKept  BY <3>1 DEF RowsKept, Open
    <3>2. CASE RowSettled(j)
      <4>1. row'[j] = "terminal"  BY <3>2 DEF RowSettled, JInv, TypeOK
      <4>. QED  BY <4>1 DEF Open
    <3>3. CASE IsDurableHead(j)  BY <3>3 DEF IsDurableHead
    <3>. QED  BY <3>1, <3>2, <3>3 DEF RowStep
  <2>. QED  BY <1>2, <2>1, <2>2 DEF Open
<1>4. SlotSound'
  <2>1. slot' # NoJob => /\ job'[slot'].status \notin {"unloaded", "queued"}
                         /\ \A k \in Jobs : Open(k)' => commit'[slot'] <= commit'[k]
    BY <1>3 DEF JInv, TypeOK, SlotSound
  <2>2. \A i, k \in Jobs : job'[i].claim /\ job'[k].claim => i = k  BY DEF JInv, SlotSound
  <2>. QED  BY <2>1, <2>2 DEF SlotSound
<1>5. ASSUME NEW k \in Jobs \ {j} PROVE JobOf(k)'
  <2>1. JobOf(k) /\ row'[k] = row[k] /\ job'[k] = job[k] /\ events'[k] = events[k]
    BY <1>2, <1>5 DEF JInv
  <2>2. pc'[Task(k)] = pc[Task(k)] /\ pc'[Fin(k)] = pc[Fin(k)] /\ pc'[Ctl(k)] = pc[Ctl(k)]
    BY <1>5
  <2>3. (k \in waiting' => k \in waiting) /\ (k \in loaded' => k \in loaded)  OBVIOUS
  <2>. QED  BY <2>1, <2>2, <2>3, ShapeKept, DurableKept, PlaceKept, OnceKept DEF JobOf
<1>6. Legal  BY SameStatus DEF Legal
<1>. QED  BY <1>1, <1>4, <1>5, <1>6 DEF JInv

\* What such a step does in memory: only the JobState, the coroutines and the
\* events of j move, along an edge of the status table.
Here(j) ==
    /\ job' \in [Jobs -> JobRecord]
    /\ events' \in [Jobs -> Seq({"completed", "failed", "cancelled"})]
    /\ pc' \in [Procs -> Labels]
    /\ \A k \in Jobs \ {j} : job'[k] = job[k] /\ events'[k] = events[k]
    /\ \A k \in Jobs \ {j} : \A p \in {Task(k), Fin(k), Ctl(k)} : pc'[p] = pc[p]
    /\ job'[j].claim = job[j].claim
    /\ job[j].status \notin {"unloaded", "queued"} =>
            job'[j].status \notin {"unloaded", "queued"}
    /\ MayTransition(job[j].status, job'[j].status)

Bounded == crashes \in 0..MaxCrashes /\ faults \in 0..MaxFaults /\ requests \in 0..MaxRequests

LEMMA HereSound ==
    ASSUME JInv, NEW j \in Jobs, up, Here(j), RowStep(j), JobOf(j)',
           UNCHANGED <<slot, loaded, up>>, waiting' \subseteq waiting,
           chosen' \in [Procs -> Jobs \cup {NoJob}], wanted' \in BOOLEAN,
           discarded' \subseteq Jobs, Bounded'
    PROVE  JInv' /\ Legal
<1>1. /\ row' \in [Jobs -> {"absent", "queued", "claimed", "started", "terminal"}]
      /\ outcome' \in [Jobs -> Outcomes] /\ commit' = commit /\ lastCommit' = lastCommit
  <2>1. CASE RowsKept  BY <2>1 DEF JInv, TypeOK, RowsKept
  <2>2. CASE RowSettled(j)  BY <2>2 DEF JInv, TypeOK, RowSettled
  <2>3. CASE RowTaken(j)  BY <2>3 DEF JInv, TypeOK, RowTaken
  <2>. QED  BY <2>1, <2>2, <2>3 DEF RowStep
<1>2. TypeOK'  BY <1>1 DEF JInv, TypeOK, Here, Labels, Bounded
<1>. QED  BY <1>2, OneJob DEF Here

\* A coroutine of j moves.
LEMMA Moved ==
    ASSUME TypeOK, NEW j \in Jobs, NEW p \in {Task(j), Fin(j), Ctl(j)}, NEW label \in Labels,
           GoTo(p, label)
    PROVE  /\ pc' \in [Procs -> Labels] /\ pc'[p] = label
           /\ \A k \in Jobs \ {j} : \A q \in {Task(k), Fin(k), Ctl(k)} : pc'[q] = pc[q]
           /\ \A q \in {Task(j), Fin(j), Ctl(j)} \ {p} : pc'[q] = pc[q]
BY DEF TypeOK, GoTo, Procs, Task, Fin, Ctl, Labels

LEMMA NobodyMoves ==
    ASSUME TypeOK, NEW j \in Jobs, pc' = pc
    PROVE  /\ pc' \in [Procs -> Labels]
           /\ \A k \in Jobs \ {j} : \A q \in {Task(k), Fin(k), Ctl(k)} : pc'[q] = pc[q]
BY DEF TypeOK, Labels

USE DEF durable, admission, dispatch, observed, bounds

\* Nobody who acts for j moves, and what they rely on stays.
LEMMA PlaceStays ==
    ASSUME NEW j \in Jobs, PlaceOf(j), \A p \in {Task(j), Fin(j), Ctl(j)} : pc'[p] = pc[p],
           job[j].task \in Ending => job'[j].task \in Ending,
           TaskAlive(j)' => TaskAlive(j) \/ (Active(j)' /\ job'[j].status # "cancelling"),
           job[j].status = "cancelling" => job'[j].status = "cancelling" \/ Terminal(j)',
           Terminal(j) => Terminal(j)'
    PROVE  PlaceOf(j)'
<1>1. Active(j)' /\ job'[j].status # "cancelling" => ~Terminal(j)'
  BY DEF Active, Terminal, TerminalStatus
<1>. QED  BY <1>1 DEF PlaceOf, Task, Fin, Ctl

-----------------------------------------------------------------------------
(* The JobState of a job that has been dispatched is replaced by r. *)

Fits(r, j) ==
    /\ r \in JobRecord /\ job' = [job EXCEPT ![j] = r]
    /\ r.claim = job[j].claim
    /\ job[j].status \notin {"unloaded", "queued"} /\ ~job[j].restoring /\ ~r.restoring
    /\ MayTransition(job[j].status, r.status)
    /\ r.status \in {"running", "paused", "cancelling"} =>
            job[j].status \in {"running", "paused", "cancelling"}
    /\ r.status \in Reached \ {"unloaded", "queued"}
    /\ r.task \in Executing \cup {"starting"} =>
            r.status \in {"running", "paused", "cancelling"} /\ r.callback = "none"
    /\ r.task = "settle_cancelled" => r.status = "cancelling"
    /\ r.executor \in {"alive", "finishing"} => r.task \in Executing
    /\ r.task = "none" => job[j].task = "none" /\ r.abandoned = {}
    /\ r.task = "none" /\ r.status = "running" => job[j].status = "running"
    /\ job[j].status \in TerminalStatus => r.status = job[j].status

LEMMA FitsJob ==
    ASSUME JInv, NEW j \in Jobs, NEW r, Fits(r, j)
    PROVE  job' \in [Jobs -> JobRecord] /\ job'[j] = r /\ \A k \in Jobs \ {j} : job'[k] = job[k]
BY DEF JInv, TypeOK, Fits

\* The general step: it may write the row, publish an event of j and move a
\* coroutine of j.
LEMMA ReplacedSound ==
    ASSUME JInv, NEW j \in Jobs, up, NEW r, Fits(r, j), RowStep(j),
           UNCHANGED <<slot, waiting, loaded, wanted, up, discarded>>, Bounded',
           chosen' \in [Procs -> Jobs \cup {NoJob}],
           events' \in [Jobs -> Seq({"completed", "failed", "cancelled"})],
           pc' \in [Procs -> Labels],
           \A k \in Jobs \ {j} : events'[k] = events[k],
           \A k \in Jobs \ {j} : \A p \in {Task(k), Fin(k), Ctl(k)} : pc'[p] = pc[p],
           row[j] # "absent" => row'[j] # "absent",
           row[j] = "terminal" => row'[j] = "terminal",
           r.status \in Canonical \/ r.executor \in {"finishing", "returned"} => row'[j] = "terminal",
           r.task = "none" /\ r.status = "running" => row'[j] = row[j],
           PlaceOf(j)', CancelledOnceOf(j)',
           Saw(j, "cancelled")' => r.status = "cancelled"
    PROVE  JInv' /\ Legal
<1>1. JobOf(j) /\ TypeOK  BY DEF JInv
<1>2. job' \in [Jobs -> JobRecord] /\ job'[j] = r /\ \A k \in Jobs \ {j} : job'[k] = job[k]
  BY FitsJob
<1>3. Here(j)  BY <1>2 DEF Here, Fits
<1>4. ShapeOf(j)'
  BY <1>1, <1>2 DEF JobOf, ShapeOf, Active, ExecutorLive, Fits
<1>5. DurableOf(j)'
  BY <1>1, <1>2 DEF JobOf, ShapeOf, DurableOf, Unstarted, Canonical, Fits
<1>. QED  BY <1>1, <1>3, <1>4, <1>5, HereSound DEF JobOf, TypeOK

\* A step that only replaces the JobState.
LEMMA MovedSound ==
    ASSUME JInv, NEW j \in Jobs, up, NEW r, Fits(r, j),
           UNCHANGED <<durable, slot, waiting, dispatch, up, observed, bounds>>,
           job[j].status = "cancelling" => r.status = "cancelling",
           r.status \in Canonical => job[j].status = r.status,
           r.executor \in {"finishing", "returned"} => job[j].executor \in {"finishing", "returned"},
           job[j].task \in Ending => r.task \in Ending,
           r.task \notin DoneTask \cup {"none"} => TaskAlive(j) \/ r.status \in {"running", "paused"}
    PROVE  JInv' /\ Legal
<1>1. JobOf(j) /\ TypeOK  BY DEF JInv
<1>2. job' \in [Jobs -> JobRecord] /\ job'[j] = r /\ \A k \in Jobs \ {j} : job'[k] = job[k]
  BY FitsJob
<1>3. PlaceOf(j)'
  BY <1>1, <1>2, PlaceStays DEF JobOf, TaskAlive, Terminal, Active, Fits
<1>4. CancelledOnceOf(j)' /\ (Saw(j, "cancelled")' => r.status = "cancelled")
  <2>1. events' = events  OBVIOUS
  <2>2. Saw(j, "cancelled") => job[j].status = "cancelled"  BY <1>1 DEF JobOf, DurableOf, Fits
  <2>3. Saw(j, "cancelled")' = Saw(j, "cancelled")  BY <2>1 DEF Saw
  <2>. QED  BY <1>1, <2>1, <2>2, <2>3, OnceKept DEF JobOf, Fits, TerminalStatus
<1>. QED
  BY <1>1, <1>3, <1>4, ReplacedSound, NobodyMoves
  DEF JobOf, DurableOf, TypeOK, RowStep, RowsKept, Bounded, Canonical

-----------------------------------------------------------------------------
(* The task of a job. *)

LEMMA TaskCancelledEarlySound ==
    ASSUME JInv, NEW j \in Jobs, up, TaskCancelledEarly(j)
    PROVE  JInv' /\ Legal
<1> DEFINE r == [job[j] EXCEPT !.task = "done_cancelled", !.cancel = FALSE, !.callback = "cancelled"]
<1>1. ShapeOf(j) /\ job \in [Jobs -> JobRecord] /\ job[j] \in JobRecord
  BY DEF JInv, TypeOK, JobOf
<1>2. job[j].task = "created"
  BY <1>1 DEF TaskCancelledEarly, ShapeOf
<1>3. /\ r \in JobRecord
      /\ r.status = job[j].status /\ r.task = "done_cancelled" /\ r.callback = "cancelled"
      /\ r.executor = job[j].executor /\ r.claim = job[j].claim /\ r.restoring = job[j].restoring
  BY <1>1, <1>2 DEF JobRecord, TaskStates, DoneTask, Settling, JobStatus, ActiveStatus
<1>4. job' = [job EXCEPT ![j] = r]  BY <1>2 DEF TaskCancelledEarly
<1>5. UNCHANGED <<durable, slot, waiting, dispatch, up, observed, bounds>>  BY DEF TaskCancelledEarly
<1> HIDE DEF r
<1>6. Fits(r, j)
  BY <1>1, <1>2, <1>3, <1>4, SameStatus
  DEF Fits, ShapeOf, Active, Executing, ExecutorLive, Reached, TerminalStatus
<1>. QED
  BY <1>1, <1>2, <1>3, <1>5, <1>6, MovedSound
  DEF ShapeOf, Active, Executing, Ending, TaskAlive, DoneTask, Canonical

LEMMA TaskBeginSound ==
    ASSUME JInv, NEW j \in Jobs, up, TaskBegin(j)
    PROVE  JInv' /\ Legal
<1>1. CASE MayTransition(job[j].status, "running")
  <2> DEFINE r == [job[j] EXCEPT !.status = "running", !.task = "starting"]
  <2>1. ShapeOf(j) /\ job \in [Jobs -> JobRecord] /\ job[j] \in JobRecord
    BY DEF JInv, TypeOK, JobOf
  <2>2. /\ job[j].task = "created" /\ job[j].callback = "none"
       /\ job[j].status \in {"running", "paused"}
    BY <1>1, <2>1 DEF TaskBegin, ShapeOf, Reached, MayTransition, AllowedTargets, TerminalStatus
  <2>3. /\ r \in JobRecord
        /\ r.status = "running" /\ r.task = "starting" /\ r.callback = job[j].callback
        /\ r.executor = job[j].executor /\ r.claim = job[j].claim /\ r.restoring = job[j].restoring
    BY <2>1, <2>2 DEF JobRecord, TaskStates, DoneTask, Settling, JobStatus, ActiveStatus
  <2>4. job' = [job EXCEPT ![j] = r]  BY <1>1, <2>2 DEF TaskBegin
  <2>5. UNCHANGED <<durable, slot, waiting, dispatch, up, observed, bounds>>  BY DEF TaskBegin
  <2> HIDE DEF r
  <2>6. Fits(r, j)
    BY <2>1, <2>2, <2>3, <2>4, StatusEdges, SameStatus
    DEF Fits, ShapeOf, Active, Executing, ExecutorLive, Reached, TerminalStatus
  <2>. QED
    BY <2>1, <2>2, <2>3, <2>5, <2>6, MovedSound
    DEF ShapeOf, Active, Executing, Ending, TaskAlive, DoneTask, Canonical
<1>2. CASE ~MayTransition(job[j].status, "running")
  <2> DEFINE r == [job[j] EXCEPT !.task = "settle_failed"]
  <2>1. ShapeOf(j) /\ job \in [Jobs -> JobRecord] /\ job[j] \in JobRecord
    BY DEF JInv, TypeOK, JobOf
  <2>2. job[j].task = "created" /\ job[j].callback = "none"
    BY <1>2, <2>1 DEF TaskBegin, ShapeOf
  <2>3. /\ r \in JobRecord
        /\ r.status = job[j].status /\ r.task = "settle_failed" /\ r.callback = job[j].callback
        /\ r.executor = job[j].executor /\ r.claim = job[j].claim /\ r.restoring = job[j].restoring
    BY <2>1, <2>2 DEF JobRecord, TaskStates, DoneTask, Settling, JobStatus, ActiveStatus
  <2>4. job' = [job EXCEPT ![j] = r]  BY <1>2, <2>2 DEF TaskBegin
  <2>5. UNCHANGED <<durable, slot, waiting, dispatch, up, observed, bounds>>  BY DEF TaskBegin
  <2> HIDE DEF r
  <2>6. Fits(r, j)
    BY <2>1, <2>2, <2>3, <2>4, SameStatus
    DEF Fits, ShapeOf, Active, Executing, ExecutorLive, Reached, TerminalStatus
  <2>. QED
    BY <2>1, <2>2, <2>3, <2>5, <2>6, MovedSound
    DEF ShapeOf, Active, Executing, Ending, TaskAlive, DoneTask, Canonical
<1>. QED  BY <1>1, <1>2

LEMMA ResumeWaitSound ==
    ASSUME JInv, NEW j \in Jobs, ResumeWait(j)
    PROVE  JInv' /\ Legal
<1> DEFINE r == [job[j] EXCEPT !.cancel = TRUE, !.resuming = TRUE]
<1>1. ShapeOf(j) /\ job \in [Jobs -> JobRecord] /\ job[j] \in JobRecord
  BY DEF JInv, TypeOK, JobOf
<1>2. /\ job[j].status = "paused" /\ TaskAlive(j) /\ up
      /\ ~job[j].restoring
  BY <1>1 DEF ResumeWait, ShapeOf, Serving
<1>3. /\ r \in JobRecord
      /\ r.status = job[j].status /\ r.task = job[j].task /\ r.callback = job[j].callback
      /\ r.executor = job[j].executor /\ r.claim = job[j].claim /\ r.restoring = job[j].restoring
      /\ r.abandoned = job[j].abandoned
  BY <1>1, <1>2 DEF JobRecord, TaskStates, DoneTask, Settling, JobStatus, ActiveStatus
<1>4. job' = [job EXCEPT ![j] = r]  BY <1>2 DEF ResumeWait
<1>5. UNCHANGED <<durable, slot, waiting, dispatch, up, observed, bounds>>  BY DEF ResumeWait
<1> HIDE DEF r
<1>6. Fits(r, j)
  BY <1>1, <1>2, <1>3, <1>4, SameStatus
  DEF Fits, ShapeOf, Active, Executing, ExecutorLive, Reached, TerminalStatus
<1>. QED
  BY <1>1, <1>2, <1>3, <1>5, <1>6, MovedSound
  DEF ShapeOf, Active, Executing, Ending, TaskAlive, DoneTask, Canonical

LEMMA ExecutorStartSound ==
    ASSUME JInv, NEW j \in Jobs, up, ExecutorStart(j)
    PROVE  JInv' /\ Legal
<1> DEFINE r == [job[j] EXCEPT !.task = "executing", !.executor = "alive"]
<1>1. ShapeOf(j) /\ job \in [Jobs -> JobRecord] /\ job[j] \in JobRecord
  BY DEF JInv, TypeOK, JobOf
<1>2. job[j].task = "starting"
  BY <1>1 DEF ExecutorStart, ShapeOf
<1>3. /\ r \in JobRecord
      /\ r.status = job[j].status /\ r.task = "executing" /\ r.callback = job[j].callback
      /\ r.executor = "alive" /\ r.claim = job[j].claim /\ r.restoring = job[j].restoring
  BY <1>1, <1>2 DEF JobRecord, TaskStates, DoneTask, Settling, JobStatus, ActiveStatus
<1>4. job' = [job EXCEPT ![j] = r]  BY <1>2 DEF ExecutorStart
<1>5. UNCHANGED <<durable, slot, waiting, dispatch, up, observed, bounds>>  BY DEF ExecutorStart
<1> HIDE DEF r
<1>6. Fits(r, j)
  BY <1>1, <1>2, <1>3, <1>4, SameStatus
  DEF Fits, ShapeOf, Active, Executing, ExecutorLive, Reached, TerminalStatus
<1>. QED
  BY <1>1, <1>2, <1>3, <1>5, <1>6, MovedSound
  DEF ShapeOf, Active, Executing, Ending, TaskAlive, DoneTask, Canonical

LEMMA TaskInterruptedSound ==
    ASSUME JInv, NEW j \in Jobs, up, TaskInterrupted(j)
    PROVE  JInv' /\ Legal
<1> DEFINE r == [job[j] EXCEPT !.cancel = FALSE, !.task = "stopping_cancel"]
<1>1. ShapeOf(j) /\ job \in [Jobs -> JobRecord] /\ job[j] \in JobRecord
  BY DEF JInv, TypeOK, JobOf
<1>2. job[j].task \in Executing
  BY <1>1 DEF TaskInterrupted, ShapeOf, Executing
<1>3. /\ r \in JobRecord
      /\ r.status = job[j].status /\ r.task = "stopping_cancel" /\ r.callback = job[j].callback
      /\ r.executor = job[j].executor /\ r.claim = job[j].claim /\ r.restoring = job[j].restoring
  BY <1>1, <1>2 DEF JobRecord, TaskStates, DoneTask, Settling, JobStatus, ActiveStatus
<1>4. job' = [job EXCEPT ![j] = r]  BY <1>2 DEF TaskInterrupted
<1>5. UNCHANGED <<durable, slot, waiting, dispatch, up, observed, bounds>>  BY DEF TaskInterrupted
<1> HIDE DEF r
<1>6. Fits(r, j)
  BY <1>1, <1>2, <1>3, <1>4, SameStatus
  DEF Fits, ShapeOf, Active, Executing, ExecutorLive, Reached, TerminalStatus
<1>. QED
  BY <1>1, <1>2, <1>3, <1>5, <1>6, MovedSound
  DEF ShapeOf, Active, Executing, Ending, TaskAlive, DoneTask, Canonical

LEMMA TaskTimedOutSound ==
    ASSUME JInv, NEW j \in Jobs, up, TaskTimedOut(j)
    PROVE  JInv' /\ Legal
<1> DEFINE r == [job[j] EXCEPT !.task = "settle_timed_out"]
<1>1. ShapeOf(j) /\ job \in [Jobs -> JobRecord] /\ job[j] \in JobRecord
  BY DEF JInv, TypeOK, JobOf
<1>2. job[j].task = "stopping_timeout" /\ ~ExecutorLive(j)
  BY <1>1 DEF TaskTimedOut, ShapeOf
<1>3. /\ r \in JobRecord
      /\ r.status = job[j].status /\ r.task = "settle_timed_out" /\ r.callback = job[j].callback
      /\ r.executor = job[j].executor /\ r.claim = job[j].claim /\ r.restoring = job[j].restoring
  BY <1>1, <1>2 DEF JobRecord, TaskStates, DoneTask, Settling, JobStatus, ActiveStatus
<1>4. job' = [job EXCEPT ![j] = r]  BY <1>2 DEF TaskTimedOut
<1>5. UNCHANGED <<durable, slot, waiting, dispatch, up, observed, bounds>>  BY DEF TaskTimedOut
<1> HIDE DEF r
<1>6. Fits(r, j)
  BY <1>1, <1>2, <1>3, <1>4, SameStatus
  DEF Fits, ShapeOf, Active, Executing, ExecutorLive, Reached, TerminalStatus
<1>. QED
  BY <1>1, <1>2, <1>3, <1>5, <1>6, MovedSound
  DEF ShapeOf, Active, Executing, Ending, TaskAlive, DoneTask, Canonical

LEMMA TaskTimeoutSound ==
    ASSUME JInv, NEW j \in Jobs, up, TaskTimeout(j)
    PROVE  JInv' /\ Legal
<1> DEFINE r == [job[j] EXCEPT !.task = "stopping_timeout"]
<1>1. ShapeOf(j) /\ job \in [Jobs -> JobRecord] /\ job[j] \in JobRecord
  BY DEF JInv, TypeOK, JobOf
<1>2. job[j].task = "executing"
  BY <1>1 DEF TaskTimeout, ShapeOf
<1>3. /\ r \in JobRecord
      /\ r.status = job[j].status /\ r.task = "stopping_timeout" /\ r.callback = job[j].callback
      /\ r.executor = job[j].executor /\ r.claim = job[j].claim /\ r.restoring = job[j].restoring
  BY <1>1, <1>2 DEF JobRecord, TaskStates, DoneTask, Settling, JobStatus, ActiveStatus
<1>4. job' = [job EXCEPT ![j] = r]  BY <1>2 DEF TaskTimeout
<1>5. UNCHANGED <<durable, slot, waiting, dispatch, up, observed, bounds>>  BY DEF TaskTimeout
<1> HIDE DEF r
<1>6. Fits(r, j)
  BY <1>1, <1>2, <1>3, <1>4, SameStatus
  DEF Fits, ShapeOf, Active, Executing, ExecutorLive, Reached, TerminalStatus
<1>. QED
  BY <1>1, <1>2, <1>3, <1>5, <1>6, MovedSound
  DEF ShapeOf, Active, Executing, Ending, TaskAlive, DoneTask, Canonical

LEMMA ExecutorRaiseSound ==
    ASSUME JInv, NEW j \in Jobs, up, ExecutorRaise(j)
    PROVE  JInv' /\ Legal
<1> DEFINE r == [job[j] EXCEPT !.executor = "raised"]
<1>1. ShapeOf(j) /\ job \in [Jobs -> JobRecord] /\ job[j] \in JobRecord
  BY DEF JInv, TypeOK, JobOf
<1>2. ExecutorLive(j)
  BY <1>1 DEF ExecutorRaise, ShapeOf
<1>3. /\ r \in JobRecord
      /\ r.status = job[j].status /\ r.task = job[j].task /\ r.callback = job[j].callback
      /\ r.executor = "raised" /\ r.claim = job[j].claim /\ r.restoring = job[j].restoring
  BY <1>1, <1>2 DEF JobRecord, TaskStates, DoneTask, Settling, JobStatus, ActiveStatus
<1>4. job' = [job EXCEPT ![j] = r]  BY <1>2 DEF ExecutorRaise
<1>5. UNCHANGED <<durable, slot, waiting, dispatch, up, observed, bounds>>  BY DEF ExecutorRaise
<1> HIDE DEF r
<1>6. Fits(r, j)
  BY <1>1, <1>2, <1>3, <1>4, SameStatus
  DEF Fits, ShapeOf, Active, Executing, ExecutorLive, Reached, TerminalStatus
<1>. QED
  BY <1>1, <1>2, <1>3, <1>5, <1>6, MovedSound
  DEF ShapeOf, Active, Executing, Ending, TaskAlive, DoneTask, Canonical

\* The task of j reaches its finally clause.
LEMMA PlaceCloses ==
    ASSUME TypeOK, NEW j \in Jobs, PlaceOf(j), GoTo(Task(j), "close"), TaskAlive(j),
           job'[j].task \in Ending,
           job[j].status = "cancelling" => job'[j].status = "cancelling" \/ Terminal(j)',
           Terminal(j) => Terminal(j)'
    PROVE  PlaceOf(j)'
<1>1. pc'[Task(j)] = "close" /\ \A p \in {Fin(j), Ctl(j)} : pc'[p] = pc[p]
  <2>1. Task(j) # Fin(j) /\ Task(j) # Ctl(j)  BY DEF Task, Fin, Ctl
  <2>2. "close" \in Labels  BY DEF Labels
  <2>. QED  BY <2>1, <2>2, Moved
<1>2. \A p \in {Fin(j), Ctl(j)} : pc'[p] # "finalize"  BY <1>1 DEF PlaceOf
<1>. QED  BY <1>1, <1>2 DEF PlaceOf

LEMMA TaskCancelBranchSound ==
    ASSUME JInv, NEW j \in Jobs, up, TaskCancelBranch(j)
    PROVE  JInv' /\ Legal
<1>1. /\ ShapeOf(j) /\ DurableOf(j) /\ PlaceOf(j) /\ CancelledOnceOf(j) /\ TypeOK
      /\ job \in [Jobs -> JobRecord] /\ job[j] \in JobRecord
  BY DEF JInv, TypeOK, JobOf
<1>2. /\ job[j].task \in Executing \cup {"starting"} /\ Active(j) /\ ~job[j].restoring
      /\ ~ExecutorLive(j) /\ TaskAlive(j)
  BY <1>1 DEF TaskCancelBranch, ShapeOf, Executing, TaskAlive, DoneTask
<1>3. CASE job[j].status = "paused"
  <2> DEFINE r == [job[j] EXCEPT !.cancel = FALSE, !.task = "releasing"]
  <2>1. /\ r \in JobRecord
        /\ r.status = "paused" /\ r.task = "releasing" /\ r.callback = job[j].callback
        /\ r.executor = job[j].executor /\ r.claim = job[j].claim /\ ~r.restoring
    BY <1>1, <1>2, <1>3 DEF JobRecord, TaskStates
  <2>2. job' = [job EXCEPT ![j] = r] /\ GoTo(Task(j), "close")
        /\ UNCHANGED <<durable, slot, waiting, chosen, loaded, wanted, up, observed, bounds>>
    BY <1>3 DEF TaskCancelBranch
  <2> HIDE DEF r
  <2>3. Fits(r, j)
    BY <1>2, <1>3, <2>1, <2>2, SameStatus
    DEF Fits, Active, Executing, ExecutorLive, Reached, TerminalStatus
  <2>4. PlaceOf(j)'
    BY <1>1, <1>2, <1>3, <2>1, <2>2, <2>3, FitsJob, PlaceCloses DEF Ending, Terminal, TerminalStatus
  <2>5. CancelledOnceOf(j)' /\ ~Saw(j, "cancelled")'
    BY <1>1, <1>3, <2>2 DEF CancelledOnceOf, DurableOf, Saw
  <2>. QED
    BY <1>1, <1>2, <1>3, <2>1, <2>2, <2>3, <2>4, <2>5, ReplacedSound, Moved
    DEF TypeOK, RowStep, RowsKept, Bounded, Canonical, Labels, DurableOf, ExecutorLive
<1>4. CASE job[j].status # "paused"
  <2> DEFINE r == [job[j] EXCEPT !.cancel = FALSE, !.task = "settle_cancelled", !.status = "cancelling"]
  <2>1. /\ r \in JobRecord
        /\ r.status = "cancelling" /\ r.task = "settle_cancelled" /\ r.callback = job[j].callback
        /\ r.executor = job[j].executor /\ r.claim = job[j].claim /\ ~r.restoring
    BY <1>1, <1>2 DEF JobRecord, TaskStates, Settling, JobStatus
  <2>2. job' = [job EXCEPT ![j] = r]
        /\ UNCHANGED <<durable, slot, waiting, dispatch, up, observed, bounds>>
    BY <1>4 DEF TaskCancelBranch
  <2> HIDE DEF r
  <2>3. Fits(r, j)
    BY <1>2, <2>1, <2>2, SameStatus, StatusEdges
    DEF Fits, Active, Executing, ExecutorLive, Reached, TerminalStatus
  <2>. QED
    BY <1>1, <1>2, <2>1, <2>2, <2>3, MovedSound DEF Canonical, Executing, Ending
<1>. QED  BY <1>3, <1>4

LEMMA TaskCollectSound ==
    ASSUME JInv, NEW j \in Jobs, up, TaskCollect(j)
    PROVE  JInv' /\ Legal
<1>1. /\ ShapeOf(j) /\ DurableOf(j) /\ PlaceOf(j) /\ CancelledOnceOf(j) /\ TypeOK
      /\ job \in [Jobs -> JobRecord] /\ job[j] \in JobRecord
  BY DEF JInv, TypeOK, JobOf
<1>2. /\ job[j].task = "executing" /\ Active(j) /\ ~job[j].restoring
      /\ ~ExecutorLive(j) /\ TaskAlive(j)
  BY <1>1 DEF TaskCollect, ShapeOf, Executing, TaskAlive, DoneTask, ExecutorLive
<1>3. CASE job[j].executor = "returned" /\ MayTransition(job[j].status, "completed")
  <2> DEFINE r == [job[j] EXCEPT !.status = "completed", !.task = "releasing"]
  <2>1. /\ r \in JobRecord
        /\ r.status = "completed" /\ r.task = "releasing" /\ r.callback = job[j].callback
        /\ r.executor = job[j].executor /\ r.claim = job[j].claim /\ ~r.restoring
    BY <1>1, <1>2 DEF JobRecord, TaskStates, JobStatus, TerminalStatus
  <2>2. job' = [job EXCEPT ![j] = r] /\ GoTo(Task(j), "close")
        /\ UNCHANGED <<durable, slot, waiting, chosen, loaded, wanted, up, observed, bounds>>
    BY <1>3 DEF TaskCollect
  <2> HIDE DEF r
  <2>3. Fits(r, j)
    BY <1>2, <1>3, <2>1, <2>2
    DEF Fits, Active, Executing, ExecutorLive, Reached, TerminalStatus
  <2>4. PlaceOf(j)'
    BY <1>1, <1>2, <2>1, <2>2, <2>3, FitsJob, PlaceCloses DEF Ending, Terminal, TerminalStatus
  <2>5. CancelledOnceOf(j)' /\ ~Saw(j, "cancelled")'
    BY <1>1, <1>2, <2>2 DEF CancelledOnceOf, DurableOf, Saw, Active
  <2>. QED
    BY <1>1, <1>2, <1>3, <2>1, <2>2, <2>3, <2>4, <2>5, ReplacedSound, Moved
    DEF TypeOK, RowStep, RowsKept, Bounded, Labels, DurableOf
<1>4. CASE ~(job[j].executor = "returned" /\ MayTransition(job[j].status, "completed"))
  <2> DEFINE r == [job[j] EXCEPT !.task = "settle_failed"]
  <2>1. /\ r \in JobRecord
        /\ r.status = job[j].status /\ r.task = "settle_failed" /\ r.callback = job[j].callback
        /\ r.executor = job[j].executor /\ r.claim = job[j].claim /\ ~r.restoring
    BY <1>1, <1>2 DEF JobRecord, TaskStates, Settling
  <2>2. job' = [job EXCEPT ![j] = r]
        /\ UNCHANGED <<durable, slot, waiting, dispatch, up, observed, bounds>>
    BY <1>4 DEF TaskCollect
  <2> HIDE DEF r
  <2>3. Fits(r, j)
    BY <1>2, <2>1, <2>2, SameStatus
    DEF Fits, Active, Executing, ExecutorLive, Reached, TerminalStatus
  <2>. QED
    BY <1>1, <1>2, <2>1, <2>2, <2>3, MovedSound DEF Canonical, Executing, Ending
<1>. QED  BY <1>3, <1>4

\* What a settlement does to the row, the status and the events.
LEMMA SettleSound ==
    ASSUME JInv, NEW j \in Jobs, up, Settle(j)
    PROVE  JInv' /\ Legal
<1> DEFINE target == SettledStatus(job[j].task)
           legal == MayTransition(job[j].status, target)
<1>1. /\ ShapeOf(j) /\ DurableOf(j) /\ PlaceOf(j) /\ CancelledOnceOf(j) /\ TypeOK /\ RowOf(j)
      /\ job \in [Jobs -> JobRecord] /\ job[j] \in JobRecord
  BY DEF JInv, TypeOK, JobOf
<1>2. /\ job[j].task \in Settling /\ TaskAlive(j) /\ ~ExecutorLive(j) /\ ~job[j].restoring
      /\ job[j].status \notin {"unloaded", "queued"} /\ row[j] # "absent"
  BY <1>1 DEF Settle, Settling, ShapeOf, DurableOf, Executing, TaskAlive, DoneTask
<1>3. /\ target \in {"cancelled", "failed", "timed_out"}
      /\ target = "cancelled" <=> job[j].task = "settle_cancelled"
  BY <1>2 DEF SettledStatus, Settling
<1>4. target \in TerminalMarks /\ Persist(j, target)  BY <1>3 DEF TerminalMarks, Settle
<1>5. /\ RowsKept \/ RowSettled(j)
      /\ target # "failed" => row'[j] = "terminal"
      /\ row[j] = "terminal" => row'[j] = "terminal"
  BY <1>1, <1>4, PersistFacts
<1>6. row'[j] # "absent" /\ RowStep(j)
  BY <1>1, <1>2, <1>5 DEF RowStep, RowsKept, RowSettled, TypeOK
<1>7. GoTo(Task(j), "close")
      /\ UNCHANGED <<slot, waiting, chosen, loaded, wanted, up, discarded, bounds>>
  BY DEF Settle
<1>8. CASE legal
  <2> DEFINE r == [job[j] EXCEPT !.status = target, !.cancel = FALSE, !.task = "releasing"]
  <2>1. /\ r \in JobRecord
        /\ r.status = target /\ r.task = "releasing" /\ r.callback = job[j].callback
        /\ r.executor = job[j].executor /\ r.claim = job[j].claim /\ ~r.restoring
    BY <1>1, <1>2, <1>3 DEF JobRecord, TaskStates, JobStatus, TerminalStatus
  <2>2. job' = [job EXCEPT ![j] = r]  BY <1>8 DEF Settle
  <2>3. events' = [events EXCEPT ![j] = Append(events[j], EventOf(target))]
    BY <1>8 DEF Settle, Publish
  <2>4. EventOf(target) = (IF target = "cancelled" THEN "cancelled" ELSE "failed")
    BY DEF EventOf
  <2> HIDE DEF r, target
  <2>5. Fits(r, j)
    <3>1. job[j].status \in TerminalStatus => target = job[j].status
      BY <1>3, <1>8, NoEdges DEF Reached
    <3>2. MayTransition(job[j].status, target)  BY <1>8
    <3>. QED
      BY <1>2, <1>3, <2>1, <2>2, <3>1, <3>2
      DEF Fits, Executing, ExecutorLive, Reached, TerminalStatus
  <2>6. PlaceOf(j)'
    BY <1>1, <1>2, <1>3, <1>7, <2>1, <2>5, FitsJob, PlaceCloses DEF Ending, Terminal, TerminalStatus
  <2>7. events' \in [Jobs -> Seq({"completed", "failed", "cancelled"})]
        /\ (\A k \in Jobs \ {j} : events'[k] = events[k])
        /\ events'[j] = Append(events[j], EventOf(target))
    BY <1>1, <2>3, <2>4 DEF TypeOK
  <2>8. CancelledOnceOf(j)' /\ (Saw(j, "cancelled")' => target = "cancelled")
    <3>1. CASE target = "cancelled"
      <4>1. ~Saw(j, "cancelled")  BY <1>1, <1>3, <3>1 DEF ShapeOf, DurableOf
      <4>. QED  BY <1>1, <2>4, <2>7, <3>1, <4>1, FirstCancelled
    <3>2. CASE target # "cancelled"
      <4>1. CancelledOnceOf(j)' /\ (Saw(j, "cancelled")' => Saw(j, "cancelled"))
        BY <1>1, <2>4, <2>7, <3>2, OtherEvent
      <4>2. ~Saw(j, "cancelled")
        <5>1. job[j].status # "cancelled"
          BY <1>3, <1>8, <3>2, NoEdges DEF TerminalStatus, Reached
        <5>. QED  BY <1>1, <1>2, <5>1 DEF DurableOf
      <4>. QED  BY <4>1, <4>2
    <3>. QED  BY <3>1, <3>2
  <2>9. pc' \in [Procs -> Labels]
        /\ \A k \in Jobs \ {j} : \A q \in {Task(k), Fin(k), Ctl(k)} : pc'[q] = pc[q]
    BY <1>1, <1>7, Moved DEF Labels
  <2>10. r.status \in Canonical \/ r.executor \in {"finishing", "returned"} => row'[j] = "terminal"
    BY <1>1, <1>3, <1>5, <2>1 DEF Canonical, DurableOf
  <2>. QED
    BY <1>1, <1>5, <1>6, <1>7, <2>1, <2>5, <2>6, <2>7, <2>8, <2>9, <2>10, ReplacedSound
    DEF TypeOK, Bounded
<1>9. CASE ~legal
  <2> DEFINE r == [job[j] EXCEPT !.cancel = FALSE, !.task = "releasing_error"]
  <2>1. /\ r \in JobRecord
        /\ r.status = job[j].status /\ r.task = "releasing_error" /\ r.callback = job[j].callback
        /\ r.executor = job[j].executor /\ r.claim = job[j].claim /\ ~r.restoring
    BY <1>1, <1>2 DEF JobRecord, TaskStates
  <2>2. job' = [job EXCEPT ![j] = r] /\ events' = events  BY <1>9 DEF Settle
  <2> HIDE DEF r
  <2>3. Fits(r, j)
    BY <1>1, <1>2, <2>1, <2>2, SameStatus
    DEF Fits, Executing, ExecutorLive, Reached, ShapeOf
  <2>4. PlaceOf(j)'
    BY <1>1, <1>2, <1>7, <2>1, <2>2, <2>3, FitsJob, PlaceCloses DEF Ending, Terminal
  <2>5. CancelledOnceOf(j)' /\ (Saw(j, "cancelled")' => r.status = "cancelled")
    BY <1>1, <1>2, <2>1, <2>2 DEF CancelledOnceOf, DurableOf, Saw
  <2>6. pc' \in [Procs -> Labels]
        /\ \A k \in Jobs \ {j} : \A q \in {Task(k), Fin(k), Ctl(k)} : pc'[q] = pc[q]
    BY <1>1, <1>7, Moved DEF Labels
  <2>. QED
    BY <1>1, <1>5, <1>6, <1>7, <2>1, <2>2, <2>3, <2>4, <2>5, <2>6, ReplacedSound
    DEF TypeOK, Bounded, DurableOf
<1>. QED  BY <1>8, <1>9

LEMMA SettleFaultSound ==
    ASSUME JInv, NEW j \in Jobs, up, SettleFault(j)
    PROVE  JInv' /\ Legal
<1> DEFINE r == [job[j] EXCEPT !.cancel = FALSE, !.task = "releasing_error"]
<1>1. /\ ShapeOf(j) /\ DurableOf(j) /\ PlaceOf(j) /\ CancelledOnceOf(j) /\ TypeOK
      /\ job \in [Jobs -> JobRecord] /\ job[j] \in JobRecord
  BY DEF JInv, TypeOK, JobOf
<1>2. /\ job[j].task \in Settling /\ TaskAlive(j) /\ ~ExecutorLive(j) /\ ~job[j].restoring
      /\ job[j].status \notin {"unloaded", "queued"}
  BY <1>1 DEF SettleFault, Settling, ShapeOf, Executing, TaskAlive, DoneTask
<1>3. /\ r \in JobRecord
      /\ r.status = job[j].status /\ r.task = "releasing_error" /\ r.callback = job[j].callback
      /\ r.executor = job[j].executor /\ r.claim = job[j].claim /\ ~r.restoring
  BY <1>1, <1>2 DEF JobRecord, TaskStates
<1>4. job' = [job EXCEPT ![j] = r] /\ GoTo(Task(j), "close")
      /\ UNCHANGED <<durable, slot, waiting, chosen, loaded, wanted, up, observed, crashes, requests>>
  BY DEF SettleFault
<1>5. Bounded'  BY <1>1, BoundAssumption DEF SettleFault, Bounded, TypeOK
<1> HIDE DEF r
<1>6. Fits(r, j)
  BY <1>1, <1>2, <1>3, <1>4, SameStatus DEF Fits, Executing, ExecutorLive, Reached, ShapeOf
<1>7. PlaceOf(j)'
  BY <1>1, <1>2, <1>3, <1>4, <1>6, FitsJob, PlaceCloses DEF Ending, Terminal
<1>8. CancelledOnceOf(j)' /\ (Saw(j, "cancelled")' => r.status = "cancelled")
  BY <1>1, <1>2, <1>3, <1>4 DEF CancelledOnceOf, DurableOf, Saw
<1>9. pc' \in [Procs -> Labels]
      /\ \A k \in Jobs \ {j} : \A q \in {Task(k), Fin(k), Ctl(k)} : pc'[q] = pc[q]
  BY <1>1, <1>4, Moved DEF Labels
<1>. QED
  BY <1>1, <1>3, <1>4, <1>5, <1>6, <1>7, <1>8, <1>9, ReplacedSound
  DEF TypeOK, RowStep, RowsKept, DurableOf

\* _task_done_callback, for a task that ended with an exception.
LEMMA CallbackErrorSound ==
    ASSUME JInv, NEW j \in Jobs, up, CallbackError(j)
    PROVE  JInv' /\ Legal
<1> DEFINE status == job[j].status
           fails == status # "cancelling" /\ (Terminal(j) \/ MayTransition(status, "failed"))
           r == [job[j] EXCEPT !.callback = "none",
                               !.status = IF fails /\ ~Terminal(j) THEN "failed" ELSE @]
<1>1. /\ ShapeOf(j) /\ DurableOf(j) /\ PlaceOf(j) /\ CancelledOnceOf(j) /\ TypeOK
      /\ job \in [Jobs -> JobRecord] /\ job[j] \in JobRecord
  BY DEF JInv, TypeOK, JobOf
<1>2. /\ job[j].callback = "error" /\ ~job[j].restoring
      /\ status \in {"running", "paused", "cancelling"} \cup TerminalStatus
      /\ job[j].task \notin Executing \cup {"starting"} /\ ~ExecutorLive(j)
  BY <1>1 DEF CallbackError, ShapeOf, Reached, TerminalStatus, ExecutorLive
<1>3. fails /\ ~Terminal(j) => status = "running"
  BY <1>2, NoEdges DEF Terminal
<1>4. /\ r \in JobRecord
      /\ r.status = (IF fails /\ ~Terminal(j) THEN "failed" ELSE status)
      /\ r.task = job[j].task /\ r.callback = "none" /\ r.abandoned = job[j].abandoned
      /\ r.executor = job[j].executor /\ r.claim = job[j].claim /\ ~r.restoring
  BY <1>1, <1>2 DEF JobRecord, JobStatus, TerminalStatus
<1>5. job' = [job EXCEPT ![j] = r]  BY DEF CallbackError
<1>6. /\ IF fails THEN Publish(j, "failed") ELSE UNCHANGED events
      /\ UNCHANGED <<durable, slot, waiting, dispatch, up, discarded, bounds>>
  BY DEF CallbackError
<1> HIDE DEF r, fails
<1>7. Fits(r, j)
  <2>1. MayTransition(status, r.status)  BY <1>3, <1>4, SameStatus, StatusEdges
  <2>2. r.task = "settle_cancelled" => r.status = "cancelling"
    BY <1>1, <1>3, <1>4 DEF ShapeOf
  <2>. QED
    BY <1>1, <1>2, <1>3, <1>4, <1>5, <2>1, <2>2
    DEF Fits, ShapeOf, Executing, ExecutorLive, Reached, TerminalStatus, Terminal
<1>8. PlaceOf(j)'
  BY <1>1, <1>2, <1>3, <1>4, <1>6, <1>7, FitsJob, PlaceStays
  DEF Terminal, TaskAlive, Active, TerminalStatus
<1>9. /\ events' \in [Jobs -> Seq({"completed", "failed", "cancelled"})]
      /\ \A k \in Jobs \ {j} : events'[k] = events[k]
      /\ events'[j] = events[j] \/ events'[j] = Append(events[j], "failed")
  <2>1. events' = events \/ events' = [events EXCEPT ![j] = Append(events[j], "failed")]
    BY <1>6 DEF Publish
  <2>2. CASE events' = events  BY <1>1, <2>2 DEF TypeOK
  <2>3. CASE events' = [events EXCEPT ![j] = Append(events[j], "failed")]
    BY <1>1, <2>3 DEF TypeOK
  <2>. QED  BY <2>1, <2>2, <2>3
<1>10. CancelledOnceOf(j)' /\ (Saw(j, "cancelled")' => r.status = "cancelled")
  <2>1. Saw(j, "cancelled") => r.status = "cancelled"
    BY <1>1, <1>2, <1>3, <1>4 DEF DurableOf, TerminalStatus
  <2>2. CancelledOnceOf(j)' /\ (Saw(j, "cancelled")' => Saw(j, "cancelled"))
    <3>1. CASE events'[j] = events[j]  BY <1>1, <3>1 DEF CancelledOnceOf, Saw
    <3>2. CASE events'[j] = Append(events[j], "failed")  BY <1>1, <3>2, OtherEvent
    <3>. QED  BY <1>9, <3>1, <3>2
  <2>. QED  BY <2>1, <2>2
<1>11. r.status \in Canonical \/ r.executor \in {"finishing", "returned"} => row'[j] = "terminal"
  BY <1>1, <1>4, <1>6 DEF DurableOf, Canonical
<1>. QED
  BY <1>1, <1>4, <1>6, <1>7, <1>8, <1>9, <1>10, <1>11, ReplacedSound, NobodyMoves
  DEF TypeOK, RowStep, RowsKept, Bounded

\* The finalizer it spawns for a task that was cancelled before it ran.
LEMMA CallbackCancelledSound ==
    ASSUME JInv, NEW j \in Jobs, up, CallbackCancelled(j)
    PROVE  JInv' /\ Legal
<1>1. /\ ShapeOf(j) /\ DurableOf(j) /\ PlaceOf(j) /\ CancelledOnceOf(j) /\ TypeOK
      /\ job \in [Jobs -> JobRecord] /\ job[j] \in JobRecord
  BY DEF JInv, TypeOK, JobOf
<1>2. /\ job[j].callback = "cancelled" /\ ~job[j].restoring
      /\ job[j].status \in {"running", "paused", "cancelling"} \cup TerminalStatus
      /\ job[j].task \notin Executing \cup {"starting"} /\ ~ExecutorLive(j)
  BY <1>1 DEF CallbackCancelled, ShapeOf, Reached, TerminalStatus, ExecutorLive
<1>3. CASE job[j].task # "done_cancelled" \/ job[j].status = "paused" \/ Terminal(j)
  <2> DEFINE r == [job[j] EXCEPT !.callback = "none"]
  <2>1. /\ r \in JobRecord
        /\ r.status = job[j].status /\ r.task = job[j].task /\ r.callback = "none"
        /\ r.executor = job[j].executor /\ r.claim = job[j].claim /\ ~r.restoring
        /\ r.abandoned = job[j].abandoned
    BY <1>1, <1>2 DEF JobRecord
  <2>2. job' = [job EXCEPT ![j] = r] /\ UNCHANGED pc
        /\ UNCHANGED <<durable, slot, waiting, chosen, loaded, wanted, up, observed, bounds>>
    BY <1>3 DEF CallbackCancelled
  <2> HIDE DEF r
  <2>3. Fits(r, j)
    BY <1>1, <1>2, <2>1, <2>2, SameStatus
    DEF Fits, ShapeOf, Executing, ExecutorLive, Reached, TerminalStatus
  <2>. QED
    BY <1>1, <2>1, <2>2, <2>3, MovedSound DEF Ending, TaskAlive, DurableOf, Canonical
<1>4. CASE ~(job[j].task # "done_cancelled" \/ job[j].status = "paused" \/ Terminal(j))
  <2> DEFINE r == [job[j] EXCEPT !.callback = "none", !.status = "cancelling"]
  <2>1. /\ r \in JobRecord
        /\ r.status = "cancelling" /\ r.task = "done_cancelled" /\ r.callback = "none"
        /\ r.executor = job[j].executor /\ r.claim = job[j].claim /\ ~r.restoring
    BY <1>1, <1>2, <1>4 DEF JobRecord, JobStatus
  <2>2. job' = [job EXCEPT ![j] = r] /\ GoTo(Fin(j), "finalize")
        /\ UNCHANGED <<durable, slot, waiting, chosen, loaded, wanted, up, observed, bounds>>
    BY <1>4 DEF CallbackCancelled
  <2>3. job[j].status \in {"running", "cancelling"}  BY <1>2, <1>4 DEF Terminal
  <2> HIDE DEF r
  <2>4. Fits(r, j)
    BY <1>2, <2>1, <2>2, <2>3, SameStatus, StatusEdges
    DEF Fits, Executing, ExecutorLive, Reached, TerminalStatus
  <2>5. /\ pc' \in [Procs -> Labels] /\ pc'[Fin(j)] = "finalize"
        /\ pc'[Task(j)] = pc[Task(j)] /\ pc'[Ctl(j)] = pc[Ctl(j)]
        /\ \A k \in Jobs \ {j} : \A q \in {Task(k), Fin(k), Ctl(k)} : pc'[q] = pc[q]
    <3>1. Task(j) # Fin(j) /\ Ctl(j) # Fin(j)  BY DEF Task, Fin, Ctl
    <3>2. "finalize" \in Labels  BY DEF Labels
    <3>. QED  BY <1>1, <2>2, <3>1, <3>2, Moved
  <2>6. PlaceOf(j)'
    <3>1. job[j].task = "done_cancelled" /\ ~Terminal(j)  BY <1>4
    <3>2. job'[j] = r  BY <2>4, FitsJob
    <3>. QED
      BY <1>1, <2>1, <2>5, <3>1, <3>2
      DEF PlaceOf, TaskAlive, DoneTask, Ending, Terminal, TerminalStatus
  <2>7. CancelledOnceOf(j)' /\ ~Saw(j, "cancelled")'
    BY <1>1, <2>2, <2>3 DEF CancelledOnceOf, DurableOf, Saw
  <2>. QED
    BY <1>1, <2>1, <2>2, <2>4, <2>5, <2>6, <2>7, ReplacedSound
    DEF TypeOK, RowStep, RowsKept, Bounded, Canonical, DurableOf
<1>. QED  BY <1>3, <1>4

-----------------------------------------------------------------------------
(* The executor of a job. *)

LEMMA ExecutorConvergeSound ==
    ASSUME JInv, NEW j \in Jobs, up, NEW result \in Outcomes, ExecutorConverge(j, result)
    PROVE  JInv' /\ Legal
<1> DEFINE r == [job[j] EXCEPT !.executor = IF result = "completed" THEN "finishing" ELSE "raised"]
<1>1. /\ ShapeOf(j) /\ DurableOf(j) /\ PlaceOf(j) /\ CancelledOnceOf(j) /\ TypeOK /\ RowOf(j)
      /\ job \in [Jobs -> JobRecord] /\ job[j] \in JobRecord
  BY DEF JInv, TypeOK, JobOf
<1>2. /\ job[j].executor = "alive" /\ job[j].task \in Executing /\ Active(j)
      /\ ~job[j].restoring /\ row[j] # "absent"
  BY <1>1 DEF ExecutorConverge, ShapeOf, DurableOf, ExecutorLive, Executing, Active
<1>3. /\ r \in JobRecord
      /\ r.status = job[j].status /\ r.task = job[j].task /\ r.callback = job[j].callback
      /\ r.executor \in {"finishing", "raised"} /\ r.claim = job[j].claim /\ ~r.restoring
  BY <1>1, <1>2 DEF JobRecord
<1>4. job' = [job EXCEPT ![j] = r]
      /\ UNCHANGED <<admission, slot, waiting, dispatch, up, observed, bounds>>
  BY DEF ExecutorConverge
<1>5. RowSettled(j)
  <2>1. outcome' = [outcome EXCEPT ![j] = result] /\ result # "unknown" /\ outcome[j] = "unknown"
    BY DEF ExecutorConverge
  <2>2. row' = [row EXCEPT ![j] = "terminal"]  BY <2>1 DEF ExecutorConverge, RowPhaseAfter
  <2>3. row[j] # "terminal"  BY <1>1, <2>1 DEF RowOf
  <2>. QED  BY <1>4, <2>1, <2>2, <2>3 DEF RowSettled
<1>6. row'[j] = "terminal"  BY <1>1, <1>5 DEF RowSettled, TypeOK
<1> HIDE DEF r
<1>7. Fits(r, j)
  BY <1>1, <1>2, <1>3, <1>4, SameStatus
  DEF Fits, ShapeOf, Active, Executing, Reached, TerminalStatus
<1>8. PlaceOf(j)'
  BY <1>1, <1>3, <1>4, <1>7, FitsJob, PlaceStays DEF Terminal, TaskAlive
<1>9. CancelledOnceOf(j)' /\ (Saw(j, "cancelled")' => r.status = "cancelled")
  BY <1>1, <1>2, <1>3, <1>4 DEF CancelledOnceOf, DurableOf, Saw, Active
<1>. QED
  BY <1>1, <1>2, <1>3, <1>4, <1>5, <1>6, <1>7, <1>8, <1>9, ReplacedSound, NobodyMoves
  DEF TypeOK, RowStep, Bounded, Executing

LEMMA ExecutorReturnSound ==
    ASSUME JInv, NEW j \in Jobs, up, ExecutorReturn(j)
    PROVE  JInv' /\ Legal
<1> DEFINE r == [job[j] EXCEPT !.executor = "returned"]
<1>1. /\ ShapeOf(j) /\ DurableOf(j) /\ PlaceOf(j) /\ CancelledOnceOf(j) /\ TypeOK
      /\ job \in [Jobs -> JobRecord] /\ job[j] \in JobRecord
  BY DEF JInv, TypeOK, JobOf
<1>2. /\ job[j].executor = "finishing" /\ job[j].task \in Executing /\ Active(j)
      /\ ~job[j].restoring /\ row[j] = "terminal"
  BY <1>1 DEF ExecutorReturn, ShapeOf, DurableOf, ExecutorLive, Executing, Active
<1>3. /\ r \in JobRecord
      /\ r.status = job[j].status /\ r.task = job[j].task /\ r.callback = job[j].callback
      /\ r.executor = "returned" /\ r.claim = job[j].claim /\ ~r.restoring
  BY <1>1, <1>2 DEF JobRecord
<1>4. /\ job' = [job EXCEPT ![j] = r] /\ Publish(j, "completed")
      /\ UNCHANGED <<durable, slot, waiting, dispatch, up, discarded, bounds>>
  BY DEF ExecutorReturn
<1> HIDE DEF r
<1>5. Fits(r, j)
  BY <1>1, <1>2, <1>3, <1>4, SameStatus
  DEF Fits, ShapeOf, Active, Executing, Reached, TerminalStatus
<1>6. PlaceOf(j)'
  BY <1>1, <1>3, <1>4, <1>5, FitsJob, PlaceStays DEF Terminal, TaskAlive
<1>7. /\ events' \in [Jobs -> Seq({"completed", "failed", "cancelled"})]
      /\ \A k \in Jobs \ {j} : events'[k] = events[k]
      /\ events'[j] = Append(events[j], "completed")
  BY <1>1, <1>4 DEF Publish, TypeOK
<1>8. CancelledOnceOf(j)' /\ ~Saw(j, "cancelled")'
  <2>1. ~Saw(j, "cancelled")  BY <1>1, <1>2 DEF DurableOf, Active
  <2>. QED  BY <1>1, <1>7, <2>1, OtherEvent
<1>. QED
  BY <1>1, <1>2, <1>3, <1>4, <1>5, <1>6, <1>7, <1>8, ReplacedSound, NobodyMoves
  DEF TypeOK, RowStep, RowsKept, Bounded, Executing

\* The body gives its executor up.
LEMMA AbandonSound ==
    ASSUME JInv, NEW j \in Jobs, up, Abandon(j)
    PROVE  JInv' /\ Legal
<1> DEFINE r == [job[j] EXCEPT !.executor = "none", !.abandoned = @ \cup {job[j].executor}]
<1>1. ShapeOf(j) /\ job \in [Jobs -> JobRecord] /\ job[j] \in JobRecord
  BY DEF JInv, TypeOK, JobOf
<1>2. job[j].task \in Executing /\ ExecutorLive(j)
  BY DEF Abandon, Stopping, Executing
<1>3. /\ r \in JobRecord
      /\ r.status = job[j].status /\ r.task = job[j].task /\ r.callback = job[j].callback
      /\ r.executor = "none" /\ r.claim = job[j].claim /\ r.restoring = job[j].restoring
  BY <1>1, <1>2 DEF JobRecord, ExecutorLive
<1>4. job' = [job EXCEPT ![j] = r]  BY DEF Abandon
<1>5. UNCHANGED <<durable, slot, waiting, dispatch, up, observed, bounds>>  BY DEF Abandon
<1> HIDE DEF r
<1>6. Fits(r, j)
  BY <1>1, <1>2, <1>3, <1>4, SameStatus
  DEF Fits, ShapeOf, Active, Executing, ExecutorLive, Reached, TerminalStatus
<1>. QED
  BY <1>1, <1>2, <1>3, <1>5, <1>6, MovedSound
  DEF ShapeOf, Active, Executing, Ending, TaskAlive, DoneTask, Canonical

\* An executor that was given up belongs to a job that was dispatched.
LEMMA AbandonedFacts ==
    ASSUME JInv, NEW j \in Jobs, job[j].abandoned # {}
    PROVE  /\ job[j].status \notin {"unloaded", "queued"} /\ job[j].task # "none"
           /\ ~job[j].restoring /\ row[j] # "absent"
BY DEF JInv, JobOf, ShapeOf, DurableOf

LEMMA AbandonedConvergesSound ==
    ASSUME JInv, NEW j \in Jobs, up, NEW result \in Outcomes, AbandonedConverges(j, result)
    PROVE  JInv' /\ Legal
<1> DEFINE r == [job[j] EXCEPT !.abandoned =
                    (@ \ {"alive"}) \cup (IF result = "completed" THEN {"finishing"} ELSE {})]
<1>1. /\ ShapeOf(j) /\ DurableOf(j) /\ PlaceOf(j) /\ CancelledOnceOf(j) /\ TypeOK /\ RowOf(j)
      /\ job \in [Jobs -> JobRecord] /\ job[j] \in JobRecord
  BY DEF JInv, TypeOK, JobOf
<1>2. /\ job[j].status \notin {"unloaded", "queued"} /\ job[j].task # "none"
      /\ ~job[j].restoring /\ row[j] # "absent"
  BY AbandonedFacts DEF AbandonedConverges
<1>3. /\ r \in JobRecord
      /\ r.status = job[j].status /\ r.task = job[j].task /\ r.callback = job[j].callback
      /\ r.executor = job[j].executor /\ r.claim = job[j].claim /\ ~r.restoring
  BY <1>1, <1>2 DEF JobRecord
<1>4. job' = [job EXCEPT ![j] = r]
      /\ UNCHANGED <<admission, slot, waiting, dispatch, up, observed, bounds>>
  BY DEF AbandonedConverges
<1>5. RowSettled(j) /\ row'[j] = "terminal"
  <2>1. outcome' = [outcome EXCEPT ![j] = result] /\ result # "unknown" /\ outcome[j] = "unknown"
    BY DEF AbandonedConverges
  <2>2. row' = [row EXCEPT ![j] = "terminal"]  BY <2>1 DEF AbandonedConverges, RowPhaseAfter
  <2>3. row[j] # "terminal"  BY <1>1, <2>1 DEF RowOf
  <2>. QED  BY <1>1, <1>4, <2>1, <2>2, <2>3 DEF RowSettled, TypeOK
<1> HIDE DEF r
<1>6. Fits(r, j)
  BY <1>1, <1>2, <1>3, <1>4, SameStatus
  DEF Fits, ShapeOf, Active, Executing, ExecutorLive, Reached, TerminalStatus
<1>7. PlaceOf(j)'
  BY <1>1, <1>3, <1>4, <1>6, FitsJob, PlaceStays DEF Terminal, TaskAlive
<1>8. CancelledOnceOf(j)' /\ (Saw(j, "cancelled")' => r.status = "cancelled")
  BY <1>1, <1>2, <1>3, <1>4 DEF CancelledOnceOf, DurableOf, Saw
<1>. QED
  BY <1>1, <1>2, <1>3, <1>4, <1>5, <1>6, <1>7, <1>8, ReplacedSound, NobodyMoves
  DEF TypeOK, RowStep, Bounded

LEMMA AbandonedReturnsSound ==
    ASSUME JInv, NEW j \in Jobs, up, AbandonedReturns(j)
    PROVE  JInv' /\ Legal
<1> DEFINE r == [job[j] EXCEPT !.abandoned = @ \ {"finishing"}]
<1>1. /\ ShapeOf(j) /\ DurableOf(j) /\ PlaceOf(j) /\ CancelledOnceOf(j) /\ TypeOK
      /\ job \in [Jobs -> JobRecord] /\ job[j] \in JobRecord
  BY DEF JInv, TypeOK, JobOf
<1>2. /\ job[j].status \notin {"unloaded", "queued"} /\ job[j].task # "none"
      /\ ~job[j].restoring /\ row[j] # "absent"
  BY AbandonedFacts DEF AbandonedReturns
<1>3. /\ r \in JobRecord
      /\ r.status = job[j].status /\ r.task = job[j].task /\ r.callback = job[j].callback
      /\ r.executor = job[j].executor /\ r.claim = job[j].claim /\ ~r.restoring
  BY <1>1, <1>2 DEF JobRecord
<1>4. /\ job' = [job EXCEPT ![j] = r] /\ Publish(j, "completed")
      /\ UNCHANGED <<durable, slot, waiting, dispatch, up, discarded, bounds>>
  BY DEF AbandonedReturns
<1> HIDE DEF r
<1>5. Fits(r, j)
  BY <1>1, <1>2, <1>3, <1>4, SameStatus
  DEF Fits, ShapeOf, Active, Executing, ExecutorLive, Reached, TerminalStatus
<1>6. PlaceOf(j)'
  BY <1>1, <1>3, <1>4, <1>5, FitsJob, PlaceStays DEF Terminal, TaskAlive
<1>7. /\ events' \in [Jobs -> Seq({"completed", "failed", "cancelled"})]
      /\ \A k \in Jobs \ {j} : events'[k] = events[k]
      /\ events'[j] = Append(events[j], "completed")
  BY <1>1, <1>4 DEF Publish, TypeOK
<1>8. CancelledOnceOf(j)' /\ (Saw(j, "cancelled")' => r.status = "cancelled")
  <2>1. Saw(j, "cancelled") => job[j].status = "cancelled"  BY <1>1, <1>2 DEF DurableOf
  <2>. QED  BY <1>1, <1>3, <1>7, <2>1, OtherEvent
<1>. QED
  BY <1>1, <1>2, <1>3, <1>4, <1>5, <1>6, <1>7, <1>8, ReplacedSound, NobodyMoves
  DEF TypeOK, RowStep, RowsKept, Bounded, DurableOf

-----------------------------------------------------------------------------
(* Control of a dispatched job. *)

LEMMA PauseSound ==
    ASSUME JInv, NEW j \in Jobs, Pause(j)
    PROVE  JInv' /\ Legal
<1> DEFINE r == [job[j] EXCEPT !.status = "paused", !.cancel = TRUE]
<1>1. /\ ShapeOf(j) /\ DurableOf(j) /\ PlaceOf(j) /\ CancelledOnceOf(j) /\ TypeOK
      /\ job \in [Jobs -> JobRecord] /\ job[j] \in JobRecord
  BY DEF JInv, TypeOK, JobOf
<1>2. /\ up /\ job[j].status = "running" /\ TaskAlive(j) /\ ~job[j].restoring
      /\ job[j].task # "none"
  BY <1>1 DEF Pause, Serving, ShapeOf, Reached, PausableStatus, TaskAlive
<1>3. /\ r \in JobRecord
      /\ r.status = "paused" /\ r.task = job[j].task /\ r.callback = job[j].callback
      /\ r.executor = job[j].executor /\ r.claim = job[j].claim /\ ~r.restoring
  BY <1>1, <1>2 DEF JobRecord, JobStatus
<1>4. /\ job' = [job EXCEPT ![j] = r]
      /\ UNCHANGED <<durable, slot, waiting, dispatch, up, observed, crashes, faults>>
  BY DEF Pause
<1>5. Bounded'  BY <1>1, BoundAssumption DEF Pause, Bounded, TypeOK
<1> HIDE DEF r
<1>6. Fits(r, j)
  BY <1>1, <1>2, <1>3, <1>4, StatusEdges
  DEF Fits, ShapeOf, Active, Executing, ExecutorLive, Reached, TerminalStatus
<1>7. PlaceOf(j)'
  BY <1>1, <1>2, <1>3, <1>4, <1>6, FitsJob, PlaceStays DEF Terminal, TaskAlive, TerminalStatus
<1>8. CancelledOnceOf(j)' /\ ~Saw(j, "cancelled")'
  BY <1>1, <1>2, <1>4 DEF CancelledOnceOf, DurableOf, Saw
<1>. QED
  BY <1>1, <1>2, <1>3, <1>4, <1>5, <1>6, <1>7, <1>8, ReplacedSound, NobodyMoves
  DEF TypeOK, RowStep, RowsKept, Canonical, DurableOf

\* _resume_job_locked.
LEMMA ResumedSound ==
    ASSUME JInv, NEW j \in Jobs, up, job[j].status = "paused", ~TaskAlive(j),
           slot' = j, job' = Resumed(j),
           UNCHANGED <<durable, waiting, dispatch, up, observed, bounds>>
    PROVE  JInv' /\ Legal
<1> DEFINE r == [job[j] EXCEPT !.status = "running", !.task = "created", !.cancel = FALSE,
                               !.executor = "none", !.resuming = FALSE]
<1>1. ShapeOf(j) /\ job \in [Jobs -> JobRecord] /\ job[j] \in JobRecord
  BY DEF JInv, TypeOK, JobOf
<1>2. ~job[j].restoring /\ slot' = slot /\ job[j].task \in DoneTask \cup {"none"}
  BY <1>1 DEF ShapeOf, Active, TaskAlive
<1>3. /\ r \in JobRecord
      /\ r.status = "running" /\ r.task = "created" /\ r.callback = job[j].callback
      /\ r.executor = "none" /\ r.claim = job[j].claim /\ ~r.restoring
  BY <1>1, <1>2 DEF JobRecord, JobStatus, ActiveStatus, TaskStates
<1>4. job' = [job EXCEPT ![j] = r]  BY DEF Resumed
<1> HIDE DEF r
<1>5. Fits(r, j)
  BY <1>1, <1>2, <1>3, <1>4, StatusEdges DEF Fits, Executing, Reached, TerminalStatus
<1>. QED
  BY <1>2, <1>3, <1>5, MovedSound DEF Ending, DoneTask, Canonical

LEMMA ResumeNowSound ==
    ASSUME JInv, NEW j \in Jobs, ResumeNow(j)
    PROVE  JInv' /\ Legal
BY ResumedSound DEF ResumeNow, Serving

LEMMA ResumeAfterTaskSound ==
    ASSUME JInv, NEW j \in Jobs, ResumeAfterTask(j)
    PROVE  JInv' /\ Legal
<1>1. CASE job[j].status = "paused" /\ slot \in {NoJob, j}
  BY <1>1, ResumedSound DEF ResumeAfterTask
<1>2. CASE ~(job[j].status = "paused" /\ slot \in {NoJob, j})
  <2> DEFINE r == [job[j] EXCEPT !.resuming = FALSE]
  <2>1. ShapeOf(j) /\ job \in [Jobs -> JobRecord] /\ job[j] \in JobRecord
    BY DEF JInv, TypeOK, JobOf
  <2>2. up /\ job[j].resuming /\ ~job[j].restoring /\ job[j].status \notin {"unloaded", "queued"}
    BY <2>1 DEF ShapeOf, ResumeAfterTask
  <2>3. /\ r \in JobRecord
        /\ r.status = job[j].status /\ r.task = job[j].task /\ r.callback = job[j].callback
        /\ r.executor = job[j].executor /\ r.claim = job[j].claim /\ ~r.restoring
        /\ r.abandoned = job[j].abandoned
    BY <2>1, <2>2 DEF JobRecord
  <2>4. job' = [job EXCEPT ![j] = r]
        /\ UNCHANGED <<durable, slot, waiting, dispatch, up, observed, bounds>>
    BY <1>2 DEF ResumeAfterTask
  <2> HIDE DEF r
  <2>5. Fits(r, j)
    BY <2>1, <2>2, <2>3, <2>4, SameStatus
    DEF Fits, ShapeOf, Active, Executing, ExecutorLive, Reached, TerminalStatus
  <2>. QED
    BY <2>2, <2>3, <2>4, <2>5, MovedSound DEF TaskAlive
<1>. QED  BY <1>1, <1>2

\* A cancel request: its own finalizer runs at once without a task, waits for
\* the task of a paused job, and is not needed otherwise.
LEMMA CancelRequestSound ==
    ASSUME JInv, NEW j \in Jobs, CancelRequest(j), Bounded',
           chosen' \in [Procs -> Jobs \cup {NoJob}], pc' \in [Procs -> Labels],
           pc'[Ctl(j)] = AfterCancelRequest(j),
           \A q \in {Task(j), Fin(j)} : pc'[q] = pc[q],
           \A k \in Jobs \ {j} : \A q \in {Task(k), Fin(k), Ctl(k)} : pc'[q] = pc[q]
    PROVE  JInv' /\ Legal
<1> DEFINE r == [job[j] EXCEPT !.status = "cancelling", !.cancel = @ \/ TaskAlive(j)]
<1>1. /\ ShapeOf(j) /\ DurableOf(j) /\ PlaceOf(j) /\ CancelledOnceOf(j) /\ TypeOK
      /\ job \in [Jobs -> JobRecord] /\ job[j] \in JobRecord
  BY DEF JInv, TypeOK, JobOf
<1>2. /\ up /\ job[j].status \in {"running", "paused", "cancelling"} /\ ~job[j].restoring
  BY <1>1 DEF CancelRequest, Serving, ShapeOf, Reached, ActiveStatus
<1>3. /\ r \in JobRecord
      /\ r.status = "cancelling" /\ r.task = job[j].task /\ r.callback = job[j].callback
      /\ r.executor = job[j].executor /\ r.claim = job[j].claim /\ ~r.restoring
      /\ r.abandoned = job[j].abandoned
  BY <1>1, <1>2 DEF JobRecord, JobStatus, TaskAlive
<1>4. /\ job' = [job EXCEPT ![j] = r]
      /\ UNCHANGED <<durable, slot, waiting, loaded, wanted, up, observed>>
  BY DEF CancelRequest
<1> HIDE DEF r
<1>5. Fits(r, j)
  BY <1>1, <1>2, <1>3, <1>4, StatusEdges, SameStatus
  DEF Fits, ShapeOf, Active, Executing, ExecutorLive, Reached, TerminalStatus
<1>6. PlaceOf(j)'
  <2>1. job'[j] = r /\ (TaskAlive(j)' <=> TaskAlive(j))  BY <1>3, <1>5, FitsJob DEF TaskAlive
  <2>2. pc'[Ctl(j)] \in {"idle", "wait_task", "finalize"} /\ (pc'[Ctl(j)] = "finalize" => ~TaskAlive(j))
    BY DEF AfterCancelRequest
  <2>3. ~Terminal(j)  BY <1>2 DEF Terminal, TerminalStatus
  <2>. QED  BY <1>1, <1>3, <2>1, <2>2, <2>3 DEF PlaceOf
<1>7. CancelledOnceOf(j)' /\ ~Saw(j, "cancelled")'
  BY <1>1, <1>2, <1>4 DEF CancelledOnceOf, DurableOf, Saw
<1>. QED
  BY <1>1, <1>2, <1>3, <1>4, <1>5, <1>6, <1>7, ReplacedSound
  DEF TypeOK, RowStep, RowsKept, Canonical, DurableOf

LEMMA CancelActiveSound ==
    ASSUME JInv, NEW j \in Jobs, CancelActive(j)
    PROVE  JInv' /\ Legal
<1>1. TypeOK /\ GoTo(Ctl(j), AfterCancelRequest(j)) /\ UNCHANGED <<chosen, requests>>
  BY DEF CancelActive, JInv
<1>2. AfterCancelRequest(j) \in Labels  BY DEF AfterCancelRequest, Labels
<1>3. Task(j) # Ctl(j) /\ Fin(j) # Ctl(j)  BY DEF Task, Fin, Ctl
<1>4. CancelRequest(j)  BY DEF CancelActive
<1>5. Bounded'  BY <1>1, <1>4 DEF Bounded, CancelRequest, TypeOK
<1>. QED  BY <1>1, <1>2, <1>3, <1>4, <1>5, Moved, CancelRequestSound DEF TypeOK

LEMMA InterruptSound ==
    ASSUME JInv, NEW j \in Jobs, Interrupt(j)
    PROVE  JInv' /\ Legal
<1>1. /\ TypeOK /\ CancelRequest(j)
      /\ chosen' = [chosen EXCEPT ![Notify] = j]
      /\ requests < MaxRequests /\ requests' = requests + 1
  BY DEF Interrupt, JInv
<1>2. AfterCancelRequest(j) \in Labels /\ {"notify", "wait_control"} \subseteq Labels
  BY DEF AfterCancelRequest, Labels
<1>3. PICK label \in Labels :
        pc' = [pc EXCEPT ![Ctl(j)] = AfterCancelRequest(j), ![Notify] = label]
  BY <1>2 DEF Interrupt
<1>4. /\ Notify \in Procs
      /\ \A k \in Jobs : \A q \in {Task(k), Fin(k), Ctl(k)} : q \in Procs /\ q # Notify
      /\ \A k \in Jobs : Task(k) # Ctl(j) /\ Fin(k) # Ctl(j) /\ (k # j => Ctl(k) # Ctl(j))
  BY DEF Procs, Task, Fin, Ctl, Notify
<1>5. pc \in [Procs -> Labels]  BY <1>1 DEF TypeOK, Labels
<1>6. /\ pc' \in [Procs -> Labels] /\ pc'[Ctl(j)] = AfterCancelRequest(j)
      /\ \A q \in Procs \ {Notify, Ctl(j)} : pc'[q] = pc[q]
  BY <1>2, <1>3, <1>4, <1>5
<1>7. /\ \A q \in {Task(j), Fin(j)} : pc'[q] = pc[q]
      /\ \A k \in Jobs \ {j} : \A q \in {Task(k), Fin(k), Ctl(k)} : pc'[q] = pc[q]
  BY <1>4, <1>6
<1>8. Bounded'  BY <1>1, BoundAssumption DEF Bounded, CancelRequest, TypeOK
<1>9. chosen' \in [Procs -> Jobs \cup {NoJob}]  BY <1>1 DEF TypeOK
<1>. QED  BY <1>1, <1>6, <1>7, <1>8, <1>9, CancelRequestSound

\* Cancelling a job that is still queued closes its row first.
LEMMA CancelQueuedSound ==
    ASSUME JInv, NEW j \in Jobs, CancelQueued(j)
    PROVE  JInv' /\ Legal
<1>1. /\ ShapeOf(j) /\ DurableOf(j) /\ PlaceOf(j) /\ CancelledOnceOf(j) /\ TypeOK /\ RowOf(j)
      /\ job \in [Jobs -> JobRecord] /\ job[j] \in JobRecord
  BY DEF JInv, TypeOK, JobOf
<1>2. /\ up /\ job[j].status = "queued" /\ row[j] # "absent"
      /\ UNCHANGED <<slot, dispatch, up, observed, bounds>>
  BY <1>1 DEF CancelQueued, Serving, DurableOf
<1>3. Persist(j, "cancelled") /\ "cancelled" \in TerminalMarks
  BY DEF CancelQueued, TerminalMarks
<1>4. (RowsKept \/ RowSettled(j)) /\ row'[j] = "terminal"
  BY <1>1, <1>3, PersistFacts
<1>5. /\ waiting' \subseteq waiting
      /\ \/ job' = job
         \/ waiting' = waiting \ {j} /\ job' = [job EXCEPT ![j].status = "cancelled"]
  BY DEF CancelQueued
<1>6. /\ job' \in [Jobs -> JobRecord]
      /\ \A k \in Jobs \ {j} : job'[k] = job[k]
      /\ \/ job'[j] = job[j]
         \/ j \notin waiting' /\ job'[j] = [job[j] EXCEPT !.status = "cancelled"]
  <2>1. CASE job' = job  BY <1>1, <2>1
  <2>2. CASE waiting' = waiting \ {j} /\ job' = [job EXCEPT ![j].status = "cancelled"]
    <3>1. [job[j] EXCEPT !.status = "cancelled"] \in JobRecord
      BY <1>1 DEF JobRecord, JobStatus, TerminalStatus
    <3>. QED  BY <1>1, <2>2, <3>1
  <2>. QED  BY <1>5, <2>1, <2>2
<1>7. /\ job'[j].status \in {"queued", "cancelled"}
      /\ job'[j].status = "cancelled" => j \notin waiting'
      /\ job'[j].task = "none" /\ job'[j].callback = "none" /\ job'[j].executor = job[j].executor
      /\ ~job'[j].restoring /\ ~job'[j].resuming /\ job'[j].claim = job[j].claim
      /\ job[j].task = "none" /\ job'[j].abandoned = job[j].abandoned
  <2>1. job[j].task = "none" /\ job[j].callback = "none" /\ ~job[j].restoring /\ ~job[j].resuming
    BY <1>1, <1>2 DEF ShapeOf
  <2>2. CASE job'[j] = job[j]
    BY <1>1, <1>2, <1>5, <1>6, <2>1, <2>2 DEF JobRecord
  <2>3. CASE j \notin waiting' /\ job'[j] = [job[j] EXCEPT !.status = "cancelled"]
    BY <1>1, <2>1, <2>3 DEF JobRecord
  <2>. QED  BY <1>6, <2>2, <2>3
<1>8. Here(j)
  BY <1>1, <1>2, <1>6, <1>7, StatusEdges, SameStatus, NobodyMoves DEF Here, TypeOK
<1>9. ShapeOf(j)'
  BY <1>1, <1>7 DEF ShapeOf, Reached, Active, Executing, ExecutorLive
<1>10. DurableOf(j)'
  BY <1>1, <1>2, <1>4, <1>5, <1>7 DEF DurableOf, Unstarted, Canonical, Saw
<1>11. PlaceOf(j)'
  BY <1>1, <1>2, <1>7 DEF PlaceOf, TaskAlive, Terminal, TerminalStatus, Ending
<1>12. CancelledOnceOf(j)'  BY <1>1, <1>2 DEF CancelledOnceOf
<1>. QED
  BY <1>1, <1>2, <1>4, <1>5, <1>8, <1>9, <1>10, <1>11, <1>12, HereSound
  DEF RowStep, JobOf, TypeOK, Bounded

-----------------------------------------------------------------------------
(* The finalizers. *)

\* A step that leaves every job and row alone and moves one finalizer of j.
LEMMA FinalizerMoves ==
    ASSUME JInv, NEW j \in Jobs, NEW p \in {Fin(j), Ctl(j)}, up, pc' \in [Procs -> Labels],
           \A q \in {Task(j), Fin(j), Ctl(j)} \ {p} : pc'[q] = pc[q],
           \A k \in Jobs \ {j} : \A q \in {Task(k), Fin(k), Ctl(k)} : pc'[q] = pc[q],
           pc'[p] \in {"idle", "close", "finalize"},
           pc'[p] = "finalize" => ~TaskAlive(j) /\ (job[j].status = "cancelling" \/ Terminal(j)),
           UNCHANGED <<durable, job, slot, waiting, chosen, loaded, wanted, up, observed>>, Bounded'
    PROVE  JInv' /\ Legal
<1>1. JobOf(j) /\ TypeOK /\ job \in [Jobs -> JobRecord]  BY DEF JInv, TypeOK
<1>2. Here(j)  BY <1>1, SameStatus DEF Here, TypeOK
<1>3. PlaceOf(j)'
  <2>1. Task(j) # p  BY DEF Task, Fin, Ctl
  <2>. QED  BY <1>1, <2>1 DEF JobOf, PlaceOf, TaskAlive, Terminal
<1>4. ShapeOf(j)' /\ DurableOf(j)' /\ CancelledOnceOf(j)'
  BY <1>1, ShapeKept, DurableKept, OnceKept DEF JobOf
<1>. QED  BY <1>1, <1>2, <1>3, <1>4, HereSound DEF RowStep, RowsKept, JobOf, TypeOK

LEMMA CtlWakeSound ==
    ASSUME JInv, NEW j \in Jobs, CtlWake(j)
    PROVE  JInv' /\ Legal
<1> DEFINE label == IF job[j].task = "done_error" THEN "idle" ELSE "finalize"
<1>1. TypeOK /\ PlaceOf(j)  BY DEF JInv, JobOf
<1>2. label \in Labels /\ GoTo(Ctl(j), label) /\ up /\ ~TaskAlive(j)
      /\ UNCHANGED <<durable, job, slot, waiting, chosen, loaded, wanted, up, observed, bounds>>
  BY DEF CtlWake, Labels
<1>3. job[j].status = "cancelling" \/ Terminal(j)  BY <1>1 DEF PlaceOf, CtlWake
<1>4. label \in {"idle", "finalize"}  OBVIOUS
<1>5. Bounded'  BY <1>1, <1>2 DEF Bounded, TypeOK
<1> HIDE DEF label
<1>6. /\ pc' \in [Procs -> Labels] /\ pc'[Ctl(j)] = label
      /\ \A k \in Jobs \ {j} : \A q \in {Task(k), Fin(k), Ctl(k)} : pc'[q] = pc[q]
      /\ \A q \in {Task(j), Fin(j), Ctl(j)} \ {Ctl(j)} : pc'[q] = pc[q]
  BY <1>1, <1>2, Moved
<1>. QED  BY <1>2, <1>3, <1>4, <1>5, <1>6, FinalizerMoves

LEMMA FinalizeFaultSound ==
    ASSUME JInv, NEW j \in Jobs, NEW p \in {Fin(j), Ctl(j)}, FinalizeFault(p)
    PROVE  JInv' /\ Legal
<1>1. TypeOK /\ pc \in [Procs -> Labels]  BY DEF JInv, TypeOK, Labels
<1>2. /\ up /\ Bounded'
      /\ UNCHANGED <<durable, job, slot, waiting, chosen, loaded, wanted, up, observed>>
  BY <1>1, BoundAssumption DEF FinalizeFault, Bounded, TypeOK
<1>3. "idle" \in Labels  BY DEF Labels
<1>4. PICK label \in Labels : pc' = [pc EXCEPT ![p] = "idle", ![Notify] = label]
  <2>1. Notify \in Procs /\ p # Notify  BY DEF Procs, Notify, Fin, Ctl
  <2>2. pc[Notify] \in Labels  BY <1>1, <2>1
  <2>. QED  BY <1>3, <2>1, <2>2 DEF FinalizeFault
<1>5. /\ Notify \in Procs /\ p \in Procs
      /\ \A k \in Jobs : \A q \in {Task(k), Fin(k), Ctl(k)} : q \in Procs /\ q # Notify
      /\ \A k \in Jobs \ {j} : p \notin {Task(k), Fin(k), Ctl(k)}
  BY DEF Procs, Task, Fin, Ctl, Notify
<1>6. /\ pc' \in [Procs -> Labels] /\ pc'[p] = "idle"
      /\ \A q \in Procs \ {Notify, p} : pc'[q] = pc[q]
  BY <1>1, <1>3, <1>4, <1>5
<1>7. /\ \A q \in {Task(j), Fin(j), Ctl(j)} \ {p} : pc'[q] = pc[q]
      /\ \A k \in Jobs \ {j} : \A q \in {Task(k), Fin(k), Ctl(k)} : pc'[q] = pc[q]
  BY <1>5, <1>6
<1>8. pc'[p] \in {"idle", "close", "finalize"} /\ pc'[p] # "finalize"  BY <1>6
<1>. QED  BY <1>2, <1>6, <1>7, <1>8, FinalizerMoves

\* _finalize_cancelled_without_task_body.
LEMMA FinalizeSound ==
    ASSUME JInv, NEW j \in Jobs, NEW p \in {Fin(j), Ctl(j)}, Finalize(p)
    PROVE  JInv' /\ Legal
<1> DEFINE label == IF job[j].status \in {"cancelling", "cancelled"} THEN "close" ELSE "idle"
<1>1. /\ ShapeOf(j) /\ DurableOf(j) /\ PlaceOf(j) /\ CancelledOnceOf(j) /\ TypeOK /\ RowOf(j)
      /\ job \in [Jobs -> JobRecord] /\ job[j] \in JobRecord
  BY DEF JInv, TypeOK, JobOf
<1>2. p[2] = j  BY DEF Fin, Ctl
<1>3. /\ up /\ label \in Labels /\ label \in {"idle", "close"} /\ GoTo(p, label)
      /\ pc[p] = "finalize" /\ ~TaskAlive(j)
      /\ UNCHANGED <<slot, waiting, chosen, loaded, wanted, up, discarded, bounds>>
  BY <1>1, <1>2 DEF Finalize, Labels, PlaceOf
<1>4. Bounded'  BY <1>1, <1>3 DEF Bounded, TypeOK
<1> HIDE DEF label
<1>5. /\ pc' \in [Procs -> Labels] /\ pc'[p] = label
      /\ \A k \in Jobs \ {j} : \A q \in {Task(k), Fin(k), Ctl(k)} : pc'[q] = pc[q]
      /\ \A q \in {Task(j), Fin(j), Ctl(j)} \ {p} : pc'[q] = pc[q]
  BY <1>1, <1>3, Moved
<1>6. CASE job[j].status # "cancelling"
  <2>1. UNCHANGED <<durable, job, events>>  BY <1>2, <1>6 DEF Finalize
  <2>2. pc'[p] \in {"idle", "close", "finalize"} /\ pc'[p] # "finalize"  BY <1>3, <1>5
  <2>. QED  BY <1>3, <1>4, <1>5, <2>1, <2>2, FinalizerMoves
<1>7. CASE job[j].status = "cancelling"
  <2> DEFINE r == [job[j] EXCEPT !.status = "cancelled"]
  <2>1. /\ Persist(j, "cancelled") /\ Publish(j, "cancelled") /\ job' = [job EXCEPT ![j] = r]
    BY <1>2, <1>7 DEF Finalize
  <2>2. /\ ~job[j].restoring /\ ~ExecutorLive(j) /\ row[j] # "absent"
        /\ job[j].task \in DoneTask \cup {"none"}
    BY <1>1, <1>3, <1>7 DEF ShapeOf, DurableOf, TaskAlive, Executing, DoneTask
  <2>3. /\ r \in JobRecord
        /\ r.status = "cancelled" /\ r.task = job[j].task /\ r.callback = job[j].callback
        /\ r.executor = job[j].executor /\ r.claim = job[j].claim /\ ~r.restoring
        /\ r.abandoned = job[j].abandoned
    BY <1>1, <2>2 DEF JobRecord, JobStatus, TerminalStatus
  <2>4. (RowsKept \/ RowSettled(j)) /\ row'[j] = "terminal"
    BY <1>1, <2>1, PersistFacts DEF TerminalMarks
  <2> HIDE DEF r
  <2>5. Fits(r, j)
    BY <1>1, <1>7, <2>1, <2>2, <2>3, StatusEdges
    DEF Fits, ShapeOf, Executing, ExecutorLive, Reached, TerminalStatus, DoneTask
  <2>6. PlaceOf(j)'
    <3>1. job'[j] = r /\ Task(j) # p  BY <2>5, FitsJob DEF Task, Fin, Ctl
    <3>. QED
      BY <1>1, <1>3, <1>5, <2>2, <2>3, <3>1
      DEF PlaceOf, TaskAlive, Terminal, TerminalStatus
  <2>7. /\ events' \in [Jobs -> Seq({"completed", "failed", "cancelled"})]
        /\ \A k \in Jobs \ {j} : events'[k] = events[k]
        /\ events'[j] = Append(events[j], "cancelled")
    BY <1>1, <2>1 DEF Publish, TypeOK
  <2>8. CancelledOnceOf(j)'
    <3>1. ~Saw(j, "cancelled")  BY <1>1, <1>7 DEF DurableOf
    <3>. QED  BY <1>1, <2>7, <3>1, FirstCancelled
  <2>. QED
    BY <1>1, <1>3, <1>4, <1>5, <2>2, <2>3, <2>4, <2>5, <2>6, <2>7, <2>8, ReplacedSound
    DEF TypeOK, RowStep
<1>. QED  BY <1>6, <1>7

-----------------------------------------------------------------------------
(* Dispatch: what _schedule_next_job_if_needed and _start_next_pending do. *)

Agree(r, s) == /\ r.executor = s.executor /\ r.claim = s.claim
               /\ r.restoring = s.restoring /\ r.resuming = s.resuming
               /\ r.abandoned = s.abandoned

SameTask(r, s) == r.task = s.task /\ r.callback = s.callback

\* A coroutine that ends takes only its own task with it.
LEMMA EndedFacts ==
    ASSUME NEW p \in Procs, NEW jobs \in [Jobs -> JobRecord], NEW failing \in BOOLEAN
    PROVE  /\ Ended(p, jobs, failing) \in [Jobs -> JobRecord]
           /\ \A k \in Jobs :
                /\ Agree(Ended(p, jobs, failing)[k], jobs[k])
                /\ Ended(p, jobs, failing)[k].status = jobs[k].status
                /\ p # Task(k) => Ended(p, jobs, failing)[k] = jobs[k]
                /\ p = Task(k) => Ended(p, jobs, failing)[k].task \in {"done_ok", "done_error"}
<1>1. CASE p[1] # "task"
  <2>1. Ended(p, jobs, failing) = jobs  BY <1>1 DEF Ended
  <2>2. \A k \in Jobs : p # Task(k)  BY <1>1 DEF Task
  <2>. QED  BY <2>1, <2>2 DEF Agree
<1>2. CASE p[1] = "task"
  <2>1. PICK j \in Jobs : p = Task(j) /\ p[2] = j
    BY <1>2 DEF Procs, Restore, Notify, Task
  <2> DEFINE error == failing \/ jobs[j].task = "releasing_error"
             r == [jobs[j] EXCEPT !.task = IF error THEN "done_error" ELSE "done_ok",
                                  !.callback = IF error THEN "error" ELSE "none"]
  <2>2. Ended(p, jobs, failing) = [jobs EXCEPT ![j] = r]  BY <1>2, <2>1 DEF Ended
  <2>3. /\ r \in JobRecord /\ r.task \in {"done_ok", "done_error"}
        /\ Agree(r, jobs[j]) /\ r.status = jobs[j].status
    <3>1. jobs[j] \in JobRecord  OBVIOUS
    <3>2. r.task = IF error THEN "done_error" ELSE "done_ok"  BY <3>1 DEF JobRecord
    <3>. QED  BY <3>1, <3>2, ZenonT(60) DEF JobRecord, TaskStates, DoneTask, Agree
  <2> HIDE DEF r
  <2>4. \A k \in Jobs : p = Task(k) => k = j  BY <2>1 DEF Task
  <2>5. \A k \in Jobs \ {j} : Ended(p, jobs, failing)[k] = jobs[k]  BY <2>2
  <2>6. Ended(p, jobs, failing)[j] = r /\ Ended(p, jobs, failing) \in [Jobs -> JobRecord]
    BY <2>2, <2>3
  <2>. QED  BY <2>1, <2>3, <2>4, <2>5, <2>6 DEF Agree
<1>. QED  BY <1>1, <1>2

\* The follow-ups of a failed job fail; nothing else moves.
LEMMA DiscardFacts ==
    ASSUME TypeOK
    PROVE  /\ AfterDiscard \in [Jobs -> JobRecord]
           /\ \A k \in Jobs \ Stale : AfterDiscard[k] = job[k]
           /\ \A k \in Jobs \cap Stale :
                /\ job[k].status = "queued" /\ AfterDiscard[k].status = "failed"
                /\ Agree(AfterDiscard[k], job[k]) /\ SameTask(AfterDiscard[k], job[k])
           /\ Kept = waiting \ Stale
<1>1. ASSUME NEW k \in Jobs
      PROVE  LET r == [job[k] EXCEPT !.status = "failed"] IN
             r \in JobRecord /\ r.status = "failed" /\ Agree(r, job[k]) /\ SameTask(r, job[k])
  <2>1. job[k] \in JobRecord  BY DEF TypeOK
  <2>. QED  BY <2>1 DEF JobRecord, JobStatus, TerminalStatus, Agree, SameTask
<1>2. \A k \in Stale : job[k].status = "queued"  BY DEF Stale
<1>. QED  BY <1>1, <1>2 DEF AfterDiscard, Kept, TypeOK

\* What such a step does to one job: it is discarded, or its task ends, or it
\* stays as it is.
LEMMA DispatchedJob ==
    ASSUME TypeOK, NEW p \in Procs, NEW k \in Jobs, JobOf(k), pc[p] # "idle",
           NEW label \in {"idle", "select", "launch", "handover"}, GoTo(p, label),
           job'[k].executor = job[k].executor, job'[k].abandoned = job[k].abandoned,
           job'[k].restoring = job[k].restoring, job'[k].resuming = job[k].resuming,
           job'[k].status = job[k].status
            \/ (job[k].status = "queued" /\ job'[k].status = "failed"),
           SameTask(job'[k], job[k])
            \/ (p = Task(k) /\ label = "idle" /\ job'[k].task \in {"done_ok", "done_error"}),
           p = Task(k) /\ label = "idle" => job'[k].task \in {"done_ok", "done_error"},
           Active(k) => slot' = slot /\ job'[k].claim = job[k].claim,
           row'[k] = row[k], loaded' = loaded,
           events'[k] = events[k]
            \/ (job[k].status = "queued" /\ events'[k] = Append(events[k], "failed")),
           label = "handover" /\ p \in {Task(k), Fin(k), Ctl(k)} => Terminal(k),
           k \in waiting' => k \in waiting /\ job'[k].status = job[k].status
    PROVE  JobOf(k)' /\ MayTransition(job[k].status, job'[k].status)
<1>1. ShapeOf(k) /\ DurableOf(k) /\ PlaceOf(k) /\ CancelledOnceOf(k)  BY DEF JobOf
<1>2. /\ Task(k) \in Procs /\ Fin(k) \in Procs /\ Ctl(k) \in Procs
      /\ Task(k) # Fin(k) /\ Task(k) # Ctl(k)
  BY DEF Procs, Task, Fin, Ctl
<1>3. \A q \in {Task(k), Fin(k), Ctl(k)} : pc'[q] = IF q = p THEN label ELSE pc[q]
  BY <1>2 DEF GoTo, TypeOK
<1>4. p = Task(k) => job[k].task \in Ending  BY <1>1 DEF PlaceOf
<1>5. ShapeOf(k)'
  BY <1>1, <1>4 DEF ShapeOf, Active, Executing, Ending, ExecutorLive, SameTask, Reached
<1>6. PlaceOf(k)'
  <2>1. TaskAlive(k)' => TaskAlive(k)  BY DEF TaskAlive, DoneTask, SameTask
  <2>2. Terminal(k) => Terminal(k)'  BY DEF Terminal, TerminalStatus
  <2>3. pc'[Task(k)] # "idle" => job'[k].task \in Ending
    BY <1>1, <1>3 DEF PlaceOf, SameTask
  <2>. QED
    BY <1>1, <1>2, <1>3, <2>1, <2>2, <2>3 DEF PlaceOf
<1>7. CancelledOnceOf(k)' /\ (Saw(k, "cancelled")' => Saw(k, "cancelled"))
  <2>1. CASE events'[k] = events[k]  BY <1>1, <2>1 DEF CancelledOnceOf, Saw
  <2>2. CASE events'[k] = Append(events[k], "failed")  BY <1>1, <2>2, OtherEvent
  <2>. QED  BY <2>1, <2>2
<1>8. DurableOf(k)'
  <2>1. Unstarted(k)' => Unstarted(k)
    BY <1>4 DEF Unstarted, SameTask, Ending
  <2>. QED  BY <1>1, <1>7, <2>1 DEF DurableOf, Canonical
<1>9. MayTransition(job[k].status, job'[k].status)  BY SameStatus, StatusEdges
<1>. QED  BY <1>5, <1>6, <1>7, <1>8, <1>9 DEF JobOf

\* A step of p that leaves every row alone and gives the slot to nobody.
LEMMA PassedSound ==
    ASSUME JInv, NEW p \in Procs, up, pc[p] # "idle",
           NEW label \in {"idle", "select", "launch"}, GoTo(p, label),
           NEW jobs, jobs = job \/ (jobs = AfterDiscard /\ waiting' \subseteq Kept),
           NEW failing \in BOOLEAN,
           job' = IF label = "idle" THEN Ended(p, jobs, failing) ELSE jobs,
           slot' = slot \/ (slot' = NoJob /\ ~SlotBusy),
           events' = events \/ (jobs = AfterDiscard /\ RecordDiscarded),
           waiting' \subseteq waiting, discarded' \subseteq Jobs,
           chosen' \in [Procs -> Jobs \cup {NoJob}],
           UNCHANGED <<durable, loaded, wanted, up, bounds>>
    PROVE  JInv' /\ Legal
<1>1. TypeOK /\ job \in [Jobs -> JobRecord]  BY DEF JInv, TypeOK
<1>2. jobs \in [Jobs -> JobRecord]  BY <1>1, DiscardFacts
<1>3. job' \in [Jobs -> JobRecord]  BY <1>2, EndedFacts
<1>4. ASSUME NEW k \in Jobs
      PROVE  /\ jobs[k] = job[k]
                \/ (k \in Stale /\ job[k].status = "queued" /\ jobs[k].status = "failed"
                    /\ Agree(jobs[k], job[k]) /\ SameTask(jobs[k], job[k]))
             /\ Agree(job'[k], jobs[k]) /\ job'[k].status = jobs[k].status
             /\ p # Task(k) \/ label # "idle" => job'[k] = jobs[k]
             /\ p = Task(k) /\ label = "idle" => job'[k].task \in {"done_ok", "done_error"}
  BY <1>1, <1>2, DiscardFacts, EndedFacts DEF Agree
<1>5. ASSUME NEW k \in Jobs
      PROVE  /\ events'[k] = events[k]
                \/ (job[k].status = "queued" /\ events'[k] = Append(events[k], "failed"))
             /\ events'[k] \in Seq({"completed", "failed", "cancelled"})
  <2>1. events[k] \in Seq({"completed", "failed", "cancelled"})  BY <1>1 DEF TypeOK
  <2>2. CASE events'[k] = events[k]
    <3>1. events'[k] \in Seq({"completed", "failed", "cancelled"})  BY <2>1, <2>2, Zenon
    <3>. QED  BY <2>2, <3>1
  <2>3. CASE k \in Stale /\ events'[k] = Append(events[k], "failed")
    BY <1>1, <2>1, <2>3, DiscardFacts
  <2>. QED  BY <2>2, <2>3 DEF RecordDiscarded
<1>6. events' \in [Jobs -> Seq({"completed", "failed", "cancelled"})]
  <2>1. CASE events' = events  BY <1>1, <2>1 DEF TypeOK
  <2>2. CASE RecordDiscarded  BY <1>5, <2>2 DEF RecordDiscarded
  <2>. QED  BY <2>1, <2>2
<1>7. ASSUME NEW k \in Jobs PROVE JobOf(k)' /\ MayTransition(job[k].status, job'[k].status)
  <2>1. JobOf(k) /\ job[k] \in JobRecord  BY <1>1 DEF JInv
  <2>2. /\ job'[k].status = job[k].status
            \/ (k \in Stale /\ job[k].status = "queued" /\ job'[k].status = "failed")
        /\ job'[k].executor = job[k].executor /\ job'[k].claim = job[k].claim
        /\ job'[k].abandoned = job[k].abandoned
        /\ job'[k].restoring = job[k].restoring /\ job'[k].resuming = job[k].resuming
        /\ SameTask(job'[k], job[k])
            \/ (p = Task(k) /\ label = "idle" /\ job'[k].task \in {"done_ok", "done_error"})
    <3>1. jobs[k] = job[k]
            \/ (k \in Stale /\ job[k].status = "queued" /\ jobs[k].status = "failed"
                /\ Agree(jobs[k], job[k]) /\ SameTask(jobs[k], job[k]))
      BY <1>4
    <3>2. Agree(job'[k], jobs[k]) /\ job'[k].status = jobs[k].status  BY <1>4
    <3>3. SameTask(job'[k], jobs[k])
            \/ (p = Task(k) /\ label = "idle" /\ job'[k].task \in {"done_ok", "done_error"})
      BY <1>4 DEF SameTask
    <3>. QED  BY <3>1, <3>2, <3>3 DEF Agree, SameTask
  <2>3. p = Task(k) /\ label = "idle" => job'[k].task \in {"done_ok", "done_error"}  BY <1>4
  <2>4. Active(k) => slot' = slot
    BY <2>1 DEF JobOf, ShapeOf, Active, SlotBusy, Terminal, TerminalStatus
  <2>5. k \in waiting' => k \in waiting /\ job'[k].status = job[k].status
    <3>1. CASE jobs = job  BY <1>4, <3>1 DEF Agree
    <3>2. CASE waiting' \subseteq Kept  BY <2>2, <3>2 DEF Kept
    <3>. QED  BY <3>1, <3>2
  <2>6. label # "handover" /\ row'[k] = row[k]  OBVIOUS
  <2>. QED  BY <1>1, <1>5, <2>1, <2>2, <2>3, <2>4, <2>5, <2>6, DispatchedJob
<1>8. \A k \in Jobs : RowOf(k)'  BY RowsStay DEF JInv, RowsKept
<1>9. SlotSound'
  <2>1. \A k \in Jobs : job'[k].claim = job[k].claim
                        /\ (job'[k].status = job[k].status \/ job[k].status = "queued")
    BY <1>4 DEF Agree
  <2>. QED  BY <2>1 DEF JInv, TypeOK, SlotSound, Open
<1>10. TypeOK'
  <2>1. pc' \in [Procs -> Labels]  BY <1>1 DEF GoTo, TypeOK, Labels
  <2>2. slot' \in Jobs \cup {NoJob}  BY <1>1 DEF TypeOK
  <2>. QED  BY <1>1, <1>3, <1>6, <2>1, <2>2 DEF TypeOK, Labels
<1>. QED  BY <1>7, <1>8, <1>9, <1>10 DEF JInv, Legal

LEMMA SelectCurrentSound ==
    ASSUME JInv, NEW p \in Procs, SelectCurrent(p)
    PROVE  JInv' /\ Legal
<1>1. /\ up /\ pc[p] # "idle" /\ slot \in Jobs /\ TypeOK
      /\ UNCHANGED <<durable, slot, waiting, loaded, wanted, up, observed, bounds>>
  BY DEF SelectCurrent, MaySelect, SlotBusy, JInv, TypeOK
<1>2. CASE Unstarted(slot)
  <2>1. job' = job /\ GoTo(p, "launch") /\ chosen' = [chosen EXCEPT ![p] = slot]
    BY <1>2 DEF SelectCurrent
  <2>2. chosen' \in [Procs -> Jobs \cup {NoJob}]  BY <1>1, <2>1 DEF TypeOK
  <2> DEFINE label == "launch"
  <2>3. GoTo(p, label) /\ label \in {"idle", "select", "launch"} /\ label # "idle"  BY <2>1
  <2>4. discarded' \subseteq Jobs  BY <1>1 DEF TypeOK
  <2>5. FALSE \in BOOLEAN  OBVIOUS
  <2> HIDE DEF label
  <2>. QED  BY <1>1, <2>1, <2>2, <2>3, <2>4, <2>5, PassedSound
<1>3. CASE ~Unstarted(slot)
  <2>1. job' = Ended(p, job, FALSE) /\ GoTo(p, "idle") /\ chosen' = chosen
    BY <1>3 DEF SelectCurrent
  <2> DEFINE label == "idle"
  <2>2. GoTo(p, label) /\ label \in {"idle", "select", "launch"} /\ label = "idle"  BY <2>1
  <2>3. chosen' \in [Procs -> Jobs \cup {NoJob}] /\ discarded' \subseteq Jobs
    BY <1>1, <2>1 DEF TypeOK
  <2>4. FALSE \in BOOLEAN  OBVIOUS
  <2> HIDE DEF label
  <2>. QED  BY <1>1, <2>1, <2>2, <2>3, <2>4, PassedSound
<1>. QED  BY <1>2, <1>3

LEMMA SelectNoneSound ==
    ASSUME JInv, NEW p \in Procs, SelectNone(p)
    PROVE  JInv' /\ Legal
<1> DEFINE label == "idle"
<1>1. /\ up /\ pc[p] # "idle" /\ ~SlotBusy /\ TypeOK
      /\ slot' = NoJob /\ waiting' = Kept /\ discarded' = discarded \cup Stale
      /\ job' = Ended(p, AfterDiscard, FALSE) /\ RecordDiscarded
      /\ UNCHANGED <<durable, chosen, loaded, wanted, up, bounds>>
  BY DEF SelectNone, MaySelect, JInv
<1>2. GoTo(p, label) /\ label \in {"idle", "select", "launch"} /\ label = "idle"
  BY DEF SelectNone
<1>3. /\ chosen' \in [Procs -> Jobs \cup {NoJob}] /\ discarded' \subseteq Jobs
      /\ waiting' \subseteq waiting
  BY <1>1 DEF TypeOK, Stale, Kept
<1>4. FALSE \in BOOLEAN  OBVIOUS
<1> HIDE DEF label
<1>. QED  BY <1>1, <1>2, <1>3, <1>4, PassedSound

LEMMA SelectRefusedSound ==
    ASSUME JInv, NEW p \in Procs, SelectRefused(p)
    PROVE  JInv' /\ Legal
<1> DEFINE label == "idle"
           failing == ~HolderBusy
<1>1. /\ up /\ pc[p] # "idle" /\ TypeOK
      /\ waiting' = Kept /\ discarded' = discarded \cup Stale
      /\ job' = Ended(p, AfterDiscard, failing)
      /\ UNCHANGED <<durable, slot, chosen, loaded, wanted, up, events, bounds>>
  BY DEF SelectRefused, MaySelect, JInv
<1>2. GoTo(p, label) /\ label \in {"idle", "select", "launch"} /\ label = "idle"
  BY DEF SelectRefused
<1>3. /\ chosen' \in [Procs -> Jobs \cup {NoJob}] /\ discarded' \subseteq Jobs
      /\ waiting' \subseteq waiting
  BY <1>1 DEF TypeOK, Stale, Kept
<1>4. failing \in BOOLEAN  OBVIOUS
<1> HIDE DEF label, failing
<1>. QED  BY <1>1, <1>2, <1>3, <1>4, PassedSound

\* Coroutines that act for a job.
LEMMA ProcessOf ==
    ASSUME NEW p \in Procs, p[1] \in {"task", "fin", "ctl"}
    PROVE  \E j \in Jobs : p[2] = j /\ p \in {Task(j), Fin(j), Ctl(j)}
BY DEF Procs, Restore, Notify, Task, Fin, Ctl

LEMMA HandoverLostSound ==
    ASSUME JInv, NEW p \in Procs, HandoverLost(p)
    PROVE  JInv' /\ Legal
<1> DEFINE label == "idle"
<1>1. /\ up /\ pc[p] # "idle" /\ TypeOK /\ job' = Ended(p, job, FALSE)
      /\ UNCHANGED <<durable, slot, waiting, chosen, loaded, wanted, up, observed, bounds>>
  BY DEF HandoverLost, JInv
<1>2. GoTo(p, label) /\ label \in {"idle", "select", "launch"} /\ label = "idle"
  BY DEF HandoverLost
<1>3. /\ chosen' \in [Procs -> Jobs \cup {NoJob}] /\ discarded' \subseteq Jobs
      /\ waiting' \subseteq waiting
  BY <1>1 DEF TypeOK
<1>4. FALSE \in BOOLEAN  OBVIOUS
<1> HIDE DEF label
<1>. QED  BY <1>1, <1>2, <1>3, <1>4, PassedSound

LEMMA HandoverSound ==
    ASSUME JInv, NEW p \in Procs, p[1] \in {"task", "fin", "ctl"}, Handover(p)
    PROVE  JInv' /\ Legal
<1> DEFINE label == IF Kept = {} THEN "idle" ELSE "select"
<1>1. /\ up /\ pc[p] = "handover" /\ slot = p[2] /\ TypeOK
      /\ waiting' = Kept /\ discarded' = discarded \cup Stale /\ RecordDiscarded
      /\ slot' \in {NoJob, slot}
      /\ UNCHANGED <<durable, chosen, loaded, wanted, up, bounds>>
  BY DEF Handover, JInv
<1>2. /\ GoTo(p, label) /\ label \in {"idle", "select", "launch"}
      /\ job' = IF label = "idle" THEN Ended(p, AfterDiscard, FALSE) ELSE AfterDiscard
  BY DEF Handover
<1>3. /\ chosen' \in [Procs -> Jobs \cup {NoJob}] /\ discarded' \subseteq Jobs
      /\ waiting' \subseteq waiting
  BY <1>1 DEF TypeOK, Stale, Kept
<1>4. ~SlotBusy
  <2>1. PICK j \in Jobs : p[2] = j /\ p \in {Task(j), Fin(j), Ctl(j)}  BY ProcessOf
  <2>2. Terminal(j)  BY <1>1, <2>1 DEF JInv, JobOf, PlaceOf
  <2>. QED  BY <1>1, <2>1, <2>2 DEF SlotBusy
<1>5. FALSE \in BOOLEAN /\ pc[p] # "idle"  BY <1>1
<1>6. slot' = slot \/ (slot' = NoJob /\ ~SlotBusy)  BY <1>1, <1>4
<1> HIDE DEF label
<1>. QED  BY <1>1, <1>2, <1>3, <1>5, <1>6, PassedSound

\* The claim of a job that has ended is closed.
LEMMA CloseSound ==
    ASSUME JInv, NEW p \in Procs, p[1] \in {"task", "fin", "ctl"}, Close(p)
    PROVE  JInv' /\ Legal
<1>1. /\ up /\ pc[p] = "close" /\ TypeOK /\ job \in [Jobs -> JobRecord]
      /\ UNCHANGED <<durable, slot, waiting, chosen, loaded, wanted, up, observed, bounds>>
  BY DEF Close, JInv, TypeOK
<1>2. PICK j \in Jobs : p[2] = j /\ p \in {Task(j), Fin(j), Ctl(j)}  BY ProcessOf
<1>3. CASE ~Terminal(j)
  <2> DEFINE label == "idle"
  <2>1. GoTo(p, label) /\ label \in {"idle", "select", "launch"} /\ label = "idle"
        /\ job' = Ended(p, job, FALSE) /\ pc[p] # "idle"
    BY <1>1, <1>2, <1>3 DEF Close
  <2>2. /\ chosen' \in [Procs -> Jobs \cup {NoJob}] /\ discarded' \subseteq Jobs
        /\ waiting' \subseteq waiting
    BY <1>1 DEF TypeOK
  <2>3. FALSE \in BOOLEAN  OBVIOUS
  <2> HIDE DEF label
  <2>. QED  BY <1>1, <2>1, <2>2, <2>3, PassedSound
<1>4. CASE Terminal(j)
  <2> DEFINE r == [job[j] EXCEPT !.claim = FALSE]
  <2>1. job' = [job EXCEPT ![j] = r] /\ GoTo(p, "handover")
    BY <1>2, <1>4 DEF Close
  <2>2. /\ r \in JobRecord
        /\ r.status = job[j].status /\ SameTask(r, job[j]) /\ r.executor = job[j].executor
        /\ r.restoring = job[j].restoring /\ r.resuming = job[j].resuming /\ ~r.claim
        /\ r.abandoned = job[j].abandoned
    <3>1. job[j] \in JobRecord  BY <1>1
    <3>. QED  BY <3>1 DEF JobRecord, SameTask
  <2> HIDE DEF r
  <2>3. job' \in [Jobs -> JobRecord] /\ job'[j] = r /\ \A k \in Jobs \ {j} : job'[k] = job[k]
    BY <1>1, <2>1, <2>2
  <2>4. ASSUME NEW k \in Jobs PROVE JobOf(k)' /\ MayTransition(job[k].status, job'[k].status)
    <3> DEFINE label == "handover"
    <3>1. GoTo(p, label) /\ label \in {"idle", "select", "launch", "handover"} /\ label # "idle"
      BY <2>1
    <3>2. /\ job'[k].executor = job[k].executor /\ job'[k].status = job[k].status
          /\ job'[k].abandoned = job[k].abandoned
          /\ job'[k].restoring = job[k].restoring /\ job'[k].resuming = job[k].resuming
          /\ SameTask(job'[k], job[k])
      BY <2>2, <2>3 DEF SameTask
    <3>3. Active(k) => slot' = slot /\ job'[k].claim = job[k].claim
      BY <1>1, <1>4, <2>3 DEF Active, Terminal, TerminalStatus
    <3>4. label = "handover" /\ p \in {Task(k), Fin(k), Ctl(k)} => Terminal(k)
      BY <1>2, <1>4 DEF Task, Fin, Ctl
    <3>5. JobOf(k) /\ pc[p] # "idle" /\ row'[k] = row[k] /\ loaded' = loaded
          /\ events'[k] = events[k] /\ waiting' = waiting
      BY <1>1 DEF JInv
    <3> HIDE DEF label
    <3>. QED  BY <1>1, <3>1, <3>2, <3>3, <3>4, <3>5, DispatchedJob
  <2>5. \A k \in Jobs : RowOf(k)'  BY <1>1, RowsStay DEF JInv, RowsKept
  <2>6. SlotSound'
    <3>1. \A k \in Jobs : (job'[k].claim => job[k].claim) /\ job'[k].status = job[k].status
      BY <2>2, <2>3
    <3>. QED  BY <1>1, <3>1 DEF JInv, TypeOK, SlotSound, Open
  <2>7. pc' \in [Procs -> Labels]  BY <1>1, <2>1 DEF GoTo, TypeOK, Labels
  <2>8. TypeOK'  BY <1>1, <2>3, <2>7 DEF TypeOK, Labels
  <2>. QED  BY <2>4, <2>5, <2>6, <2>8 DEF JInv, Legal
<1>. QED  BY <1>3, <1>4

\* A task is created for the job that has the slot, and its row is started.
LEMMA TaskCreatedOf ==
    ASSUME JInv, NEW j \in Jobs, job[j].status = "running", job[j].task = "none",
           row'[j] = "started", slot' = slot, loaded' = loaded,
           job'[j].status = "running", job'[j].task = "created",
           job'[j].executor = job[j].executor, job'[j].claim = job[j].claim,
           ~job'[j].restoring, row[j] = "claimed",
           events'[j] = events[j], waiting' = waiting,
           pc'[Task(j)] \in {"idle", pc[Task(j)]},
           \A q \in {Fin(j), Ctl(j)} : pc'[q] \in {"idle", pc[q]}
    PROVE  JobOf(j)'
<1>1. ShapeOf(j) /\ DurableOf(j) /\ PlaceOf(j) /\ CancelledOnceOf(j)
  BY DEF JInv, JobOf
<1>2. ShapeOf(j)'  BY <1>1 DEF ShapeOf, Reached, Active, Executing, ExecutorLive
<1>3. DurableOf(j)'
  BY <1>1 DEF DurableOf, Unstarted, Canonical, Saw
<1>4. PlaceOf(j)'
  BY <1>1 DEF PlaceOf, Ending, Terminal, TerminalStatus
<1>5. CancelledOnceOf(j)'  BY <1>1 DEF CancelledOnceOf
<1>. QED  BY <1>2, <1>3, <1>4, <1>5 DEF JobOf

LEMMA LaunchSound ==
    ASSUME JInv, NEW p \in Procs, Launch(p)
    PROVE  JInv' /\ Legal
<1> DEFINE go == slot = chosen[p] /\ Unstarted(chosen[p])
           launched == [job EXCEPT ![chosen[p]].task = IF go THEN "created" ELSE @]
           label == "idle"
<1>1. /\ up /\ pc[p] = "launch" /\ TypeOK /\ job \in [Jobs -> JobRecord]
      /\ row' = [row EXCEPT ![chosen[p]] = IF go THEN "started" ELSE @]
      /\ job' = Ended(p, launched, FALSE)
      /\ chosen' = [chosen EXCEPT ![p] = NoJob]
      /\ UNCHANGED <<admission, outcome, slot, waiting, loaded, wanted, up, observed, bounds>>
  BY DEF Launch, JInv, TypeOK
<1>2. GoTo(p, label) /\ label \in {"idle", "select", "launch"} /\ label = "idle" /\ pc[p] # "idle"
  BY <1>1 DEF Launch
<1>3. /\ chosen' \in [Procs -> Jobs \cup {NoJob}] /\ discarded' \subseteq Jobs
      /\ waiting' \subseteq waiting
  BY <1>1 DEF TypeOK
<1>4. FALSE \in BOOLEAN  OBVIOUS
<1>5. CASE ~(chosen[p] \in Jobs /\ go)
  <2>1. row' = row
    <3>1. CASE chosen[p] \notin Jobs  BY <1>1, <3>1 DEF TypeOK
    <3>2. CASE ~go  BY <1>1, <3>2 DEF TypeOK
    <3>. QED  BY <1>5, <3>1, <3>2
  <2>2. launched = job
    <3>1. CASE chosen[p] \notin Jobs  BY <1>1, <3>1
    <3>2. CASE chosen[p] \in Jobs /\ ~go
      <4>1. job[chosen[p]] \in JobRecord  BY <1>1, <3>2
      <4>2. [job[chosen[p]] EXCEPT !.task = job[chosen[p]].task] = job[chosen[p]]  BY <4>1 DEF JobRecord
      <4>. QED  BY <1>1, <3>2, <4>2
    <3>. QED  BY <1>5, <3>1, <3>2
  <2>3. job' = Ended(p, job, FALSE)  BY <1>1, <2>2
  <2> HIDE DEF label, go, launched
  <2>. QED  BY <1>1, <1>2, <1>3, <1>4, <2>1, <2>3, PassedSound
<1>6. ASSUME NEW j \in Jobs, j = chosen[p], go PROVE JInv' /\ Legal
  <2> DEFINE r == [job[j] EXCEPT !.task = "created"]
  <2>1. /\ job[j] \in JobRecord /\ JobOf(j) /\ ShapeOf(j) /\ DurableOf(j) /\ PlaceOf(j)
        /\ Unstarted(j) /\ RowOf(j)
    BY <1>1, <1>6 DEF JInv, JobOf
  <2>2. /\ job[j].status = "running" /\ job[j].task = "none" /\ ~job[j].restoring
        /\ row[j] = "claimed" /\ p # Task(j) /\ IsDurableHead(j)
    BY <1>1, <2>1 DEF Unstarted, DurableOf, PlaceOf, Ending, RowOf
  <2>3. launched = [job EXCEPT ![j] = r] /\ row' = [row EXCEPT ![j] = "started"]
    BY <1>1, <1>6
  <2>4. /\ r \in JobRecord /\ r.status = "running" /\ r.task = "created"
        /\ r.callback = job[j].callback /\ Agree(r, job[j])
    BY <2>1, <2>2 DEF JobRecord, TaskStates, Agree
  <2> HIDE DEF r, launched, go, label
  <2>5. launched \in [Jobs -> JobRecord] /\ launched[j] = r
        /\ \A k \in Jobs \ {j} : launched[k] = job[k]
    BY <1>1, <1>6, <2>3, <2>4
  <2> DEFINE after == Ended(p, launched, FALSE)
  <2>13. /\ after \in [Jobs -> JobRecord]
         /\ \A k \in Jobs :
                /\ Agree(after[k], launched[k]) /\ after[k].status = launched[k].status
                /\ p # Task(k) => after[k] = launched[k]
                /\ p = Task(k) => after[k].task \in {"done_ok", "done_error"}
    BY <1>4, <2>5, EndedFacts
  <2>14. job' = after  BY <1>1
  <2> HIDE DEF after
  <2>6. job' \in [Jobs -> JobRecord] /\ job'[j] = r
    BY <1>6, <2>2, <2>5, <2>13, <2>14
  <2>7. ASSUME NEW k \in Jobs \ {j} PROVE JobOf(k)' /\ MayTransition(job[k].status, job'[k].status)
    <3>1. /\ Agree(job'[k], job[k]) /\ job'[k].status = job[k].status
          /\ p # Task(k) => job'[k] = job[k]
          /\ p = Task(k) => job'[k].task \in {"done_ok", "done_error"}
      <4>1. launched[k] = job[k] /\ k \in Jobs  BY <2>5
      <4>. QED  BY <2>13, <2>14, <4>1
    <3>2. SameTask(job'[k], job[k])
            \/ (p = Task(k) /\ label = "idle" /\ job'[k].task \in {"done_ok", "done_error"})
      BY <1>2, <3>1 DEF SameTask
    <3>3. JobOf(k) /\ row'[k] = row[k] /\ loaded' = loaded /\ events'[k] = events[k]
          /\ waiting' = waiting /\ slot' = slot /\ k \in Jobs
      BY <1>1, <2>3 DEF JInv, TypeOK
    <3>4. label \in {"idle", "select", "launch", "handover"} /\ label # "handover"  BY <1>2
    <3>. QED  BY <1>1, <1>2, <3>1, <3>2, <3>3, <3>4, DispatchedJob DEF Agree
  <2>8. JobOf(j)'
    <3>1. \A q \in {Task(j), Fin(j), Ctl(j)} : q \in Procs /\ pc'[q] \in {"idle", pc[q]}
      BY <1>1, <1>2, <1>6 DEF GoTo, TypeOK, Procs, Task, Fin, Ctl
    <3>2. row'[j] = "started" /\ waiting' = waiting /\ slot' = slot /\ loaded' = loaded
          /\ events'[j] = events[j]
      BY <1>1, <1>6, <2>3 DEF TypeOK
    <3>3. /\ job'[j].status = "running" /\ job'[j].task = "created"
          /\ job'[j].executor = job[j].executor /\ job'[j].claim = job[j].claim
          /\ ~job'[j].restoring
      BY <2>2, <2>4, <2>6 DEF Agree
    <3>4. j \in Jobs  BY <1>6
    <3>. QED  BY <2>2, <3>1, <3>2, <3>3, <3>4, TaskCreatedOf
  <2>9. \A k \in Jobs : RowOf(k)'
    <3>1. RowTaken(j)  BY <1>1, <2>3 DEF RowTaken
    <3>. QED  BY <1>1, <1>6, <2>2, <3>1, RowsAfterTake DEF JInv
  <2>10. SlotSound'
    <3>1. \A k \in Jobs : job'[k].claim = job[k].claim /\ job'[k].status = job[k].status
      <4>1. \A k \in Jobs : Agree(launched[k], job[k]) /\ launched[k].status = job[k].status
        BY <2>2, <2>4, <2>5 DEF Agree
      <4>. QED  BY <2>13, <2>14, <4>1 DEF Agree
    <3>2. \A k \in Jobs : Open(k)' => Open(k)
      BY <1>1, <1>6, <2>2, <2>3 DEF Open, TypeOK
    <3>. QED  BY <1>1, <3>1, <3>2 DEF JInv, TypeOK, SlotSound
  <2>11. MayTransition(job[j].status, job'[j].status)
    BY <2>2, <2>4, <2>6, SameStatus
  <2>12. TypeOK'
    <3>1. pc' \in [Procs -> Labels]  BY <1>1, <1>2 DEF GoTo, TypeOK, Labels
    <3>2. row' \in [Jobs -> {"absent", "queued", "claimed", "started", "terminal"}]
      BY <1>1, <2>3 DEF TypeOK
    <3>. QED  BY <1>1, <1>3, <2>6, <3>1, <3>2 DEF TypeOK, Labels
  <2>15. \A k \in Jobs : JobOf(k)' /\ MayTransition(job[k].status, job'[k].status)
    BY <2>7, <2>8, <2>11
  <2>. QED  BY <2>9, <2>10, <2>12, <2>15 DEF JInv, Legal
<1>. QED  BY <1>5, <1>6

LEMMA BoundaryType ==
    ASSUME TypeOK, NEW p \in Procs
    PROVE  BoundaryOf(p) \in Boundaries
<1>1. CASE p \in {Restore, Notify}  BY <1>1 DEF BoundaryOf, Boundaries
<1>2. CASE p \notin {Restore, Notify}
  <2>1. p[1] \in {"task", "fin", "ctl"} /\ p[2] \in Jobs  BY <1>2 DEF Procs
  <2>2. job[p[2]] \in JobRecord  BY <2>1 DEF TypeOK
  <2>3. job[p[2]].boundary \in Boundaries \cup {"none"}  BY <2>2 DEF JobRecord
  <2>. QED  BY <1>2, <2>3 DEF BoundaryOf, Boundaries
<1>. QED  BY <1>1, <1>2

\* The head of the mirror gets the claim and the slot.
LEMMA SelectHeadSound ==
    ASSUME JInv, NEW p \in Procs, SelectHead(p)
    PROVE  JInv' /\ Legal
<1>1. PICK j \in Kept :
        /\ ~SlotBusy /\ ~HolderBusy /\ Claimable(j)
        /\ row' = [row EXCEPT ![j] = "claimed"]
        /\ waiting' = Kept \ {j} /\ slot' = j
        /\ job' = [AfterDiscard EXCEPT ![j].status = "running", ![j].claim = TRUE,
                                       ![j].boundary = BoundaryOf(p)]
        /\ chosen' = [chosen EXCEPT ![p] = j]
        /\ discarded' = discarded \cup Stale
        /\ RecordDiscarded
        /\ GoTo(p, "launch")
        /\ UNCHANGED <<admission, outcome, loaded, wanted, up, bounds>>
        /\ up /\ pc[p] # "idle"
  BY DEF SelectHead, MaySelect
<1>2. TypeOK /\ job \in [Jobs -> JobRecord] /\ AfterDiscard \in [Jobs -> JobRecord]
  BY DiscardFacts DEF JInv, TypeOK
<1>3. j \in Jobs /\ j \in waiting /\ j \notin Stale  BY <1>1, <1>2 DEF Kept, TypeOK
<1>4. /\ JobOf(j) /\ ShapeOf(j) /\ DurableOf(j) /\ PlaceOf(j) /\ CancelledOnceOf(j)
      /\ job[j] \in JobRecord /\ AfterDiscard[j] = job[j]
  BY <1>2, <1>3, DiscardFacts DEF JInv, JobOf
<1>5. /\ job[j].status = "queued" /\ job[j].task = "none" /\ job[j].callback = "none"
      /\ ~job[j].restoring /\ ~job[j].resuming /\ IsDurableHead(j)
  BY <1>1, <1>3, <1>4 DEF DurableOf, ShapeOf, Claimable
<1> DEFINE r == [job[j] EXCEPT !.status = "running", !.claim = TRUE, !.boundary = BoundaryOf(p)]
<1>6. job' = [AfterDiscard EXCEPT ![j] = r]  BY <1>1, <1>4
<1>7. /\ r \in JobRecord /\ r.status = "running" /\ r.task = "none" /\ r.claim
      /\ r.callback = "none" /\ r.executor = job[j].executor /\ ~r.restoring /\ ~r.resuming
      /\ r.abandoned = job[j].abandoned
  <2>1. BoundaryOf(p) \in Boundaries  BY <1>2, BoundaryType
  <2>. QED  BY <1>4, <1>5, <2>1 DEF JobRecord, JobStatus, ActiveStatus
<1> HIDE DEF r
<1>8. /\ job' \in [Jobs -> JobRecord] /\ job'[j] = r
      /\ \A k \in Jobs \ {j} : job'[k] = AfterDiscard[k]
  BY <1>2, <1>3, <1>6, <1>7
<1>9. ASSUME NEW k \in Jobs
      PROVE  /\ ~Active(k) /\ ~job[k].claim
  BY <1>1 DEF JInv, JobOf, ShapeOf, HolderBusy
<1>10. ASSUME NEW k \in Jobs
       PROVE  /\ events'[k] = events[k]
                 \/ (k \in Stale /\ job[k].status = "queued" /\ events'[k] = Append(events[k], "failed"))
              /\ events'[k] \in Seq({"completed", "failed", "cancelled"})
  <2>1. events[k] \in Seq({"completed", "failed", "cancelled"})  BY <1>2 DEF TypeOK
  <2>2. CASE events'[k] = events[k]
    <3>1. events'[k] \in Seq({"completed", "failed", "cancelled"})  BY <2>1, <2>2, Zenon
    <3>. QED  BY <2>2, <3>1
  <2>3. CASE k \in Stale /\ events'[k] = Append(events[k], "failed")
    BY <1>2, <2>1, <2>3, DiscardFacts, SMTT(40)
  <2>. QED  BY <1>1, <2>2, <2>3 DEF RecordDiscarded
<1>11. ASSUME NEW k \in Jobs \ {j} PROVE JobOf(k)' /\ MayTransition(job[k].status, job'[k].status)
  <2> DEFINE label == "launch"
  <2>1. GoTo(p, label) /\ label \in {"idle", "select", "launch", "handover"}
        /\ label # "idle" /\ label # "handover"
    BY <1>1
  <2>2. /\ job'[k].status = job[k].status
            \/ (k \in Stale /\ job[k].status = "queued" /\ job'[k].status = "failed")
        /\ Agree(job'[k], job[k]) /\ SameTask(job'[k], job[k])
    <3>1. CASE k \in Stale
      <4>1. job'[k] = AfterDiscard[k]  BY <1>8
      <4>. QED  BY <1>2, <3>1, <4>1, DiscardFacts
    <3>2. CASE k \notin Stale
      <4>1. job'[k] = job[k]  BY <1>2, <1>8, <3>2, DiscardFacts
      <4>. QED  BY <4>1 DEF Agree, SameTask
    <3>. QED  BY <3>1, <3>2
  <2>3. JobOf(k) /\ row'[k] = row[k] /\ loaded' = loaded /\ k \in Jobs
    BY <1>1, <1>2 DEF JInv, TypeOK
  <2>4. k \in waiting' => k \in waiting /\ job'[k].status = job[k].status
    BY <1>1, <2>2 DEF Kept
  <2>5. ~Active(k)  BY <1>9
  <2>6. events'[k] = events[k]
            \/ (job[k].status = "queued" /\ events'[k] = Append(events[k], "failed"))
    BY <1>10
  <2> HIDE DEF label
  <2>. QED  BY <1>1, <1>2, <2>1, <2>2, <2>3, <2>4, <2>5, <2>6, DispatchedJob DEF Agree
<1>12. JobOf(j)'
  <2>1. events'[j] = events[j] /\ row'[j] = "claimed" /\ slot' = j /\ j \notin waiting'
        /\ loaded' = loaded
    BY <1>1, <1>2, <1>3, <1>10 DEF TypeOK
  <2>2. ShapeOf(j)'  BY <1>4, <1>5, <1>7, <1>8, <2>1 DEF ShapeOf, Reached, Active, Executing, ExecutorLive
  <2>3. DurableOf(j)'
    <3>1. ~Saw(j, "cancelled")  BY <1>4, <1>5 DEF DurableOf
    <3>2. job[j].executor \notin {"finishing", "returned"}
      BY <1>4, <1>5, <1>1 DEF DurableOf, Claimable
    <3>. QED  BY <1>7, <1>8, <2>1, <3>1, <3>2 DEF DurableOf, Unstarted, Canonical, Saw
  <2>4. PlaceOf(j)'
    <3>1. \A q \in {Task(j), Fin(j), Ctl(j)} :
            pc'[q] = pc[q] \/ (q = p /\ pc'[q] = "launch")
      BY <1>1, <1>2, <1>3 DEF GoTo, TypeOK, Procs, Task, Fin, Ctl
    <3>2. p # Task(j)  BY <1>1, <1>4, <1>5 DEF PlaceOf, Ending
    <3>3. ~Terminal(j) /\ job[j].status # "cancelling"  BY <1>5 DEF Terminal, TerminalStatus
    <3>. QED  BY <1>4, <1>5, <1>7, <1>8, <3>1, <3>2, <3>3 DEF PlaceOf, Ending
  <2>5. CancelledOnceOf(j)'  BY <1>4, <2>1 DEF CancelledOnceOf
  <2>. QED  BY <2>2, <2>3, <2>4, <2>5 DEF JobOf
<1>13. \A k \in Jobs : RowOf(k)'
  <2>1. RowTaken(j)  BY <1>1 DEF RowTaken
  <2>. QED  BY <1>2, <1>3, <1>5, <2>1, RowsAfterTake DEF JInv
<1>14. SlotSound'
  <2>1. \A k \in Jobs : job'[k].claim => k = j
    <3>1. \A k \in Jobs : AfterDiscard[k].claim = job[k].claim
      BY <1>2, DiscardFacts DEF Agree
    <3>. QED  BY <1>8, <1>9, <3>1
  <2>2. \A k \in Jobs : Open(k)' => commit'[j] <= commit'[k]
    BY <1>1, <1>2, <1>3, <1>5 DEF Open, IsDurableHead, TypeOK
  <2>3. job'[j].status = "running"  BY <1>7, <1>8
  <2>. QED  BY <1>1, <2>1, <2>2, <2>3 DEF SlotSound
<1>15. TypeOK'
  <2>1. pc' \in [Procs -> Labels]  BY <1>1, <1>2 DEF GoTo, TypeOK, Labels
  <2>2. row' \in [Jobs -> {"absent", "queued", "claimed", "started", "terminal"}]
    BY <1>1, <1>2 DEF TypeOK
  <2>3. events' \in [Jobs -> Seq({"completed", "failed", "cancelled"})]
    BY <1>1, <1>10 DEF RecordDiscarded
  <2>4. /\ chosen' \in [Procs -> Jobs \cup {NoJob}] /\ discarded' \subseteq Jobs
        /\ waiting' \subseteq Jobs /\ slot' \in Jobs \cup {NoJob}
    BY <1>1, <1>2, <1>3 DEF TypeOK, Stale, Kept
  <2>. QED  BY <1>1, <1>2, <1>8, <2>1, <2>2, <2>3, <2>4 DEF TypeOK, Labels
<1>16. MayTransition(job[j].status, job'[j].status)  BY <1>5, <1>7, <1>8, StatusEdges
<1>. QED
  <2>1. \A k \in Jobs : JobOf(k)' /\ MayTransition(job[k].status, job'[k].status)
    BY <1>11, <1>12, <1>16
  <2>. QED  BY <1>13, <1>14, <1>15, <2>1 DEF JInv, Legal

-----------------------------------------------------------------------------
(* Loading, admission and restart. *)

\* Nothing that JobOf speaks of moves, but what was read may.
LEMMA QuietJob ==
    ASSUME NEW k \in Jobs, JobOf(k), job'[k].status = job[k].status,
           Agree(job'[k], job[k]), SameTask(job'[k], job[k]),
           \A q \in {Task(k), Fin(k), Ctl(k)} : pc'[q] = pc[q],
           row'[k] = row[k], events'[k] = events[k], k \in waiting' => k \in waiting,
           k \in loaded' /\ job[k].status = "unloaded" => row[k] = "queued",
           Active(k) => slot' = slot
    PROVE  JobOf(k)'
<1>1. ShapeOf(k) /\ DurableOf(k) /\ PlaceOf(k) /\ CancelledOnceOf(k)  BY DEF JobOf
<1>2. ShapeOf(k)'  BY <1>1 DEF ShapeOf, Active, ExecutorLive, Agree, SameTask
<1>3. DurableOf(k)'  BY <1>1 DEF DurableOf, Unstarted, Saw, Agree, SameTask
<1>4. PlaceOf(k)'
  BY <1>1 DEF PlaceOf, TaskAlive, Terminal, SameTask
<1>5. CancelledOnceOf(k)'  BY <1>1 DEF CancelledOnceOf
<1>. QED  BY <1>2, <1>3, <1>4, <1>5 DEF JobOf

\* A step of the control plane: no row, status, task or event moves.
LEMMA QuietSound ==
    ASSUME JInv, TypeOK', up',
           \A k \in Jobs : /\ job'[k].status = job[k].status
                           /\ Agree(job'[k], job[k]) /\ SameTask(job'[k], job[k]),
           \A k \in Jobs : \A q \in {Task(k), Fin(k), Ctl(k)} : pc'[q] = pc[q],
           UNCHANGED <<durable, slot, waiting, events>>,
           \A k \in loaded' : k \in loaded \/ row[k] = "queued"
    PROVE  JInv' /\ Legal
<1>1. ASSUME NEW k \in Jobs PROVE JobOf(k)'
  <2>1. JobOf(k)  BY DEF JInv
  <2>2. k \in loaded' /\ job[k].status = "unloaded" => row[k] = "queued"
    BY <2>1 DEF JobOf, DurableOf
  <2>. QED  BY <2>1, <2>2, QuietJob
<1>2. \A k \in Jobs : RowOf(k)'  BY RowsStay DEF JInv, RowsKept
<1>3. SlotSound'
  BY DEF JInv, TypeOK, SlotSound, Open, Agree
<1>. QED  BY <1>1, <1>2, <1>3, SameStatus DEF JInv, Legal

\* The Thread's own coroutines are nobody's.
LEMMA ThreadMoves ==
    ASSUME TypeOK, NEW p \in {Restore, Notify}, NEW label \in Labels, GoTo(p, label)
    PROVE  /\ pc' \in [Procs -> Labels]
           /\ \A k \in Jobs : \A q \in {Task(k), Fin(k), Ctl(k)} : pc'[q] = pc[q]
BY DEF TypeOK, GoTo, Procs, Task, Fin, Ctl, Restore, Notify, Labels

LEMMA RequestLoadSound ==
    ASSUME JInv, RequestLoad
    PROVE  JInv' /\ Legal
<1>1. TypeOK'  BY DEF JInv, TypeOK, RequestLoad
<1>2. up' /\ UNCHANGED <<durable, job, slot, waiting, pc, loaded, events>>
  BY DEF RequestLoad, Serving
<1>. QED  BY <1>1, <1>2, QuietSound DEF Agree, SameTask

LEMMA RestoreReadSound ==
    ASSUME JInv, RestoreRead
    PROVE  JInv' /\ Legal
<1>1. /\ TypeOK /\ up' /\ wanted' = FALSE /\ GoTo(Restore, "install")
      /\ UNCHANGED <<durable, job, slot, waiting, chosen, up, observed, bounds>>
      /\ loaded' = {k \in Jobs : row[k] = "queued" /\ outcome[k] = "unknown"}
  BY DEF RestoreRead, JInv
<1>2. /\ pc' \in [Procs -> Labels]
      /\ \A k \in Jobs : \A q \in {Task(k), Fin(k), Ctl(k)} : pc'[q] = pc[q]
  BY <1>1, ThreadMoves DEF Labels
<1>3. TypeOK'  BY <1>1, <1>2 DEF TypeOK, Labels
<1>. QED  BY <1>1, <1>2, <1>3, QuietSound DEF Agree, SameTask

LEMMA NotifyBoundarySound ==
    ASSUME JInv, NotifyBoundary
    PROVE  JInv' /\ Legal
<1> DEFINE label == IF SlotBusy THEN "idle" ELSE "select"
<1>1. /\ TypeOK /\ up' /\ GoTo(Notify, label) /\ label \in Labels
      /\ chosen' = [chosen EXCEPT ![Notify] = NoJob]
      /\ job' = IF SlotBusy THEN [job EXCEPT ![slot].boundary = "after_interrupt"] ELSE job
      /\ UNCHANGED <<durable, slot, waiting, loaded, wanted, up, observed, bounds>>
  BY DEF NotifyBoundary, JInv, Labels
<1> HIDE DEF label
<1>2. /\ pc' \in [Procs -> Labels]
      /\ \A k \in Jobs : \A q \in {Task(k), Fin(k), Ctl(k)} : pc'[q] = pc[q]
  BY <1>1, ThreadMoves
<1>3. /\ job' \in [Jobs -> JobRecord]
      /\ \A k \in Jobs : /\ job'[k].status = job[k].status
                         /\ Agree(job'[k], job[k]) /\ SameTask(job'[k], job[k])
  <2>1. CASE ~SlotBusy  BY <1>1, <2>1 DEF TypeOK, Agree, SameTask
  <2>2. CASE SlotBusy
    <3> DEFINE r == [job[slot] EXCEPT !.boundary = "after_interrupt"]
    <3>1. slot \in Jobs /\ job[slot] \in JobRecord  BY <1>1, <2>2 DEF TypeOK, SlotBusy
    <3>2. r \in JobRecord /\ r.status = job[slot].status /\ Agree(r, job[slot]) /\ SameTask(r, job[slot])
      BY <3>1 DEF JobRecord, Boundaries, Agree, SameTask
    <3>3. job' = [job EXCEPT ![slot] = r]  BY <1>1, <2>2
    <3> HIDE DEF r
    <3>4. job' \in [Jobs -> JobRecord] /\ job'[slot] = r /\ \A k \in Jobs \ {slot} : job'[k] = job[k]
      BY <1>1, <3>1, <3>2, <3>3, ZenonT(60) DEF TypeOK
    <3>. QED  BY <3>2, <3>4 DEF Agree, SameTask
  <2>. QED  BY <2>1, <2>2
<1>4. TypeOK'  BY <1>1, <1>2, <1>3 DEF TypeOK, Labels
<1>. QED  BY <1>1, <1>2, <1>3, <1>4, QuietSound

\* The mirror is rebuilt from the records that still wait.
LEMMA RestoreInstallSound ==
    ASSUME JInv, RestoreInstall
    PROVE  JInv' /\ Legal
<1> DEFINE fresh == {k \in loaded : job[k].status \in {"unloaded", "queued"}}
           label == IF fresh # {} \/ (slot # NoJob /\ Unstarted(slot)) THEN "select" ELSE "idle"
<1>1. /\ TypeOK /\ up' /\ GoTo(Restore, label) /\ label \in Labels
      /\ waiting' = fresh /\ loaded' = {}
      /\ job' = [k \in Jobs |->
                  IF k \in fresh THEN [job[k] EXCEPT !.status = "queued"] ELSE job[k]]
      /\ UNCHANGED <<durable, slot, chosen, wanted, up, observed, bounds>>
  BY DEF RestoreInstall, JInv, Labels
<1> HIDE DEF label
<1>2. /\ pc' \in [Procs -> Labels]
      /\ \A k \in Jobs : \A q \in {Task(k), Fin(k), Ctl(k)} : pc'[q] = pc[q]
  BY <1>1, ThreadMoves
<1>3. ASSUME NEW k \in Jobs
      PROVE  /\ job'[k] \in JobRecord /\ Agree(job'[k], job[k]) /\ SameTask(job'[k], job[k])
             /\ job'[k].status = IF k \in fresh THEN "queued" ELSE job[k].status
  <2>1. job[k] \in JobRecord  BY <1>1 DEF TypeOK
  <2>2. job'[k] = IF k \in fresh THEN [job[k] EXCEPT !.status = "queued"] ELSE job[k]  BY <1>1
  <2> HIDE DEF fresh
  <2>. QED  BY <2>1, <2>2 DEF JobRecord, JobStatus, Agree, SameTask
<1>4. TypeOK'
  <2>1. job' \in [Jobs -> JobRecord]  BY <1>1, <1>3
  <2>2. waiting' \subseteq Jobs /\ loaded' \subseteq Jobs  BY <1>1 DEF TypeOK
  <2>. QED  BY <1>1, <1>2, <2>1, <2>2 DEF TypeOK, Labels
<1>5. ASSUME NEW k \in Jobs PROVE JobOf(k)'
  <2>1. ShapeOf(k) /\ DurableOf(k) /\ PlaceOf(k) /\ CancelledOnceOf(k)  BY DEF JInv, JobOf
  <2>2. /\ k \in fresh => /\ job[k].status \in {"unloaded", "queued"}
                           /\ row[k] # "absent" /\ ~Saw(k, "cancelled")
        /\ k \in waiting' => k \in fresh
    BY <1>1, <2>1 DEF DurableOf
  <2> HIDE DEF fresh
  <2>3. ShapeOf(k)'
    BY <1>1, <1>3, <2>1, <2>2 DEF ShapeOf, Reached, Active, ExecutorLive, Agree, SameTask
  <2>4. DurableOf(k)'
    <3>1. Saw(k, "cancelled")' => Saw(k, "cancelled")  BY <1>1 DEF Saw
    <3>. QED  BY <1>1, <1>3, <2>1, <2>2, <3>1 DEF DurableOf, Unstarted, Canonical, Agree, SameTask
  <2>5. PlaceOf(k)'
    BY <1>2, <1>3, <2>1, <2>2 DEF PlaceOf, TaskAlive, Terminal, TerminalStatus, SameTask
  <2>6. CancelledOnceOf(k)'  BY <1>1, <2>1 DEF CancelledOnceOf
  <2>. QED  BY <2>3, <2>4, <2>5, <2>6 DEF JobOf
<1>6. \A k \in Jobs : RowOf(k)'  BY <1>1, RowsStay DEF JInv, RowsKept
<1>7. SlotSound'
  <2>1. \A k \in Jobs : job'[k].claim = job[k].claim  BY <1>3 DEF Agree
  <2>2. slot # NoJob => job'[slot].status = job[slot].status
    BY <1>1, <1>3 DEF JInv, TypeOK, SlotSound
  <2>. QED  BY <1>1, <2>1, <2>2 DEF JInv, TypeOK, SlotSound, Open
<1>8. Legal
  <2> SUFFICES ASSUME NEW k \in Jobs, job[k].status # "unloaded"
               PROVE  MayTransition(job[k].status, job'[k].status)
    BY DEF Legal
  <2>. QED  BY <1>3, SameStatus
<1>. QED  BY <1>4, <1>5, <1>6, <1>7, <1>8 DEF JInv

\* accept_job_input: the new row comes after every row before it.
LEMMA AdmitSound ==
    ASSUME JInv, NEW j \in Jobs, Admit(j)
    PROVE  JInv' /\ Legal
<1>1. /\ TypeOK /\ up' /\ row[j] = "absent"
      /\ lastCommit' = lastCommit + 1
      /\ commit' = [commit EXCEPT ![j] = lastCommit + 1]
      /\ row' = [row EXCEPT ![j] = "queued"]
      /\ job' = [job EXCEPT ![j].status = "queued"]
      /\ wanted' = TRUE
      /\ UNCHANGED <<outcome, slot, waiting, pc, chosen, loaded, up, observed, bounds>>
  BY DEF Admit, Serving, JInv
<1>2. /\ JobOf(j) /\ ShapeOf(j) /\ DurableOf(j) /\ PlaceOf(j) /\ CancelledOnceOf(j)
      /\ job \in [Jobs -> JobRecord] /\ job[j] \in JobRecord
  BY <1>1 DEF JInv, JobOf, TypeOK
<1>3. job[j].status = "unloaded" /\ j \notin loaded /\ j \notin waiting /\ ~Saw(j, "cancelled")
  BY <1>1, <1>2 DEF DurableOf
<1> DEFINE r == [job[j] EXCEPT !.status = "queued"]
<1>4. /\ r \in JobRecord /\ r.status = "queued" /\ Agree(r, job[j]) /\ SameTask(r, job[j])
  BY <1>2 DEF JobRecord, JobStatus, Agree, SameTask
<1>5. job' = [job EXCEPT ![j] = r]  BY <1>1
<1> HIDE DEF r
<1>6. job' \in [Jobs -> JobRecord] /\ job'[j] = r /\ \A k \in Jobs \ {j} : job'[k] = job[k]
  BY <1>2, <1>4, <1>5
<1>7. TypeOK'  BY <1>1, <1>6 DEF TypeOK
<1>8. /\ commit'[j] = lastCommit' /\ commit'[j] \in Nat /\ row'[j] = "queued"
      /\ \A k \in Jobs \ {j} : commit'[k] = commit[k] /\ row'[k] = row[k]
      /\ \A k \in Jobs : commit[k] \in Nat /\ commit[k] <= lastCommit /\ commit[k] < commit'[j]
  BY <1>1 DEF TypeOK, JInv, RowOf
<1>9. ASSUME NEW k \in Jobs PROVE JobOf(k)'
  <2>1. CASE k = j
    <3>1. ShapeOf(j)'
      BY <1>1, <1>2, <1>3, <1>4, <1>6
      DEF ShapeOf, Reached, Active, ExecutorLive, Agree, SameTask
    <3>2. DurableOf(j)'
      BY <1>1, <1>2, <1>3, <1>4, <1>6, <1>8
      DEF DurableOf, ShapeOf, Unstarted, Canonical, Saw, Agree, SameTask
    <3>3. PlaceOf(j)'
      BY <1>1, <1>2, <1>3, <1>4, <1>6 DEF PlaceOf, TaskAlive, Terminal, TerminalStatus, SameTask
    <3>4. CancelledOnceOf(j)'  BY <1>1, <1>2 DEF CancelledOnceOf
    <3>. QED  BY <2>1, <3>1, <3>2, <3>3, <3>4 DEF JobOf
  <2>2. CASE k # j
    <3>1. job'[k] = job[k] /\ row'[k] = row[k] /\ JobOf(k)  BY <1>6, <1>8, <2>2 DEF JInv
    <3>2. k \in loaded' /\ job[k].status = "unloaded" => row[k] = "queued"
      BY <1>1, <3>1 DEF JobOf, DurableOf
    <3>. QED  BY <1>1, <3>1, <3>2, QuietJob DEF Agree, SameTask
  <2>. QED  BY <2>1, <2>2
<1>10. \A k \in Jobs : RowOf(k)'
  <2>1. \A k \in Jobs : RowOf(k)  BY DEF JInv
  <2>2. lastCommit \in Nat /\ lastCommit' = lastCommit + 1  BY <1>1 DEF TypeOK
  <2>3. ASSUME NEW k \in Jobs, row'[k] \in {"claimed", "started"} PROVE IsDurableHead(k)'
    <3>1. k # j /\ IsDurableHead(k)  BY <1>8, <2>1, <2>3 DEF RowOf
    <3>. QED  BY <1>8, <3>1 DEF IsDurableHead, Open
  <2>4. ASSUME NEW k \in Jobs
        PROVE  /\ row'[k] = "absent" <=> commit'[k] = 0
               /\ commit'[k] <= lastCommit'
               /\ row'[k] = "terminal" <=> outcome'[k] # "unknown"
    <3>1. CASE k = j  BY <1>1, <1>8, <2>1, <2>2, <3>1 DEF RowOf
    <3>2. CASE k # j  BY <1>1, <1>8, <2>1, <2>2, <3>2 DEF RowOf
    <3>. QED  BY <3>1, <3>2
  <2>5. ASSUME NEW k \in Jobs, NEW m \in Jobs, commit'[m] = commit'[k], commit'[k] # 0
        PROVE  m = k
    BY <1>8, <2>1, <2>5 DEF RowOf
  <2>. QED  BY <2>3, <2>4, <2>5 DEF RowOf
<1>11. SlotSound'
  <2>1. \A k \in Jobs : job'[k].claim = job[k].claim  BY <1>4, <1>6 DEF Agree
  <2>2. slot # NoJob => slot \in Jobs /\ slot # j /\ job'[slot] = job[slot]
    BY <1>1, <1>3, <1>6 DEF JInv, TypeOK, SlotSound
  <2>3. slot # NoJob => \A k \in Jobs : Open(k)' => commit'[slot] <= commit'[k]
    BY <1>8, <2>2 DEF JInv, SlotSound, Open
  <2>. QED  BY <1>1, <2>1, <2>2, <2>3 DEF JInv, SlotSound
<1>12. Legal  BY <1>3, <1>6, SameStatus DEF Legal
<1>. QED  BY <1>7, <1>9, <1>10, <1>11, <1>12 DEF JInv

\* A crash forgets the memory, not the rows.
LEMMA CrashSound ==
    ASSUME JInv, Crash
    PROVE  JInv' /\ Legal
<1>1. /\ TypeOK /\ job' = [j \in Jobs |-> Unloaded] /\ slot' = NoJob /\ waiting' = {}
      /\ pc' = [p \in Procs |-> "idle"] /\ chosen' = [p \in Procs |-> NoJob]
      /\ loaded' = {} /\ wanted' = FALSE /\ up' = FALSE
      /\ crashes' = crashes + 1 /\ crashes < MaxCrashes
      /\ UNCHANGED <<durable, observed, faults, requests>>
  BY DEF Crash, JInv
<1>2. Unloaded \in JobRecord  BY DEF Unloaded, JobRecord, TaskStates
<1>3. TypeOK'
  <2>1. crashes' \in 0..MaxCrashes  BY <1>1, BoundAssumption DEF TypeOK
  <2>2. /\ job' \in [Jobs -> JobRecord]
        /\ pc' \in [Procs -> {"idle", "wait_task", "finalize", "close", "handover",
                             "select", "launch", "install", "wait_control", "notify"}]
        /\ chosen' \in [Procs -> Jobs \cup {NoJob}]
    BY <1>1, <1>2
  <2>. QED  BY <1>1, <2>1, <2>2 DEF TypeOK
<1>4. ASSUME NEW k \in Jobs PROVE JobOf(k)'
  <2>1. job'[k] = Unloaded /\ \A q \in {Task(k), Fin(k), Ctl(k)} : pc'[q] = "idle"
    BY <1>1 DEF Procs, Task, Fin, Ctl
  <2>2. DurableOf(k) /\ CancelledOnceOf(k)  BY DEF JInv, JobOf
  <2>3. ShapeOf(k)'  BY <2>1 DEF ShapeOf, Unloaded, Reached, Active, Executing, ExecutorLive
  <2>4. DurableOf(k)'
    BY <1>1, <2>1, <2>2 DEF DurableOf, Unloaded, Unstarted, Canonical, Saw
  <2>5. PlaceOf(k)'  BY <2>1 DEF PlaceOf
  <2>6. CancelledOnceOf(k)'  BY <1>1, <2>2 DEF CancelledOnceOf
  <2>. QED  BY <2>3, <2>4, <2>5, <2>6 DEF JobOf
<1>5. \A k \in Jobs : RowOf(k)'  BY <1>1, RowsStay DEF JInv, RowsKept
<1>6. SlotSound' /\ Legal  BY <1>1 DEF SlotSound, Legal, Unloaded
<1>. QED  BY <1>3, <1>4, <1>5, <1>6 DEF JInv

\* A dead backend holds nothing: no coroutine acts for a job it has forgotten.
LEMMA DeadFacts ==
    ASSUME JInv, ~up, NEW k \in Jobs
    PROVE  /\ job[k] = Unloaded /\ job[k].status = "unloaded" /\ ~job[k].claim
           /\ job[k].task = "none" /\ job[k].callback = "none" /\ job[k].executor = "none"
           /\ ~job[k].restoring /\ ~job[k].resuming /\ k \notin waiting
           /\ pc[Task(k)] = "idle"
           /\ \A q \in {Fin(k), Ctl(k)} : pc[q] \notin {"wait_task", "finalize", "handover"}
<1>1. job[k] = Unloaded /\ job[k].status = "unloaded" /\ job[k].task = "none"
  BY DEF JInv, SlotSound, Unloaded
<1>2. DurableOf(k) /\ PlaceOf(k)  BY DEF JInv, JobOf
<1>3. ~Terminal(k) /\ job[k].status # "cancelling"  BY <1>1 DEF Terminal, TerminalStatus
<1>. QED  BY <1>1, <1>2, <1>3 DEF Unloaded, DurableOf, PlaceOf, Ending

LEMMA RestartIdleSound ==
    ASSUME JInv, RestartIdle
    PROVE  JInv' /\ Legal
<1>1. TypeOK'  BY DEF JInv, TypeOK, RestartIdle
<1>2. up' /\ UNCHANGED <<durable, job, slot, waiting, pc, loaded, events>>
  BY DEF RestartIdle
<1>. QED  BY <1>1, <1>2, QuietSound DEF Agree, SameTask

\* reconcile_stale_executions: the active execution is declared lost.
LEMMA RestartLostSound ==
    ASSUME JInv, NEW j \in Jobs, RestartLost(j)
    PROVE  JInv' /\ Legal
<1>1. /\ TypeOK /\ RowOf(j) /\ ~up /\ up' /\ wanted' = TRUE /\ row[j] \in {"claimed", "started"}
      /\ Persist(j, "execution_lost")
      /\ UNCHANGED <<job, slot, waiting, pc, chosen, loaded, observed, bounds>>
  BY DEF RestartLost, ActiveRows, JInv
<1>2. /\ RowsKept \/ RowSettled(j)
      /\ row'[j] = "terminal" /\ \A k \in Jobs \ {j} : row'[k] = row[k]
      /\ row' \in [Jobs -> {"absent", "queued", "claimed", "started", "terminal"}]
      /\ outcome' \in [Jobs -> Outcomes] /\ commit' = commit /\ lastCommit' = lastCommit
  BY <1>1, PersistFacts DEF TerminalMarks
<1>3. TypeOK'  BY <1>1, <1>2 DEF TypeOK
<1>4. ASSUME NEW k \in Jobs PROVE JobOf(k)'
  <2>1. /\ JobOf(k) /\ job[k].status = "unloaded" /\ ~Active(k)
        /\ ShapeOf(k) /\ DurableOf(k) /\ PlaceOf(k) /\ CancelledOnceOf(k)
    BY <1>1, DeadFacts DEF JInv, JobOf, Active
  <2>2. CASE k = j
    <3>1. ShapeOf(j)' /\ PlaceOf(j)' /\ CancelledOnceOf(j)'
      BY <1>1, <2>1, <2>2, ShapeKept, PlaceKept, OnceKept
    <3>2. DurableOf(j)'
      <4>1. j \notin loaded  BY <1>1, <2>1, <2>2 DEF DurableOf
      <4>. QED  BY <1>1, <1>2, <2>1, <2>2, <4>1, DeadFacts DEF DurableOf, Unstarted, Canonical, Saw
    <3>. QED  BY <2>2, <3>1, <3>2 DEF JobOf
  <2>3. CASE k # j
    <3>1. row'[k] = row[k]  BY <1>2, <2>3
    <3>. QED
      BY <1>1, <2>1, <3>1, ShapeKept, PlaceKept, DurableKept, OnceKept DEF JobOf
  <2>. QED  BY <2>2, <2>3
<1>5. \A k \in Jobs : RowOf(k)'
  BY <1>1, <1>2, RowsStay, RowsAfterSettle DEF JInv
<1>6. SlotSound'
  <2>1. slot = NoJob
    BY <1>1, DeadFacts DEF JInv, SlotSound, TypeOK
  <2>. QED  BY <1>1, <2>1 DEF JInv, SlotSound
<1>7. Legal  BY <1>1, SameStatus DEF Legal
<1>. QED  BY <1>3, <1>4, <1>5, <1>6, <1>7 DEF JInv

\* ... or claimed again, to go on from its checkpoint.
LEMMA RestartRestoredSound ==
    ASSUME JInv, NEW j \in Jobs, RestartRestored(j)
    PROVE  JInv' /\ Legal
<1> DEFINE r == [job[j] EXCEPT !.status = "running", !.claim = TRUE, !.restoring = TRUE]
<1>1. /\ TypeOK /\ RowOf(j) /\ ~up /\ up' /\ wanted' = TRUE /\ row[j] \in {"claimed", "started"}
      /\ row' = [row EXCEPT ![j] = "claimed"] /\ job' = [job EXCEPT ![j] = r] /\ slot' = j
      /\ UNCHANGED <<admission, outcome, waiting, pc, chosen, loaded, observed, bounds>>
  BY DEF RestartRestored, ActiveRows, JInv
<1>2. /\ job[j] = Unloaded /\ job[j].task = "none" /\ job[j].callback = "none"
      /\ job[j].executor = "none" /\ ~job[j].resuming /\ j \notin waiting
      /\ job[j] \in JobRecord /\ job[j].status = "unloaded" /\ job[j].abandoned = {}
  BY <1>1, DeadFacts DEF TypeOK, Unloaded
<1>3. /\ r \in JobRecord /\ r.status = "running" /\ r.claim /\ r.restoring
      /\ r.task = "none" /\ r.callback = "none" /\ r.executor = "none" /\ ~r.resuming
      /\ r.abandoned = {}
  BY <1>2 DEF JobRecord, JobStatus, ActiveStatus
<1> HIDE DEF r
<1>4. /\ job' \in [Jobs -> JobRecord] /\ job'[j] = r /\ row'[j] = "claimed"
      /\ \A k \in Jobs \ {j} : job'[k] = job[k] /\ row'[k] = row[k]
  BY <1>1, <1>3 DEF TypeOK
<1>5. TypeOK'
  <2>1. row' \in [Jobs -> {"absent", "queued", "claimed", "started", "terminal"}]
    BY <1>1 DEF TypeOK
  <2>. QED  BY <1>1, <1>4, <2>1 DEF TypeOK
<1>6. ASSUME NEW k \in Jobs PROVE JobOf(k)'
  <2>1. /\ ShapeOf(k) /\ DurableOf(k) /\ PlaceOf(k) /\ CancelledOnceOf(k) /\ JobOf(k)
    BY DEF JInv, JobOf
  <2>2. CASE k = j
    <3>1. ShapeOf(j)'
      BY <1>1, <1>3, <1>4 DEF ShapeOf, Reached, Active, Executing, ExecutorLive
    <3>2. DurableOf(j)'
      <4>1. ~Saw(j, "cancelled")  BY <1>1, <2>1, <2>2 DEF DurableOf
      <4>. QED  BY <1>1, <1>2, <1>3, <1>4, <4>1 DEF DurableOf, Unstarted, Canonical, Saw
    <3>3. PlaceOf(j)'
      BY <1>1, <1>3, <1>4, DeadFacts DEF PlaceOf, TaskAlive
    <3>4. CancelledOnceOf(j)'  BY <1>1, <2>1, <2>2 DEF CancelledOnceOf
    <3>. QED  BY <2>2, <3>1, <3>2, <3>3, <3>4 DEF JobOf
  <2>3. CASE k # j
    <3>1. job'[k] = job[k] /\ row'[k] = row[k]  BY <1>4, <2>3
    <3>2. ~Active(k)  BY <1>1, DeadFacts DEF Active
    <3>. QED
      BY <1>1, <2>1, <3>1, <3>2, ShapeKept, PlaceKept, DurableKept, OnceKept DEF JobOf
  <2>. QED  BY <2>2, <2>3
<1>7. IsDurableHead(j)  BY <1>1 DEF RowOf
<1>8. \A k \in Jobs : RowOf(k)'
  <2>1. RowTaken(j)  BY <1>1 DEF RowTaken
  <2>. QED  BY <1>1, <1>7, <2>1, RowsAfterTake DEF JInv
<1>9. SlotSound'
  <2>1. \A k \in Jobs : job'[k].claim => k = j  BY <1>1, <1>4, DeadFacts
  <2>2. \A k \in Jobs : Open(k)' => commit'[j] <= commit'[k]
    BY <1>1, <1>4, <1>7 DEF Open, IsDurableHead
  <2>. QED  BY <1>1, <1>3, <1>4, <2>1, <2>2 DEF SlotSound
<1>10. Legal  BY <1>2, <1>4, SameStatus DEF Legal
<1>. QED  BY <1>5, <1>6, <1>8, <1>9, <1>10 DEF JInv

\* start_restored_executions.
LEMMA StartRestoredSound ==
    ASSUME JInv, NEW j \in Jobs, StartRestored(j)
    PROVE  JInv' /\ Legal
<1> DEFINE r == [job[j] EXCEPT !.restoring = FALSE, !.task = "created"]
<1>1. /\ TypeOK /\ RowOf(j) /\ up /\ job[j].restoring
      /\ row' = [row EXCEPT ![j] = "started"] /\ job' = [job EXCEPT ![j] = r]
      /\ UNCHANGED <<admission, outcome, slot, waiting, dispatch, up, observed, bounds>>
  BY DEF StartRestored, JInv
<1>2. /\ ShapeOf(j) /\ DurableOf(j) /\ job[j] \in JobRecord
      /\ job[j].status = "running" /\ job[j].task = "none" /\ row[j] = "claimed"
      /\ IsDurableHead(j)
  BY <1>1 DEF JInv, JobOf, ShapeOf, DurableOf, RowOf, TypeOK
<1>3. /\ r \in JobRecord /\ r.status = "running" /\ r.task = "created" /\ ~r.restoring
      /\ r.claim = job[j].claim /\ r.executor = job[j].executor
  BY <1>2 DEF JobRecord, TaskStates
<1> HIDE DEF r
<1>4. /\ job' \in [Jobs -> JobRecord] /\ job'[j] = r /\ row'[j] = "started"
      /\ \A k \in Jobs \ {j} : job'[k] = job[k] /\ row'[k] = row[k]
  BY <1>1, <1>3 DEF TypeOK
<1>5. Here(j)
  BY <1>1, <1>2, <1>3, <1>4, SameStatus, NobodyMoves DEF Here, TypeOK
<1>6. JobOf(j)'
  BY <1>1, <1>2, <1>3, <1>4, TaskCreatedOf
<1>7. RowStep(j)
  <2>1. RowTaken(j)  BY <1>1 DEF RowTaken
  <2>. QED  BY <1>2, <2>1 DEF RowStep
<1>. QED  BY <1>1, <1>5, <1>6, <1>7, HereSound DEF TypeOK, Bounded

-----------------------------------------------------------------------------
(* Every step. *)

LEMMA InitSound == Init => JInv
<1> SUFFICES ASSUME Init PROVE JInv
  OBVIOUS
<1>1. Unloaded \in JobRecord  BY DEF Unloaded, JobRecord, TaskStates
<1>2. TypeOK
  <2>1. /\ job \in [Jobs -> JobRecord]
        /\ events \in [Jobs -> Seq({"completed", "failed", "cancelled"})]
        /\ outcome \in [Jobs -> Outcomes]
    BY <1>1 DEF Init, Outcomes
  <2>2. crashes \in 0..MaxCrashes /\ faults \in 0..MaxFaults /\ requests \in 0..MaxRequests
    BY BoundAssumption DEF Init
  <2>. QED  BY <2>1, <2>2 DEF Init, TypeOK
<1>3. ASSUME NEW j \in Jobs PROVE JobOf(j) /\ RowOf(j)
  <2>1. job[j] = Unloaded /\ row[j] = "absent" /\ outcome[j] = "unknown" /\ commit[j] = 0
        /\ events[j] = <<>> /\ j \notin waiting /\ j \notin loaded /\ lastCommit = 0
        /\ \A q \in {Task(j), Fin(j), Ctl(j)} : pc[q] = "idle"
    BY DEF Init, Procs, Task, Fin, Ctl
  <2>2. ShapeOf(j)  BY <2>1 DEF ShapeOf, Unloaded, Reached, Active, Executing, ExecutorLive
  <2>3. DurableOf(j)  BY <2>1 DEF DurableOf, Unloaded, Unstarted, Canonical, Saw
  <2>4. PlaceOf(j)  BY <2>1 DEF PlaceOf
  <2>5. CancelledOnceOf(j)  BY <2>1 DEF CancelledOnceOf
  <2>6. RowOf(j)  BY <2>1 DEF RowOf, Init
  <2>. QED  BY <2>2, <2>3, <2>4, <2>5, <2>6 DEF JobOf
<1>4. SlotSound  BY DEF SlotSound, Init, Unloaded
<1>. QED  BY <1>2, <1>3, <1>4 DEF JInv

LEMMA StutterSound ==
    ASSUME JInv, UNCHANGED vars
    PROVE  JInv' /\ Legal
<1>1. UNCHANGED <<durable, job, slot, waiting, dispatch, up, observed, bounds>>  BY DEF vars
<1>2. TypeOK'  BY <1>1 DEF JInv, TypeOK
<1>3. \A k \in Jobs : JobOf(k)'
  BY <1>1, ShapeKept, PlaceKept, DurableKept, OnceKept DEF JInv, JobOf
<1>4. \A k \in Jobs : RowOf(k)'  BY <1>1, RowsStay DEF JInv, RowsKept
<1>5. SlotSound'  BY <1>1 DEF JInv, SlotSound, Open
<1>6. Legal  BY <1>1, SameStatus DEF Legal
<1>. QED  BY <1>2, <1>3, <1>4, <1>5, <1>6 DEF JInv

LEMMA ProcessSound ==
    ASSUME JInv, NEW p \in Procs,
           Progress(p) \/ (p[1] \in {"fin", "ctl"} /\ FinalizeFault(p))
    PROVE  JInv' /\ Legal
<1>1. ASSUME p[1] \in {"fin", "ctl"} PROVE \E j \in Jobs : p \in {Fin(j), Ctl(j)}
  BY <1>1 DEF Procs, Fin, Ctl, Restore, Notify
<1>2. CASE Select(p)
  BY <1>2, SelectCurrentSound, SelectNoneSound, SelectRefusedSound, SelectHeadSound DEF Select
<1>3. CASE Launch(p)  BY <1>3, LaunchSound
<1>4. CASE p[1] \in {"task", "fin", "ctl"} /\ (Close(p) \/ Handover(p) \/ HandoverLost(p))
  BY <1>4, CloseSound, HandoverSound, HandoverLostSound
<1>5. CASE p[1] \in {"fin", "ctl"} /\ (Finalize(p) \/ FinalizeFault(p))
  BY <1>1, <1>5, FinalizeSound, FinalizeFaultSound
<1>. QED  BY <1>2, <1>3, <1>4, <1>5 DEF Progress

LEMMA JobStepSound ==
    ASSUME JInv, NEW j \in Jobs,
           \/ Admit(j) \/ Control(j) \/ JobProgress(j) \/ ExecutorStep(j) \/ AbandonedStep(j)
           \/ up /\ (TaskTimeout(j) \/ SettleFault(j))
           \/ RestartRestored(j) \/ RestartLost(j)
    PROVE  JInv' /\ Legal
<1>1. CASE Admit(j)  BY <1>1, AdmitSound
<1>2. CASE Control(j)
  BY <1>2, PauseSound, ResumeNowSound, ResumeWaitSound, CancelQueuedSound, CancelActiveSound,
     InterruptSound DEF Control
<1>3. CASE TaskStep(j)
  BY <1>3, TaskCancelledEarlySound, TaskBeginSound, ExecutorStartSound, TaskInterruptedSound,
     AbandonSound, TaskCancelBranchSound, TaskCollectSound, TaskTimedOutSound, SettleSound,
     CallbackErrorSound, CallbackCancelledSound DEF TaskStep
<1>4. CASE CtlWake(j) \/ ResumeAfterTask(j) \/ StartRestored(j)
  BY <1>4, CtlWakeSound, ResumeAfterTaskSound, StartRestoredSound
<1>5. CASE ExecutorStep(j)
  BY <1>5, ExecutorConvergeSound, ExecutorReturnSound, ExecutorRaiseSound DEF ExecutorStep
<1>6. CASE up /\ (TaskTimeout(j) \/ SettleFault(j))
  BY <1>6, TaskTimeoutSound, SettleFaultSound
<1>7. CASE RestartRestored(j) \/ RestartLost(j)
  BY <1>7, RestartRestoredSound, RestartLostSound
<1>8. CASE AbandonedStep(j)
  BY <1>8, AbandonedConvergesSound, AbandonedReturnsSound DEF AbandonedStep
<1>. QED  BY <1>1, <1>2, <1>3, <1>4, <1>5, <1>6, <1>7, <1>8 DEF JobProgress

LEMMA StepSound ==
    ASSUME JInv, [Next]_vars
    PROVE  JInv' /\ Legal
<1>1. CASE RequestLoad  BY <1>1, RequestLoadSound
<1>2. CASE RestoreProgress
  BY <1>2, RestoreReadSound, RestoreInstallSound DEF RestoreProgress
<1>3. CASE NotifyBoundary  BY <1>3, NotifyBoundarySound
<1>4. CASE Crash  BY <1>4, CrashSound
<1>5. CASE RestartIdle  BY <1>5, RestartIdleSound
<1>6. CASE \E p \in Procs : Progress(p) \/ (p[1] \in {"fin", "ctl"} /\ FinalizeFault(p))
  BY <1>6, ProcessSound
<1>7. CASE \E j \in Jobs : \/ Admit(j) \/ Control(j) \/ JobProgress(j) \/ ExecutorStep(j) \/ AbandonedStep(j)
                           \/ up /\ (TaskTimeout(j) \/ SettleFault(j))
                           \/ RestartRestored(j) \/ RestartLost(j)
  BY <1>7, JobStepSound
<1>8. CASE UNCHANGED vars  BY <1>8, StutterSound
<1>. QED  BY <1>1, <1>2, <1>3, <1>4, <1>5, <1>6, <1>7, <1>8 DEF Next

\* JInv holds in every state of the job service.
THEOREM ServiceIsSound == Spec => []JInv
<1>1. Init => JInv  BY InitSound
<1>2. JInv /\ [Next]_vars => JInv'  BY StepSound
<1>. QED  BY <1>1, <1>2, PTL DEF Spec

\* CanonicalFirst: no reader sees cancelled, timed_out or completed before the
\* outcome is committed to the row.
THEOREM CanonicalOutcomeFirst == Spec => []CanonicalFirst
<1>1. JInv => CanonicalFirst  BY DEF JInv, JobOf, DurableOf, CanonicalFirst, Canonical
<1>. QED  BY <1>1, ServiceIsSound, PTL

\* LegalTransitions: the interleavings of the task, its callbacks, control
\* and dispatch only use the edges of _ALLOWED_TRANSITIONS.
THEOREM OnlyLegalTransitions == Spec => LegalTransitions
<1>1. JInv /\ [Next]_vars =>
        [\A j \in Jobs :
            job[j].status # "unloaded" /\ job'[j].status # "unloaded" =>
                MayTransition(job[j].status, job'[j].status)]_vars
  BY StepSound DEF Legal
<1>. QED  BY <1>1, ServiceIsSound, PTL DEF Spec, LegalTransitions

-----------------------------------------------------------------------------
(* The rows behave as the abstract queue of the Thread.  Settlements may     *)
(* come late and twice; MarkedOutcome absorbs them.                          *)

QueueStep == [Queue!Next]_(Queue!vars)

LEMMA KeptIsStutter ==
    ASSUME RowsKept
    PROVE  QueueStep
BY DEF RowsKept, QueueStep, Queue!vars

LEMMA SettledIsStep ==
    ASSUME TypeOK, NEW j \in Jobs, RowOf(j), row[j] # "absent", RowSettled(j)
    PROVE  QueueStep
<1>1. PICK r \in Outcomes \ {"unknown"} :
        /\ outcome' = [outcome EXCEPT ![j] = r] /\ row' = [row EXCEPT ![j] = "terminal"]
        /\ commit' = commit
        /\ row[j] = "terminal" =>
            outcome[j] = "execution_lost" /\ r \in {"cancelled", "interrupted"}
  BY DEF RowSettled
<1>2. CASE row[j] = "terminal"
  <2>1. row' = row  BY <1>1, <1>2 DEF TypeOK
  <2>2. Queue!Correct(j, r)  BY <1>1, <1>2, <2>1 DEF Queue!Correct
  <2>. QED  BY <1>1, <2>2 DEF QueueStep, Queue!Next, Queue!Outcomes, Outcomes
<1>3. CASE row[j] # "terminal"
  <2>1. Queue!Settle(j, r)  BY <1>1, <1>3 DEF Queue!Settle, Queue!Open
  <2>. QED  BY <1>1, <2>1 DEF QueueStep, Queue!Next, Queue!Outcomes, Outcomes
<1>. QED  BY <1>2, <1>3

LEMMA PersistIsStep ==
    ASSUME TypeOK, NEW j \in Jobs, RowOf(j), row[j] # "absent", NEW mark \in TerminalMarks,
           Persist(j, mark)
    PROVE  QueueStep
BY PersistFacts, KeptIsStutter, SettledIsStep

LEMMA HeadIsFirst == ASSUME NEW j \in Jobs, IsDurableHead(j) PROVE Queue!First(j)
BY DEF IsDurableHead, Open, Queue!First, Queue!Open

LEMMA ClaimIsTake ==
    ASSUME NEW j \in Jobs, IsDurableHead(j), row' = [row EXCEPT ![j] = "claimed"],
           UNCHANGED <<commit, outcome>>
    PROVE  QueueStep
BY HeadIsFirst DEF QueueStep, Queue!Next, Queue!Take

LEMMA StartIsStart ==
    ASSUME NEW j \in Jobs, RowOf(j), row[j] = "claimed", row' = [row EXCEPT ![j] = "started"],
           UNCHANGED <<commit, outcome>>
    PROVE  QueueStep
BY HeadIsFirst DEF RowOf, QueueStep, Queue!Next, Queue!Start

LEMMA AdmitIsAdmit ==
    ASSUME JInv, NEW j \in Jobs, Admit(j)
    PROVE  QueueStep
<1>1. /\ TypeOK /\ row[j] = "absent" /\ outcome' = outcome
      /\ commit' = [commit EXCEPT ![j] = lastCommit + 1]
      /\ row' = [row EXCEPT ![j] = "queued"]
  BY DEF Admit, JInv
<1>2. commit'[j] = lastCommit + 1  BY <1>1 DEF TypeOK
<1>3. \A k \in Jobs : commit[k] < commit'[j]
  BY <1>1, <1>2 DEF JInv, TypeOK, RowOf
<1>4. Queue!Admit(j)  BY <1>1, <1>2, <1>3 DEF Queue!Admit
<1>. QED  BY <1>4 DEF QueueStep, Queue!Next

LEMMA ProcessImplements ==
    ASSUME JInv, NEW p \in Procs,
           Progress(p) \/ (p[1] \in {"fin", "ctl"} /\ FinalizeFault(p))
    PROVE  QueueStep
<1>1. TypeOK /\ \A j \in Jobs : RowOf(j) /\ ShapeOf(j) /\ DurableOf(j) /\ PlaceOf(j)
  BY DEF JInv, JobOf
<1>2. CASE SelectHead(p)
  <2>1. PICK j \in Kept : Claimable(j) /\ row' = [row EXCEPT ![j] = "claimed"]
                          /\ UNCHANGED <<admission, outcome>>
    BY <1>2 DEF SelectHead
  <2>2. j \in Jobs /\ IsDurableHead(j)  BY <1>1, <2>1 DEF Kept, Claimable, TypeOK
  <2>. QED  BY <2>1, <2>2, ClaimIsTake
<1>3. CASE SelectCurrent(p) \/ SelectNone(p) \/ SelectRefused(p)
  BY <1>3, KeptIsStutter DEF SelectCurrent, SelectNone, SelectRefused, RowsKept
<1>4. CASE Launch(p)
  <2> DEFINE go == slot = chosen[p] /\ Unstarted(chosen[p])
  <2>1. /\ row' = [row EXCEPT ![chosen[p]] = IF go THEN "started" ELSE @]
        /\ UNCHANGED <<admission, outcome>>
    BY <1>4 DEF Launch
  <2>2. CASE chosen[p] \notin Jobs \/ ~go
    <3>1. row' = row  BY <1>1, <2>1, <2>2 DEF TypeOK
    <3>. QED  BY <2>1, <3>1, KeptIsStutter DEF RowsKept
  <2>3. ASSUME NEW j \in Jobs, j = chosen[p], go PROVE QueueStep
    <3>1. row[j] = "claimed"  BY <1>1, <2>3 DEF DurableOf
    <3>2. row' = [row EXCEPT ![j] = "started"] /\ UNCHANGED <<commit, outcome>>  BY <2>1, <2>3
    <3>. QED  BY <1>1, <3>1, <3>2, StartIsStart
  <2>. QED  BY <2>2, <2>3
<1>5. CASE Close(p) \/ Handover(p) \/ HandoverLost(p) \/ FinalizeFault(p)
  BY <1>5, KeptIsStutter DEF Close, Handover, HandoverLost, FinalizeFault, RowsKept
<1>6. CASE p[1] \in {"fin", "ctl"} /\ Finalize(p)
  <2>1. PICK j \in Jobs : p[2] = j  BY <1>6, ProcessOf
  <2>2. CASE job[j].status = "cancelling"
    <3>1. Persist(j, "cancelled")  BY <1>6, <2>1, <2>2 DEF Finalize
    <3>2. row[j] # "absent"  BY <1>1, <2>2 DEF DurableOf
    <3>. QED  BY <1>1, <3>1, <3>2, PersistIsStep DEF TerminalMarks
  <2>3. CASE job[j].status # "cancelling"
    BY <1>6, <2>1, <2>3, KeptIsStutter DEF Finalize, RowsKept
  <2>. QED  BY <2>2, <2>3
<1>. QED  BY <1>2, <1>3, <1>4, <1>5, <1>6 DEF Progress, Select

LEMMA JobStepImplements ==
    ASSUME JInv, NEW j \in Jobs,
           \/ Admit(j) \/ Control(j) \/ JobProgress(j) \/ ExecutorStep(j) \/ AbandonedStep(j)
           \/ up /\ (TaskTimeout(j) \/ SettleFault(j))
           \/ RestartRestored(j) \/ RestartLost(j)
    PROVE  QueueStep
<1>1. TypeOK /\ RowOf(j) /\ ShapeOf(j) /\ DurableOf(j)  BY DEF JInv, JobOf
<1>2. CASE Admit(j)  BY <1>2, AdmitIsAdmit
<1>3. CASE CancelQueued(j)
  <2>1. Persist(j, "cancelled") /\ row[j] # "absent"  BY <1>1, <1>3 DEF CancelQueued, DurableOf
  <2>. QED  BY <1>1, <2>1, PersistIsStep DEF TerminalMarks
<1>4. CASE Pause(j) \/ ResumeNow(j) \/ ResumeWait(j) \/ CancelActive(j) \/ Interrupt(j)
  BY <1>4, KeptIsStutter
  DEF Pause, ResumeNow, ResumeWait, CancelActive, Interrupt, CancelRequest, RowsKept
<1>5. CASE Settle(j)
  <2>1. /\ SettledStatus(job[j].task) \in TerminalMarks /\ Persist(j, SettledStatus(job[j].task))
        /\ row[j] # "absent"
    BY <1>1, <1>5 DEF Settle, Settling, SettledStatus, TerminalMarks, ShapeOf, DurableOf
  <2>. QED  BY <1>1, <2>1, PersistIsStep
<1>6. CASE TaskStep(j) /\ ~Settle(j)
  BY <1>6, KeptIsStutter
  DEF TaskStep, TaskCancelledEarly, TaskBegin, ExecutorStart, TaskInterrupted, Abandon,
      TaskCancelBranch, TaskCollect, TaskTimedOut, CallbackError, CallbackCancelled, RowsKept
<1>7. CASE CtlWake(j) \/ ResumeAfterTask(j) \/ TaskTimeout(j) \/ SettleFault(j)
  BY <1>7, KeptIsStutter DEF CtlWake, ResumeAfterTask, TaskTimeout, SettleFault, RowsKept
<1>8. CASE StartRestored(j)
  <2>1. row[j] = "claimed"  BY <1>1, <1>8 DEF StartRestored, DurableOf
  <2>. QED  BY <1>1, <1>8, <2>1, StartIsStart DEF StartRestored
<1>9. CASE ExecutorReturn(j) \/ ExecutorRaise(j)
  BY <1>9, KeptIsStutter DEF ExecutorReturn, ExecutorRaise, RowsKept
<1>10. CASE \E result \in Outcomes : ExecutorConverge(j, result)
  <2>1. PICK result \in Outcomes : ExecutorConverge(j, result)  BY <1>10
  <2>2. /\ outcome' = [outcome EXCEPT ![j] = result] /\ result # "unknown" /\ outcome[j] = "unknown"
        /\ UNCHANGED admission
    BY <2>1 DEF ExecutorConverge
  <2>3. row' = [row EXCEPT ![j] = "terminal"]
    BY <2>1, <2>2 DEF ExecutorConverge, RowPhaseAfter
  <2>4. row[j] # "terminal"  BY <1>1, <2>2 DEF RowOf
  <2>5. row[j] # "absent"
    BY <1>1, <2>1 DEF ExecutorConverge, ShapeOf, DurableOf, ExecutorLive, Executing, Active
  <2>6. RowSettled(j)  BY <2>2, <2>3, <2>4 DEF RowSettled
  <2>. QED  BY <1>1, <2>5, <2>6, SettledIsStep
<1>11. CASE RestartRestored(j)
  <2>1. row[j] \in {"claimed", "started"} /\ row' = [row EXCEPT ![j] = "claimed"]
        /\ UNCHANGED <<commit, outcome>>
    BY <1>11 DEF RestartRestored, ActiveRows
  <2>2. IsDurableHead(j)  BY <1>1, <2>1 DEF RowOf
  <2>. QED  BY <2>1, <2>2, ClaimIsTake
<1>12. CASE RestartLost(j)
  <2>1. Persist(j, "execution_lost") /\ row[j] # "absent"
    BY <1>12 DEF RestartLost, ActiveRows
  <2>. QED  BY <1>1, <2>1, PersistIsStep DEF TerminalMarks
<1>13. CASE AbandonedReturns(j)
  BY <1>13, KeptIsStutter DEF AbandonedReturns, RowsKept
<1>14. CASE \E result \in Outcomes : AbandonedConverges(j, result)
  <2>1. PICK result \in Outcomes : AbandonedConverges(j, result)  BY <1>14
  <2>2. /\ outcome' = [outcome EXCEPT ![j] = result] /\ result # "unknown" /\ outcome[j] = "unknown"
        /\ UNCHANGED admission
    BY <2>1 DEF AbandonedConverges
  <2>3. row' = [row EXCEPT ![j] = "terminal"]
    BY <2>1, <2>2 DEF AbandonedConverges, RowPhaseAfter
  <2>4. row[j] \notin {"absent", "terminal"}
    BY <1>1, <2>1, <2>2, AbandonedFacts DEF AbandonedConverges, RowOf
  <2>5. RowSettled(j)  BY <2>2, <2>3, <2>4 DEF RowSettled
  <2>. QED  BY <1>1, <2>4, <2>5, SettledIsStep
<1>. QED
  BY <1>2, <1>3, <1>4, <1>5, <1>6, <1>7, <1>8, <1>9, <1>10, <1>11, <1>12, <1>13, <1>14
  DEF AbandonedStep, Control, JobProgress, ExecutorStep

LEMMA StepImplements ==
    ASSUME JInv, [Next]_vars
    PROVE  QueueStep
<1>1. CASE RequestLoad \/ RestoreProgress \/ NotifyBoundary \/ Crash \/ RestartIdle
  BY <1>1, KeptIsStutter
  DEF RequestLoad, RestoreProgress, RestoreRead, RestoreInstall, NotifyBoundary, Crash,
      RestartIdle, RowsKept
<1>2. CASE \E p \in Procs : Progress(p) \/ (p[1] \in {"fin", "ctl"} /\ FinalizeFault(p))
  BY <1>2, ProcessImplements
<1>3. CASE \E j \in Jobs : \/ Admit(j) \/ Control(j) \/ JobProgress(j) \/ ExecutorStep(j) \/ AbandonedStep(j)
                           \/ up /\ (TaskTimeout(j) \/ SettleFault(j))
                           \/ RestartRestored(j) \/ RestartLost(j)
  BY <1>3, JobStepImplements
<1>4. CASE UNCHANGED vars  BY <1>4, KeptIsStutter DEF vars, RowsKept
<1>. QED  BY <1>1, <1>2, <1>3, <1>4 DEF Next

\* ImplementsThreadQueue: mirror, slot, claims, crashes and restarts of the
\* job service never take, start or settle a row out of the order in which
\* accept_job_input admitted them.
THEOREM ServiceImplementsThreadQueue == Spec => ImplementsThreadQueue
<1>1. Init => Queue!Init  BY DEF Init, Queue!Init
<1>2. JInv /\ [Next]_vars => [Queue!Next]_(Queue!vars)  BY StepImplements DEF QueueStep
<1>. QED  BY <1>1, <1>2, ServiceIsSound, PTL DEF Spec, ImplementsThreadQueue, Queue!Spec

-----------------------------------------------------------------------------
(* Where a queued job waits, when nobody cancels it before it is loaded.     *)

\* A queued job has its row, and the mirror has it, or the coroutine that
\* rebuilds the mirror has read it, or somebody has asked for a load.
LoadedInv ==
    \A j \in Jobs : job[j].status = "queued" =>
        /\ row[j] = "queued"
        /\ pc[Restore] = "install" => j \in loaded
        /\ pc[Restore] # "install" => j \in waiting \/ wanted

RestoreStays ==
    /\ wanted => wanted'
    /\ pc'[Restore] = "install" <=> pc[Restore] = "install"
    /\ loaded' = loaded

\* Jobs only stop to be queued, and those that do not stay where they wait.
LEMMA LoadedKept ==
    ASSUME LoadedInv, RestoreStays,
           \A k \in Jobs : job'[k].status = "queued" =>
                /\ job[k].status = "queued" /\ row'[k] = row[k]
                /\ k \in waiting => k \in waiting'
    PROVE  LoadedInv'
BY DEF LoadedInv, RestoreStays

LEMMA RestoreUntouched ==
    ASSUME TypeOK, NEW p \in Procs, p # Restore \/ pc[p] # "install",
           NEW label \in Labels \ {"install"}, GoTo(p, label),
           UNCHANGED <<loaded, wanted>>
    PROVE  RestoreStays
BY DEF RestoreStays, GoTo, TypeOK, Procs, Restore, Labels

\* A step of one job that is not queued.
LEMMA OtherQueuedStay ==
    ASSUME JInv, LoadedInv, NEW j \in Jobs, RestoreStays,
           job[j].status # "queued", job'[j].status # "queued",
           \A k \in Jobs \ {j} : job'[k] = job[k] /\ row'[k] = row[k],
           waiting' = waiting
    PROVE  LoadedInv'
BY LoadedKept

\* What the dispatch does: discarded follow-ups leave the mirror as failed.
LEMMA DispatchKeeps ==
    ASSUME JInv, LoadedInv, NEW p \in Procs, NEW jobs, jobs = job \/ jobs = AfterDiscard,
           NEW failing \in BOOLEAN, job' = jobs \/ job' = Ended(p, jobs, failing),
           RestoreStays, row' = row,
           waiting' = waiting \/ (waiting' = Kept /\ jobs = AfterDiscard)
    PROVE  LoadedInv'
<1>1. TypeOK /\ job \in [Jobs -> JobRecord]  BY DEF JInv, TypeOK
<1>2. jobs \in [Jobs -> JobRecord]  BY <1>1, DiscardFacts
<1>3. \A k \in Jobs : job'[k].status = jobs[k].status
  <2>1. CASE job' = jobs  BY <2>1
  <2>2. CASE job' = Ended(p, jobs, failing)  BY <1>2, <2>2, EndedFacts
  <2>. QED  BY <2>1, <2>2
<1>4. \A k \in Jobs : jobs[k].status = "queued" =>
            job[k].status = "queued" /\ (jobs = AfterDiscard => k \notin Stale)
  <2>1. CASE jobs = job /\ jobs # AfterDiscard  BY <2>1
  <2>2. CASE jobs = AfterDiscard
    <3>1. \A k \in Jobs \ Stale : AfterDiscard[k] = job[k]  BY <1>1, DiscardFacts
    <3>2. \A k \in Jobs \cap Stale : AfterDiscard[k].status = "failed"  BY <1>1, DiscardFacts
    <3>. QED  BY <2>2, <3>1, <3>2
  <2>. QED  BY <2>1, <2>2
<1>. QED  BY <1>3, <1>4, LoadedKept DEF Kept

LEMMA ProcessKeepsLoaded ==
    ASSUME JInv, LoadedInv, NEW p \in Procs,
           Progress(p) \/ (p[1] \in {"fin", "ctl"} /\ FinalizeFault(p))
    PROVE  LoadedInv'
<1>1. TypeOK /\ \A j \in Jobs : ShapeOf(j) /\ DurableOf(j) /\ PlaceOf(j)
  BY DEF JInv, JobOf
<1>2. {"idle", "close", "handover", "select", "launch"} \subseteq Labels \ {"install"}
  BY DEF Labels
<1>3. CASE SelectCurrent(p)
  <2>1. /\ GoTo(p, IF Unstarted(slot) THEN "launch" ELSE "idle") /\ pc[p] # "install"
        /\ job' = job \/ job' = Ended(p, job, FALSE)
        /\ UNCHANGED <<row, waiting, loaded, wanted>>
    BY <1>3 DEF SelectCurrent, MaySelect
  <2>2. RestoreStays  BY <1>1, <1>2, <2>1, RestoreUntouched
  <2>. QED  BY <2>1, <2>2, DispatchKeeps
<1>4. CASE SelectNone(p) \/ SelectRefused(p)
  <2>1. PICK failing \in BOOLEAN : job' = Ended(p, AfterDiscard, failing)
    BY <1>4 DEF SelectNone, SelectRefused
  <2>2. GoTo(p, "idle") /\ pc[p] # "install" /\ waiting' = Kept /\ UNCHANGED <<row, loaded, wanted>>
    BY <1>4 DEF SelectNone, SelectRefused, MaySelect
  <2>3. RestoreStays  BY <1>1, <1>2, <2>2, RestoreUntouched
  <2>. QED  BY <2>1, <2>2, <2>3, DispatchKeeps
<1>5. CASE SelectHead(p)
  <2>1. PICK j \in Kept :
          /\ row' = [row EXCEPT ![j] = "claimed"] /\ waiting' = Kept \ {j}
          /\ job' = [AfterDiscard EXCEPT ![j].status = "running", ![j].claim = TRUE,
                                         ![j].boundary = BoundaryOf(p)]
          /\ GoTo(p, "launch") /\ pc[p] # "install" /\ UNCHANGED <<loaded, wanted>>
    BY <1>5 DEF SelectHead, MaySelect
  <2>2. RestoreStays  BY <1>1, <1>2, <2>1, RestoreUntouched
  <2>3. ASSUME NEW k \in Jobs, job'[k].status = "queued"
        PROVE  k # j /\ k \notin Stale /\ job[k].status = "queued"
    <3>1. AfterDiscard \in [Jobs -> JobRecord] /\ j \in Jobs
      BY <1>1, <2>1, DiscardFacts DEF Kept, TypeOK
    <3>2. AfterDiscard[j] \in JobRecord  BY <3>1
    <3>3. job'[j].status = "running"  BY <2>1, <3>1, <3>2 DEF JobRecord
    <3>4. k # j  BY <2>3, <3>3
    <3>5. job'[k] = AfterDiscard[k]  BY <2>1, <3>1, <3>4
    <3>. QED  BY <1>1, <2>3, <3>4, <3>5, DiscardFacts
  <2>4. \A k \in Jobs \ {j} : row'[k] = row[k]  BY <1>1, <2>1 DEF TypeOK
  <2>. QED  BY <2>1, <2>2, <2>3, <2>4, LoadedKept DEF Kept
<1>6. CASE Launch(p)
  <2> DEFINE launched == [job EXCEPT ![chosen[p]].task =
                            IF slot = chosen[p] /\ Unstarted(chosen[p]) THEN "created" ELSE @]
  <2>1. /\ row' = [row EXCEPT ![chosen[p]] =
                    IF slot = chosen[p] /\ Unstarted(chosen[p]) THEN "started" ELSE @]
        /\ job' = Ended(p, launched, FALSE)
        /\ GoTo(p, "idle") /\ pc[p] # "install" /\ UNCHANGED <<waiting, loaded, wanted>>
    BY <1>6 DEF Launch
  <2>2. RestoreStays  BY <1>1, <1>2, <2>1, RestoreUntouched
  <2>3. launched \in [Jobs -> JobRecord] /\ \A k \in Jobs : launched[k].status = job[k].status
    <3>1. ASSUME NEW k \in Jobs
          PROVE  launched[k] \in JobRecord /\ launched[k].status = job[k].status
      <4>1. job[k] \in JobRecord  BY <1>1 DEF TypeOK
      <4>. QED  BY <1>1, <4>1, ZenonT(60) DEF TypeOK, JobRecord, TaskStates
    <3>. QED  BY <1>1, <3>1 DEF TypeOK
  <2> HIDE DEF launched
  <2>4. \A k \in Jobs : job'[k].status = job[k].status
    <3>1. FALSE \in BOOLEAN  OBVIOUS
    <3>2. \A k \in Jobs : Ended(p, launched, FALSE)[k].status = launched[k].status
      BY <2>3, <3>1, EndedFacts
    <3>. QED  BY <2>1, <2>3, <3>2
  <2>5. \A k \in Jobs : job[k].status = "queued" => row'[k] = row[k]
    BY <1>1, <2>1 DEF TypeOK, Unstarted
  <2>. QED  BY <2>1, <2>2, <2>4, <2>5, LoadedKept
<1>7. CASE p[1] \in {"task", "fin", "ctl"} /\ (Close(p) \/ HandoverLost(p))
  <2>1. pc[p] # "install" /\ UNCHANGED <<row, waiting, loaded, wanted>>
    BY <1>7 DEF Close, HandoverLost
  <2>2. PICK j \in Jobs : p[2] = j  BY <1>7, ProcessOf
  <2>3. CASE job' = Ended(p, job, FALSE)
    <3>1. GoTo(p, "idle") \/ GoTo(p, "handover")  BY <1>7 DEF Close, HandoverLost
    <3>2. RestoreStays  BY <1>1, <1>2, <2>1, <3>1, RestoreUntouched
    <3>. QED  BY <2>1, <2>3, <3>2, DispatchKeeps
  <2>4. CASE Terminal(j) /\ job' = [job EXCEPT ![j].claim = FALSE] /\ GoTo(p, "handover")
    <3>1. RestoreStays  BY <1>1, <1>2, <2>1, <2>4, RestoreUntouched
    <3>2. \A k \in Jobs : job'[k].status = job[k].status
      <4>1. job \in [Jobs -> JobRecord] /\ job[j] \in JobRecord  BY <1>1 DEF TypeOK
      <4>2. [job[j] EXCEPT !.claim = FALSE].status = job[j].status  BY <4>1 DEF JobRecord
      <4>. QED  BY <2>4, <4>1, <4>2
    <3>. QED  BY <2>1, <3>1, <3>2, LoadedKept
  <2>. QED  BY <1>7, <2>2, <2>3, <2>4 DEF Close, HandoverLost
<1>8. CASE Handover(p)
  <2>1. /\ GoTo(p, IF Kept = {} THEN "idle" ELSE "select") /\ pc[p] # "install"
        /\ waiting' = Kept /\ (job' = AfterDiscard \/ job' = Ended(p, AfterDiscard, FALSE))
        /\ UNCHANGED <<row, loaded, wanted>>
    BY <1>8 DEF Handover
  <2>2. RestoreStays  BY <1>1, <1>2, <2>1, RestoreUntouched
  <2>. QED  BY <2>1, <2>2, DispatchKeeps
<1>9. CASE p[1] \in {"fin", "ctl"} /\ Finalize(p)
  <2>1. PICK j \in Jobs : p[2] = j  BY <1>9, ProcessOf
  <2>2. /\ GoTo(p, IF job[j].status \in {"cancelling", "cancelled"} THEN "close" ELSE "idle")
        /\ pc[p] # "install" /\ UNCHANGED <<waiting, loaded, wanted>>
    BY <1>9, <2>1 DEF Finalize
  <2>3. RestoreStays  BY <1>1, <1>2, <2>2, RestoreUntouched
  <2>4. CASE job[j].status = "cancelling"
    <3>1. Persist(j, "cancelled") /\ job' = [job EXCEPT ![j].status = "cancelled"]
      BY <1>9, <2>1, <2>4 DEF Finalize
    <3>2. job'[j].status = "cancelled" /\ \A k \in Jobs \ {j} : job'[k] = job[k]
      <4>1. job \in [Jobs -> JobRecord] /\ job[j] \in JobRecord  BY <1>1 DEF TypeOK
      <4>2. [job[j] EXCEPT !.status = "cancelled"].status = "cancelled"  BY <4>1 DEF JobRecord
      <4>. QED  BY <3>1, <4>1, <4>2
    <3>3. \A k \in Jobs \ {j} : row'[k] = row[k]  BY <1>1, <3>1 DEF Persist, TypeOK
    <3>. QED  BY <2>2, <2>3, <2>4, <3>2, <3>3, OtherQueuedStay
  <2>5. CASE job[j].status # "cancelling"
    <3>1. UNCHANGED <<durable, job>>  BY <1>9, <2>1, <2>5 DEF Finalize
    <3>. QED  BY <2>2, <2>3, <3>1, LoadedKept
  <2>. QED  BY <2>4, <2>5
<1>10. CASE p[1] \in {"fin", "ctl"} /\ FinalizeFault(p)
  <2>1. UNCHANGED <<row, job, waiting, loaded, wanted>> /\ pc'[Restore] = pc[Restore]
    BY <1>1, <1>10 DEF FinalizeFault, TypeOK, Restore, Notify, Procs
  <2>. QED  BY <2>1, LoadedKept DEF RestoreStays
<1>. QED
  BY <1>3, <1>4, <1>5, <1>6, <1>7, <1>8, <1>9, <1>10 DEF Progress, Select

\* Only an admission or a load makes a job queued.
LEMMA NeverQueuedAgain ==
    ASSUME Legal, NEW k \in Jobs, ShapeOf(k), job[k].status # "unloaded",
           job'[k].status = "queued"
    PROVE  job[k].status = "queued"
BY DEF Legal, ShapeOf, Reached, MayTransition, AllowedTargets, TerminalStatus

\* A step of one job that is loaded and not queued.
LEMMA LateStepKeeps ==
    ASSUME JInv, LoadedInv, Legal, NEW j \in Jobs,
           \A k \in Jobs \ {j} : job'[k] = job[k] /\ row'[k] = row[k],
           job[j].status \notin {"unloaded", "queued"} \/ (job' = job /\ row' = row),
           pc'[Restore] = pc[Restore], UNCHANGED <<waiting, loaded, wanted>>
    PROVE  LoadedInv'
<1>1. RestoreStays  BY DEF RestoreStays
<1>2. ASSUME NEW k \in Jobs, job'[k].status = "queued"
      PROVE  job[k].status = "queued" /\ row'[k] = row[k]
  BY <1>2, NeverQueuedAgain DEF JInv, JobOf
<1>. QED  BY <1>1, <1>2, LoadedKept

\* A task, its executor and its callback touch the JobState of their job only.
LEMMA TaskLeavesOthers ==
    ASSUME JInv, NEW j \in Jobs, NEW k \in Jobs \ {j},
           TaskStep(j) \/ ExecutorStep(j) \/ AbandonedStep(j) \/ TaskTimeout(j) \/ SettleFault(j)
    PROVE  job'[k] = job[k]
<1>0. job \in [Jobs -> JobRecord]  BY DEF JInv, TypeOK
<1>1. CASE TaskCancelledEarly(j) \/ TaskBegin(j) \/ ExecutorStart(j)
  BY <1>0, <1>1 DEF TaskCancelledEarly, TaskBegin, ExecutorStart
<1>2. CASE TaskInterrupted(j) \/ Abandon(j) \/ TaskCancelBranch(j)
  BY <1>0, <1>2 DEF TaskInterrupted, Abandon, TaskCancelBranch
<1>3. CASE TaskCollect(j) \/ TaskTimedOut(j)
  BY <1>0, <1>3 DEF TaskCollect, TaskTimedOut
<1>4. CASE Settle(j)  BY <1>0, <1>4 DEF Settle
<1>5. CASE CallbackError(j) \/ CallbackCancelled(j)
  BY <1>0, <1>5 DEF CallbackError, CallbackCancelled
<1>6. CASE ExecutorStep(j)
  BY <1>0, <1>6 DEF ExecutorStep, ExecutorConverge, ExecutorReturn, ExecutorRaise
<1>7. CASE TaskTimeout(j) \/ SettleFault(j)
  BY <1>0, <1>7 DEF TaskTimeout, SettleFault
<1>8. CASE AbandonedStep(j)
  BY <1>0, <1>8 DEF AbandonedStep, AbandonedConverges, AbandonedReturns
<1>. QED  BY <1>1, <1>2, <1>3, <1>4, <1>5, <1>6, <1>7, <1>8 DEF TaskStep

LEMMA TaskKeepsLoaded ==
    ASSUME JInv, LoadedInv, Legal, NEW j \in Jobs,
           \/ TaskStep(j) \/ ExecutorStep(j) \/ AbandonedStep(j) \/ TaskTimeout(j) \/ SettleFault(j)
    PROVE  LoadedInv'
<1>1. TypeOK /\ ShapeOf(j) /\ job \in [Jobs -> JobRecord]  BY DEF JInv, JobOf, TypeOK
<1>2. \/ job[j].task # "none" \/ job[j].callback # "none" \/ ExecutorLive(j)
      \/ job[j].abandoned # {}
  BY SMTT(40)
  DEF TaskStep, TaskCancelledEarly, TaskBegin, ExecutorStart, TaskInterrupted, Abandon,
     TaskCancelBranch, TaskCollect, TaskTimedOut, Settle, Settling, CallbackError, CallbackCancelled,
     AbandonedStep, AbandonedConverges, AbandonedReturns,
      ExecutorStep, ExecutorConverge, ExecutorReturn, ExecutorRaise, ExecutorLive, TaskTimeout,
     SettleFault
<1>3. job[j].status \notin {"unloaded", "queued"}
  BY <1>1, <1>2 DEF ShapeOf, Executing
<1>4. UNCHANGED <<waiting, loaded, wanted>>
  BY DEF TaskStep, TaskCancelledEarly, TaskBegin, ExecutorStart, TaskInterrupted, Abandon,
     TaskCancelBranch, TaskCollect, TaskTimedOut, Settle, CallbackError, CallbackCancelled,
     AbandonedStep, AbandonedConverges, AbandonedReturns,
      ExecutorStep, ExecutorConverge, ExecutorReturn, ExecutorRaise, TaskTimeout, SettleFault,
     dispatch
<1>5. pc' = pc \/ \E label \in Labels : GoTo(Task(j), label) \/ GoTo(Fin(j), label)
  BY DEF TaskStep, TaskCancelledEarly, TaskBegin, ExecutorStart, TaskInterrupted, Abandon,
     TaskCancelBranch, TaskCollect, TaskTimedOut, Settle, CallbackError, CallbackCancelled,
     AbandonedStep, AbandonedConverges, AbandonedReturns,
      ExecutorStep, ExecutorConverge, ExecutorReturn, ExecutorRaise, TaskTimeout, SettleFault,
     dispatch, Labels
<1>6. pc'[Restore] = pc[Restore]
  BY <1>1, <1>5 DEF GoTo, TypeOK, Procs, Restore, Task, Fin
<1>7. \A k \in Jobs \ {j} : row'[k] = row[k]
  BY <1>1
  DEF TypeOK, TaskStep, TaskCancelledEarly, TaskBegin, ExecutorStart, TaskInterrupted, Abandon,
      TaskCancelBranch, TaskCollect, TaskTimedOut, Settle, Persist, CallbackError,
      CallbackCancelled, AbandonedStep, AbandonedConverges, AbandonedReturns,
      ExecutorStep, ExecutorConverge, ExecutorReturn, ExecutorRaise,
      TaskTimeout, SettleFault, durable
<1>8. \A k \in Jobs \ {j} : job'[k] = job[k]  BY TaskLeavesOthers
<1>. QED  BY <1>3, <1>4, <1>6, <1>7, <1>8, LateStepKeeps

\* A control request touches the JobState of its job only.
LEMMA ControlLeavesOthers ==
    ASSUME JInv, NEW j \in Jobs, NEW k \in Jobs \ {j},
           Control(j) \/ CtlWake(j) \/ ResumeAfterTask(j) \/ StartRestored(j)
    PROVE  job'[k] = job[k]
<1>1. job \in [Jobs -> JobRecord]  BY DEF JInv, TypeOK
<1>2. CASE CancelActive(j) \/ Interrupt(j)
  BY <1>1, <1>2 DEF CancelActive, Interrupt, CancelRequest
<1>3. CASE Pause(j) \/ ResumeNow(j) \/ ResumeWait(j)
  BY <1>1, <1>3 DEF Pause, ResumeNow, Resumed, ResumeWait
<1>4. CASE ResumeAfterTask(j) \/ StartRestored(j)
  BY <1>1, <1>4 DEF ResumeAfterTask, Resumed, StartRestored
<1>5. CASE CancelQueued(j) \/ CtlWake(j)
  BY <1>1, <1>5 DEF CancelQueued, CtlWake
<1>. QED  BY <1>2, <1>3, <1>4, <1>5 DEF Control

LEMMA ControlKeepsLoaded ==
    ASSUME JInv, LoadedInv, Legal, ~EarlyCancel, NEW j \in Jobs,
           Control(j) \/ CtlWake(j) \/ ResumeAfterTask(j) \/ StartRestored(j)
    PROVE  LoadedInv'
<1>1. TypeOK /\ ShapeOf(j) /\ DurableOf(j) /\ job \in [Jobs -> JobRecord] /\ Restore \in Procs
  BY DEF JInv, JobOf, TypeOK, Procs
<1>2. CASE CancelQueued(j)
  <2>1. /\ j \in waiting /\ Persist(j, "cancelled") /\ waiting' = waiting \ {j}
        /\ job' = [job EXCEPT ![j].status = "cancelled"] /\ UNCHANGED <<pc, loaded, wanted>>
    BY <1>2 DEF CancelQueued, dispatch
  <2>2. \A k \in Jobs \ {j} : job'[k] = job[k] /\ row'[k] = row[k]
    BY <1>1, <2>1 DEF Persist, TypeOK
  <2>3. job'[j].status = "cancelled"
    <3>1. job[j] \in JobRecord  BY <1>1
    <3>2. [job[j] EXCEPT !.status = "cancelled"].status = "cancelled"  BY <3>1 DEF JobRecord
    <3>. QED  BY <1>1, <2>1, <3>2
  <2>4. RestoreStays  BY <2>1 DEF RestoreStays
  <2>. QED  BY <2>1, <2>2, <2>3, <2>4, LoadedKept
<1>3. CASE CtlWake(j)
  <2>1. pc'[Restore] = pc[Restore]
    BY <1>1, <1>3 DEF CtlWake, GoTo, TypeOK, Procs, Restore, Ctl
  <2>. QED  BY <1>3, <2>1, LateStepKeeps DEF CtlWake, durable
<1>4. CASE ~CancelQueued(j) /\ ~CtlWake(j)
  <2>1. job[j].status \notin {"unloaded", "queued"}
    <3>1. CASE ResumeAfterTask(j) \/ StartRestored(j)
      BY <1>1, <3>1 DEF ResumeAfterTask, StartRestored, ShapeOf
    <3>2. CASE Control(j)
      BY <1>4, <3>2 DEF Control, Pause, ResumeNow, ResumeWait, CancelActive, Interrupt,
         CancelRequest, PausableStatus, ActiveStatus
    <3>. QED  BY <1>4, <3>1, <3>2
  <2>2. UNCHANGED <<waiting, loaded, wanted>>
    BY <1>4 DEF Control, Pause, ResumeNow, ResumeWait, CancelActive, Interrupt, CancelRequest,
       ResumeAfterTask, StartRestored, dispatch
  <2>3. \A k \in Jobs \ {j} : row'[k] = row[k]
    BY <1>1, <1>4 DEF TypeOK, Control, Pause, ResumeNow, ResumeWait, CancelActive, Interrupt,
       CancelRequest, ResumeAfterTask, StartRestored, durable
  <2>4. pc'[Restore] = pc[Restore]
    <3>1. CASE CancelActive(j)
      BY <1>1, <3>1 DEF CancelActive, GoTo, TypeOK, Procs, Restore, Ctl
    <3>2. CASE Interrupt(j)
      BY <1>1, <3>2 DEF Interrupt, TypeOK, Procs, Restore, Notify, Ctl
    <3>3. CASE Pause(j) \/ ResumeNow(j) \/ ResumeWait(j) \/ ResumeAfterTask(j) \/ StartRestored(j)
      BY <3>3 DEF Pause, ResumeNow, ResumeWait, ResumeAfterTask, StartRestored, dispatch
    <3>. QED  BY <1>4, <3>1, <3>2, <3>3 DEF Control
  <2>5. \A k \in Jobs \ {j} : job'[k] = job[k]  BY ControlLeavesOthers
  <2>. QED  BY <2>1, <2>2, <2>3, <2>4, <2>5, LateStepKeeps
<1>. QED  BY <1>2, <1>3, <1>4

LEMMA AdmitKeepsLoaded ==
    ASSUME JInv, LoadedInv, NEW j \in Jobs, Admit(j)
    PROVE  LoadedInv'
<1>1. /\ pc[Restore] = "idle" /\ pc' = pc /\ waiting' = waiting /\ wanted' = TRUE
      /\ row' = [row EXCEPT ![j] = "queued"] /\ job' = [job EXCEPT ![j].status = "queued"]
      /\ TypeOK /\ job \in [Jobs -> JobRecord]
  BY SMTT(40) DEF Admit, JInv, TypeOK
<1>2. row'[j] = "queued" /\ \A k \in Jobs \ {j} : row'[k] = row[k] /\ job'[k] = job[k]
  BY <1>1 DEF TypeOK
<1>. QED  BY <1>1, <1>2 DEF LoadedInv

\* A restart finds a backend that knows no job, and asks for a load.
LEMMA RestartKeepsLoaded ==
    ASSUME JInv, RestartIdle \/ \E j \in Jobs : RestartRestored(j) \/ RestartLost(j)
    PROVE  LoadedInv'
<1>1. ~up /\ TypeOK /\ job \in [Jobs -> JobRecord]
  BY DEF RestartIdle, RestartRestored, RestartLost, JInv, TypeOK
<1>2. \A k \in Jobs : job[k].status = "unloaded"  BY <1>1, DeadFacts
<1>3. CASE RestartIdle \/ \E j \in Jobs : RestartLost(j)
  BY <1>2, <1>3 DEF RestartIdle, RestartLost, LoadedInv
<1>4. ASSUME NEW j \in Jobs, RestartRestored(j) PROVE LoadedInv'
  <2> DEFINE r == [job[j] EXCEPT !.status = "running", !.claim = TRUE, !.restoring = TRUE]
  <2>1. job[j] \in JobRecord  BY <1>1
  <2>2. r.status = "running"  BY <2>1 DEF JobRecord
  <2>3. job' = [job EXCEPT ![j] = r]  BY <1>4 DEF RestartRestored
  <2> HIDE DEF r
  <2>4. job'[j].status = "running" /\ \A k \in Jobs \ {j} : job'[k] = job[k]
    BY <1>1, <2>2, <2>3
  <2>. QED  BY <1>2, <2>4 DEF LoadedInv
<1>. QED  BY <1>3, <1>4

\* The mirror is rebuilt from what was read: it has every queued job, those
\* that were in it before included.
LEMMA RestoreKeepsLoaded ==
    ASSUME JInv, LoadedInv, RestoreProgress
    PROVE  LoadedInv'
<1>1. TypeOK /\ Restore \in Procs  BY DEF JInv, TypeOK, Procs
<1>2. CASE RestoreRead
  <2>1. pc'[Restore] = "install" /\ UNCHANGED <<job, row>>
    BY <1>1, <1>2 DEF RestoreRead, GoTo, TypeOK, durable
  <2>2. \A k \in Jobs : row[k] = "queued" => k \in loaded'
    BY <1>2 DEF RestoreRead, JInv, RowOf, TypeOK, Outcomes
  <2>. QED  BY <2>1, <2>2 DEF LoadedInv
<1>3. CASE RestoreInstall
  <2> DEFINE fresh == {k \in loaded : job[k].status \in {"unloaded", "queued"}}
  <2>1. /\ pc[Restore] = "install" /\ pc'[Restore] # "install" /\ waiting' = fresh
        /\ UNCHANGED <<row, wanted>>
    BY <1>1, <1>3 DEF RestoreInstall, GoTo, TypeOK, durable
  <2>2. ASSUME NEW k \in Jobs, job'[k].status = "queued"
        PROVE  k \in fresh /\ row[k] = "queued"
    <3>1. CASE k \in fresh
      BY <3>1 DEF LoadedInv, JInv, JobOf, DurableOf
    <3>2. CASE k \notin fresh
      <4>1. job'[k] = job[k]  BY <1>3, <3>2 DEF RestoreInstall
      <4>. QED  BY <2>1, <2>2, <3>2, <4>1 DEF LoadedInv
    <3>. QED  BY <3>1, <3>2
  <2>. QED  BY <2>1, <2>2 DEF LoadedInv
<1>. QED  BY <1>2, <1>3 DEF RestoreProgress

LEMMA NotifyKeepsLoaded ==
    ASSUME JInv, LoadedInv, NotifyBoundary
    PROVE  LoadedInv'
<1>1. TypeOK /\ job \in [Jobs -> JobRecord]  BY DEF JInv, TypeOK
<1>2. /\ UNCHANGED <<row, waiting, loaded, wanted>>
      /\ job' = IF SlotBusy THEN [job EXCEPT ![slot].boundary = "after_interrupt"] ELSE job
      /\ pc'[Restore] = pc[Restore]
  BY <1>1 DEF NotifyBoundary, durable, GoTo, TypeOK, Procs, Notify, Restore
<1>3. RestoreStays  BY <1>2 DEF RestoreStays
<1>4. \A k \in Jobs : job'[k].status = job[k].status
  <2>1. CASE SlotBusy
    <3>1. slot \in Jobs /\ job[slot] \in JobRecord  BY <1>1, <2>1 DEF TypeOK, SlotBusy
    <3>2. [job[slot] EXCEPT !.boundary = "after_interrupt"].status = job[slot].status
      BY <3>1 DEF JobRecord
    <3>. QED  BY <1>1, <1>2, <2>1, <3>1, <3>2
  <2>. QED  BY <1>2, <2>1
<1>. QED  BY <1>2, <1>3, <1>4, LoadedKept

LEMMA LoadedStep ==
    ASSUME JInv, LoadedInv, ~EarlyCancel, [Next]_vars
    PROVE  LoadedInv'
<1>1. Legal  BY StepSound
<1>2. CASE RequestLoad  BY <1>2 DEF RequestLoad, durable, LoadedInv
<1>3. CASE RestoreProgress  BY <1>3, RestoreKeepsLoaded
<1>4. CASE NotifyBoundary  BY <1>4, NotifyKeepsLoaded
<1>5. CASE Crash  BY <1>5 DEF Crash, Unloaded, LoadedInv
<1>6. CASE RestartIdle \/ \E j \in Jobs : RestartRestored(j) \/ RestartLost(j)
  BY <1>6, RestartKeepsLoaded
<1>7. CASE \E p \in Procs : Progress(p) \/ (p[1] \in {"fin", "ctl"} /\ FinalizeFault(p))
  BY <1>7, ProcessKeepsLoaded
<1>8. ASSUME NEW j \in Jobs,
             \/ Admit(j) \/ Control(j) \/ JobProgress(j) \/ ExecutorStep(j) \/ AbandonedStep(j)
             \/ up /\ (TaskTimeout(j) \/ SettleFault(j))
      PROVE  LoadedInv'
  BY <1>1, <1>8, AdmitKeepsLoaded, ControlKeepsLoaded, TaskKeepsLoaded DEF JobProgress
<1>9. CASE UNCHANGED vars
  BY <1>9 DEF vars, durable, dispatch, LoadedInv
<1>. QED  BY <1>2, <1>3, <1>4, <1>5, <1>6, <1>7, <1>8, <1>9 DEF Next

\* LoadedInv: a client that waits for the load before it cancels never finds
\* a queued job neither in the mirror nor about to be loaded.
THEOREM QueuedJobsAreLoaded ==
    ASSUME ~EarlyCancel
    PROVE  Spec => []LoadedInv
<1>1. Init => LoadedInv  BY DEF Init, Unloaded, LoadedInv
<1>2. JInv /\ LoadedInv /\ [Next]_vars => LoadedInv'  BY LoadedStep
<1>. QED  BY <1>1, <1>2, ServiceIsSound, PTL DEF Spec

LEMMA LoadedMirror == JInv /\ LoadedInv => MirrorConsistent
<1> SUFFICES ASSUME JInv, LoadedInv, NEW j \in waiting
             PROVE  /\ job[j].status = "queued" /\ row[j] = "queued"
                    /\ slot # NoJob => commit[slot] < commit[j]
  BY DEF MirrorConsistent
<1>1. TypeOK /\ j \in Jobs /\ DurableOf(j) /\ RowOf(j)  BY DEF JInv, JobOf, TypeOK
<1>2. job[j].status = "queued" /\ row[j] = "queued"  BY <1>1 DEF DurableOf, LoadedInv
<1>3. ASSUME slot # NoJob PROVE commit[slot] < commit[j]
  <2>1. slot \in Jobs /\ slot # j  BY <1>1, <1>2, <1>3 DEF TypeOK, JInv, SlotSound
  <2>2. commit[slot] <= commit[j]  BY <1>1, <1>2, <1>3 DEF JInv, SlotSound, Open
  <2>3. commit[slot] # commit[j]  BY <1>1, <1>2, <2>1 DEF RowOf
  <2>4. commit[slot] \in Nat /\ commit[j] \in Nat  BY <1>1, <2>1 DEF TypeOK
  <2>. QED  BY <2>2, <2>3, <2>4
<1>. QED  BY <1>2, <1>3

\* MirrorConsistent: rebuilding the FIFO mirror from a read made before the
\* dispatch lock never brings back a job that was dispatched, cancelled or
\* discarded meanwhile, and the slot never overtakes the mirror.
THEOREM MirrorIsConsistent ==
    ASSUME ~EarlyCancel
    PROVE  Spec => []MirrorConsistent
BY QueuedJobsAreLoaded, ServiceIsSound, LoadedMirror, PTL

LEMMA SoundService == JInv => UnstartedIsClaimed /\ CancelledOnce
BY DEF JInv, JobOf, ShapeOf, DurableOf, CancelledOnceOf, Active, Unstarted,
   UnstartedIsClaimed, CancelledOnce

\* Whatever clients cancel: Launch never meets a missing claim, and task,
\* callback and finalizer of one cancellation publish JOB_CANCELLED once.
THEOREM CancellationComesOnce == Spec => [](UnstartedIsClaimed /\ CancelledOnce)
BY ServiceIsSound, SoundService, PTL

LEMMA LoadedService == JInv /\ LoadedInv => ServiceInv
<1> SUFFICES ASSUME JInv, LoadedInv PROVE ServiceInv
  OBVIOUS
<1>1. UnstartedIsClaimed /\ CancelledOnce  BY SoundService
<1>2. NonTerminalIsPlaced
  <2> SUFFICES ASSUME ~wanted, pc[Restore] \in {"idle", "select", "launch"}, NEW j \in Jobs,
                      job[j].status \notin TerminalStatus \cup {"unloaded"}
               PROVE  slot = j \/ j \in waiting
    BY DEF NonTerminalIsPlaced
  <2>1. job[j].status = "queued" \/ Active(j)
    BY DEF JInv, JobOf, ShapeOf, Reached, TerminalStatus, Active
  <2>. QED  BY <2>1 DEF JInv, JobOf, ShapeOf, LoadedInv
<1>. QED  BY <1>1, <1>2 DEF JInv, ServiceInv

\* ServiceInv: a job that has not ended is in the slot or in the mirror, its
\* row is claimed when it is about to start, and JOB_CANCELLED comes once.
THEOREM ServiceInvariance ==
    ASSUME ~EarlyCancel
    PROVE  Spec => []ServiceInv
BY QueuedJobsAreLoaded, ServiceIsSound, LoadedService, PTL

-----------------------------------------------------------------------------
(* Who may commit an outcome.  A job with a task or a claim has left the     *)
(* queue, and the job that is claimed or started shares the claims of the    *)
(* Thread with nobody: so the executors it gave up keep the others out until *)
(* its row is closed, although its own claim may be closed long before.      *)

Busy == {"claimed", "started"}
Dispatched == Busy \cup {"terminal"}

Begun(j) == job[j].task # "none" \/ job[j].claim

OwnInv ==
    /\ \A j \in Jobs : Begun(j) => row[j] \in Dispatched
    /\ \A j, k \in Jobs : row[j] \in Busy /\ job[k].claim => k = j

\* Claims are closed, rows are closed, nothing begins.
OwnKeeps(k) ==
    /\ job'[k].claim => job[k].claim
    /\ Begun(k)' => Begun(k)
    /\ row[k] \in Dispatched => row'[k] \in Dispatched
    /\ row'[k] \in Busy => row[k] \in Busy

LEMMA OwnKept == ASSUME OwnInv, \A k \in Jobs : OwnKeeps(k) PROVE OwnInv'
BY DEF OwnInv, OwnKeeps

LEMMA RowsOwn ==
    ASSUME TypeOK, NEW j \in Jobs, RowsKept \/ RowSettled(j), NEW k \in Jobs
    PROVE  /\ row[k] \in Dispatched => row'[k] \in Dispatched
           /\ row'[k] \in Busy => row[k] \in Busy
BY DEF TypeOK, RowsKept, RowSettled, Dispatched, Busy

LEMMA PersistOwn ==
    ASSUME TypeOK, NEW j \in Jobs, RowOf(j), NEW mark \in TerminalMarks, Persist(j, mark),
           NEW k \in Jobs
    PROVE  /\ row[k] \in Dispatched => row'[k] \in Dispatched
           /\ row'[k] \in Busy => row[k] \in Busy
BY PersistFacts, RowsOwn

\* A coroutine that passes or discards follow-ups claims nothing.
LEMMA DispatchOwns ==
    ASSUME TypeOK, NEW p \in Procs, NEW k \in Jobs, PlaceOf(k), pc[p] # "idle",
           NEW jobs, jobs = job \/ jobs = AfterDiscard, NEW failing \in BOOLEAN,
           job' = jobs \/ job' = Ended(p, jobs, failing), row' = row
    PROVE  OwnKeeps(k)
<1>1. jobs \in [Jobs -> JobRecord] /\ Agree(jobs[k], job[k]) /\ SameTask(jobs[k], job[k])
  BY DiscardFacts DEF TypeOK, Agree, SameTask
<1>2. /\ Agree(job'[k], jobs[k])
      /\ job'[k].task = jobs[k].task \/ p = Task(k)
  BY <1>1, EndedFacts DEF Agree
<1>3. p = Task(k) => job[k].task # "none"  BY DEF PlaceOf, Ending
<1>. QED  BY <1>1, <1>2, <1>3 DEF OwnKeeps, Begun, Agree, SameTask

LEMMA LaunchOwns ==
    ASSUME JInv, OwnInv, NEW p \in Procs, Launch(p)
    PROVE  OwnInv'
<1> DEFINE go == slot = chosen[p] /\ Unstarted(chosen[p])
           launched == [job EXCEPT ![chosen[p]].task = IF go THEN "created" ELSE @]
<1>1. /\ pc[p] = "launch" /\ TypeOK /\ job \in [Jobs -> JobRecord]
      /\ row' = [row EXCEPT ![chosen[p]] = IF go THEN "started" ELSE @]
      /\ job' = Ended(p, launched, FALSE)
  BY DEF Launch, JInv, TypeOK
<1>2. \A k \in Jobs : row'[k] = IF k = chosen[p] /\ go THEN "started" ELSE row[k]
  BY <1>1 DEF TypeOK
<1>3. /\ launched \in [Jobs -> JobRecord]
      /\ \A k \in Jobs : /\ launched[k].claim = job[k].claim
                         /\ launched[k].task = job[k].task \/ (k = chosen[p] /\ go)
  <2> DEFINE r(k) == [job[k] EXCEPT !.task = IF go THEN "created" ELSE @]
  <2>1. ASSUME NEW k \in Jobs
        PROVE  r(k) \in JobRecord /\ r(k).claim = job[k].claim /\ (go \/ r(k).task = job[k].task)
    <3>1. job[k] \in JobRecord  BY <1>1
    <3> HIDE DEF go
    <3>. QED  BY <3>1 DEF JobRecord, TaskStates
  <2>2. launched = [job EXCEPT ![chosen[p]] = r(chosen[p])]  OBVIOUS
  <2> HIDE DEF launched, r, go
  <2>3. \A k \in Jobs : launched[k] = IF k = chosen[p] THEN r(k) ELSE job[k]
    BY <1>1, <2>2
  <2>4. launched \in [Jobs -> JobRecord]
    <3>1. CASE chosen[p] \in Jobs  BY <1>1, <2>1, <2>2, <3>1
    <3>2. CASE chosen[p] \notin Jobs
      <4>1. launched = job  BY <1>1, <2>2, <3>2
      <4>. QED  BY <1>1, <4>1
    <3>. QED  BY <3>1, <3>2
  <2>. QED  BY <2>1, <2>3, <2>4
<1> HIDE DEF launched
<1>4. \A k \in Jobs : /\ job'[k].claim = launched[k].claim
                      /\ job'[k].task = launched[k].task \/ p = Task(k)
  BY <1>1, <1>3, EndedFacts DEF Agree
<1>5. \A k \in Jobs : k = chosen[p] /\ go => row[k] = "claimed" /\ job[k].claim
  BY DEF JInv, JobOf, DurableOf, ShapeOf, Unstarted, Active
<1>6. \A k \in Jobs : p = Task(k) => job[k].task # "none"
  BY <1>1 DEF JInv, JobOf, PlaceOf, Ending
<1> HIDE DEF go
<1>7. \A k \in Jobs : OwnKeeps(k)
  BY <1>2, <1>3, <1>4, <1>5, <1>6 DEF OwnKeeps, Begun, Dispatched, Busy
<1>. QED  BY <1>7, OwnKept

\* The head is claimed only when no claim of the Thread is open.
LEMMA SelectHeadOwns ==
    ASSUME JInv, OwnInv, NEW p \in Procs, SelectHead(p)
    PROVE  OwnInv'
<1>1. TypeOK /\ AfterDiscard \in [Jobs -> JobRecord]  BY DiscardFacts DEF JInv
<1>2. PICK j \in Kept :
        /\ ~HolderBusy /\ Claimable(j)
        /\ row' = [row EXCEPT ![j] = "claimed"]
        /\ job' = [AfterDiscard EXCEPT ![j].status = "running", ![j].claim = TRUE,
                                       ![j].boundary = BoundaryOf(p)]
  BY DEF SelectHead
<1>3. j \in Jobs /\ IsDurableHead(j)  BY <1>1, <1>2 DEF Kept, TypeOK, Claimable
<1>4. /\ row'[j] = "claimed"
      /\ \A k \in Jobs \ {j} : row'[k] = row[k] /\ job'[k] = AfterDiscard[k]
  BY <1>1, <1>2, <1>3 DEF TypeOK
<1>5. ASSUME NEW k \in Jobs \ {j}
      PROVE  ~job'[k].claim /\ (job'[k].task # "none" => job[k].task # "none")
  <2>1. ~job[k].claim  BY <1>2 DEF HolderBusy
  <2>. QED  BY <1>1, <1>4, <2>1, DiscardFacts DEF Agree, SameTask
<1>6. \A k \in Jobs : row[k] \in Busy => k = j
  BY <1>3 DEF JInv, RowOf, IsDurableHead, TypeOK, Busy, Open
<1>. QED  BY <1>3, <1>4, <1>5, <1>6 DEF OwnInv, Begun, Dispatched, Busy

LEMMA ProcessOwns ==
    ASSUME JInv, OwnInv, NEW p \in Procs,
           Progress(p) \/ (p[1] \in {"fin", "ctl"} /\ FinalizeFault(p))
    PROVE  OwnInv'
<1>1. TypeOK /\ job \in [Jobs -> JobRecord] /\ \A k \in Jobs : PlaceOf(k) /\ RowOf(k)
  BY DEF JInv, JobOf, TypeOK
<1>2. CASE SelectCurrent(p) \/ SelectNone(p) \/ SelectRefused(p) \/ Handover(p) \/ HandoverLost(p)
  <2>1. PICK jobs \in {job, AfterDiscard}, failing \in BOOLEAN :
            job' = jobs \/ job' = Ended(p, jobs, failing)
    BY <1>2 DEF SelectCurrent, SelectNone, SelectRefused, Handover, HandoverLost
  <2>2. row' = row /\ pc[p] # "idle"
    BY <1>2 DEF SelectCurrent, SelectNone, SelectRefused, Handover, HandoverLost, MaySelect
  <2>. QED  BY <1>1, <2>1, <2>2, DispatchOwns, OwnKept
<1>3. CASE SelectHead(p)  BY <1>3, SelectHeadOwns
<1>4. CASE Launch(p)  BY <1>4, LaunchOwns
<1>5. CASE Close(p)
  <2>1. row' = row /\ pc[p] # "idle"  BY <1>5 DEF Close
  <2>2. CASE job' = Ended(p, job, FALSE)
    BY <1>1, <2>1, <2>2, DispatchOwns, OwnKept
  <2>3. CASE job' = [job EXCEPT ![p[2]].claim = FALSE]
    <3>1. \A k \in Jobs : /\ job'[k].task = job[k].task
                          /\ job'[k].claim => job[k].claim
      BY <1>1, <2>3 DEF JobRecord
    <3>. QED  BY <2>1, <3>1, OwnKept DEF OwnKeeps, Begun
  <2>. QED  BY <1>5, <2>2, <2>3 DEF Close
<1>6. CASE FinalizeFault(p)
  BY <1>6, OwnKept DEF FinalizeFault, OwnKeeps, Begun
<1>7. CASE p[1] \in {"fin", "ctl"} /\ Finalize(p)
  <2>1. PICK j \in Jobs : p[2] = j  BY <1>7, ProcessOf
  <2>2. CASE job[j].status = "cancelling"
    <3>1. Persist(j, "cancelled") /\ job' = [job EXCEPT ![j].status = "cancelled"]
      BY <1>7, <2>1, <2>2 DEF Finalize
    <3>2. \A k \in Jobs : job'[k].task = job[k].task /\ job'[k].claim = job[k].claim
      BY <1>1, <3>1 DEF JobRecord
    <3>. QED  BY <1>1, <3>1, <3>2, PersistOwn, OwnKept DEF OwnKeeps, Begun, TerminalMarks
  <2>3. CASE job[j].status # "cancelling"
    BY <1>7, <2>1, <2>3, OwnKept DEF Finalize, OwnKeeps, Begun
  <2>. QED  BY <2>2, <2>3
<1>. QED  BY <1>2, <1>3, <1>4, <1>5, <1>6, <1>7 DEF Progress, Select

\* A task, its executors and its callback work on a job that has begun.
LEMMA TaskOwns ==
    ASSUME JInv, OwnInv, NEW j \in Jobs,
           TaskStep(j) \/ ExecutorStep(j) \/ AbandonedStep(j) \/ TaskTimeout(j) \/ SettleFault(j)
    PROVE  OwnInv'
<1>1. /\ TypeOK /\ ShapeOf(j) /\ RowOf(j) /\ job \in [Jobs -> JobRecord] /\ job[j] \in JobRecord
      /\ job[j].abandoned # {} => job[j].task # "none"
  BY DEF JInv, JobOf, TypeOK, ShapeOf
<1>2. \A k \in Jobs \ {j} : job'[k] = job[k]  BY TaskLeavesOthers
<1>3. job'[j].claim = job[j].claim /\ (job'[j].task # "none" => job[j].task # "none")
  <2>1. CASE TaskStep(j)
    <3>1. CASE TaskCancelledEarly(j) \/ TaskBegin(j) \/ ExecutorStart(j)
      BY <1>1, <3>1 DEF TaskCancelledEarly, TaskBegin, ExecutorStart, JobRecord
    <3>2. CASE TaskInterrupted(j) \/ TaskCancelBranch(j)
      BY <1>1, <3>2 DEF TaskInterrupted, TaskCancelBranch, JobRecord
    <3>3. CASE Abandon(j)  BY <1>1, <3>3 DEF Abandon, JobRecord
    <3>4. CASE TaskCollect(j) \/ TaskTimedOut(j)
      BY <1>1, <3>4 DEF TaskCollect, TaskTimedOut, JobRecord
    <3>5. CASE Settle(j)  BY <1>1, <3>5 DEF Settle, Settling, JobRecord
    <3>6. CASE CallbackError(j) \/ CallbackCancelled(j)
      BY <1>1, <3>6 DEF CallbackError, CallbackCancelled, JobRecord
    <3>. QED  BY <2>1, <3>1, <3>2, <3>3, <3>4, <3>5, <3>6 DEF TaskStep
  <2>2. CASE ExecutorStep(j) \/ AbandonedStep(j)
    BY <1>1, <2>2
    DEF ExecutorStep, ExecutorConverge, ExecutorReturn, ExecutorRaise, AbandonedStep,
        AbandonedConverges, AbandonedReturns, JobRecord
  <2>3. CASE TaskTimeout(j) \/ SettleFault(j)
    BY <1>1, <2>3 DEF TaskTimeout, SettleFault, Settling, JobRecord
  <2>. QED  BY <2>1, <2>2, <2>3
<1>4. ASSUME NEW k \in Jobs
      PROVE  /\ row[k] \in Dispatched => row'[k] \in Dispatched
             /\ row'[k] \in Busy => row[k] \in Busy
  <2>1. CASE Settle(j)
    <3>1. SettledStatus(job[j].task) \in TerminalMarks /\ Persist(j, SettledStatus(job[j].task))
      BY <2>1 DEF Settle, Settling, SettledStatus, TerminalMarks
    <3>. QED  BY <1>1, <3>1, PersistOwn
  <2>2. CASE (TaskStep(j) /\ ~Settle(j)) \/ TaskTimeout(j) \/ SettleFault(j)
    BY <2>2
    DEF TaskStep, TaskCancelledEarly, TaskBegin, ExecutorStart, TaskInterrupted, Abandon,
        TaskCancelBranch, TaskCollect, TaskTimedOut, CallbackError, CallbackCancelled,
        TaskTimeout, SettleFault
  <2>3. CASE ExecutorStep(j) \/ AbandonedStep(j)
    <3>1. row' = row \/ row' = [row EXCEPT ![j] = "terminal"]
      BY <2>3
      DEF ExecutorStep, ExecutorConverge, ExecutorReturn, ExecutorRaise, AbandonedStep,
          AbandonedConverges, AbandonedReturns, RowPhaseAfter
    <3>. QED  BY <1>1, <3>1 DEF TypeOK, Dispatched, Busy
  <2>. QED  BY <2>1, <2>2, <2>3
<1>. QED  BY <1>2, <1>3, <1>4, OwnKept DEF OwnKeeps, Begun

\* Control starts a task only for a job that has its claim.
LEMMA ControlOwns ==
    ASSUME JInv, OwnInv, NEW j \in Jobs,
           Control(j) \/ CtlWake(j) \/ ResumeAfterTask(j) \/ StartRestored(j)
    PROVE  OwnInv'
<1>1. /\ TypeOK /\ ShapeOf(j) /\ DurableOf(j) /\ RowOf(j)
      /\ job \in [Jobs -> JobRecord] /\ job[j] \in JobRecord
  BY DEF JInv, JobOf, TypeOK
<1>2. \A k \in Jobs \ {j} : job'[k] = job[k]  BY ControlLeavesOthers
<1>3. job'[j].claim = job[j].claim /\ (job'[j].task # "none" => Begun(j))
  <2>1. CASE Pause(j) \/ ResumeNow(j) \/ ResumeWait(j)
    BY <1>1, <2>1 DEF Pause, ResumeNow, Resumed, ResumeWait, JobRecord, ShapeOf, Active, Begun
  <2>2. CASE CancelQueued(j) \/ CtlWake(j)
    BY <1>1, <2>2 DEF CancelQueued, CtlWake, JobRecord, Begun
  <2>3. CASE CancelActive(j) \/ Interrupt(j)
    BY <1>1, <2>3 DEF CancelActive, Interrupt, CancelRequest, JobRecord, Begun
  <2>4. CASE ResumeAfterTask(j) \/ StartRestored(j)
    BY <1>1, <2>4 DEF ResumeAfterTask, Resumed, StartRestored, JobRecord, ShapeOf, Active, Begun
  <2>. QED  BY <2>1, <2>2, <2>3, <2>4 DEF Control
<1>4. ASSUME NEW k \in Jobs
      PROVE  /\ row[k] \in Dispatched => row'[k] \in Dispatched
             /\ row'[k] \in Busy => row[k] \in Busy
  <2>1. CASE CancelQueued(j)
    BY <1>1, <2>1, PersistOwn DEF CancelQueued, TerminalMarks
  <2>2. CASE StartRestored(j)
    BY <1>1, <2>2 DEF StartRestored, DurableOf, TypeOK, Dispatched, Busy
  <2>3. CASE (Control(j) /\ ~CancelQueued(j)) \/ CtlWake(j) \/ ResumeAfterTask(j)
    BY <2>3
    DEF Control, Pause, ResumeNow, ResumeWait, CancelActive, Interrupt, CancelRequest, CtlWake,
        ResumeAfterTask
  <2>. QED  BY <2>1, <2>2, <2>3
<1>. QED  BY <1>2, <1>3, <1>4, OwnKept DEF OwnKeeps, Begun

LEMMA RestartOwns ==
    ASSUME JInv, OwnInv, NEW j \in Jobs, RestartRestored(j) \/ RestartLost(j)
    PROVE  OwnInv'
<1>1. /\ TypeOK /\ \A k \in Jobs : RowOf(k)
      /\ job \in [Jobs -> JobRecord] /\ row[j] \in Busy
  BY DEF JInv, TypeOK, RestartRestored, RestartLost, ActiveRows, Busy
<1>2. \A k \in Jobs : ~job[k].claim /\ job[k].task = "none"
  BY DeadFacts DEF RestartRestored, RestartLost
<1>3. CASE RestartLost(j)
  <2>1. Persist(j, "execution_lost") /\ job' = job  BY <1>3 DEF RestartLost
  <2>. QED  BY <1>1, <2>1, PersistOwn, OwnKept DEF OwnKeeps, Begun, TerminalMarks
<1>4. CASE RestartRestored(j)
  <2>1. /\ row'[j] = "claimed"
        /\ \A k \in Jobs \ {j} : row'[k] = row[k] /\ job'[k] = job[k]
    BY <1>1, <1>4 DEF RestartRestored, TypeOK
  <2>2. \A k \in Jobs : row[k] \in Busy => k = j
    BY <1>1 DEF RowOf, IsDurableHead, TypeOK, Busy, Open
  <2>. QED  BY <1>2, <2>1, <2>2 DEF OwnInv, Begun, Dispatched, Busy
<1>. QED  BY <1>3, <1>4

LEMMA OwnStep ==
    ASSUME JInv, OwnInv, [Next]_vars
    PROVE  OwnInv'
<1>1. TypeOK /\ job \in [Jobs -> JobRecord]  BY DEF JInv, TypeOK
<1>2. CASE RequestLoad \/ RestartIdle \/ UNCHANGED vars
  BY <1>2 DEF RequestLoad, RestartIdle, vars, OwnInv, Begun
<1>3. CASE RestoreProgress \/ NotifyBoundary
  <2>1. \A k \in Jobs : job'[k].task = job[k].task /\ job'[k].claim = job[k].claim
    <3>1. CASE RestoreRead  BY <3>1 DEF RestoreRead
    <3>2. CASE RestoreInstall
      <4>1. ASSUME NEW k \in Jobs
            PROVE  job'[k] = job[k] \/ job'[k] = [job[k] EXCEPT !.status = "queued"]
        BY <3>2 DEF RestoreInstall
      <4>2. ASSUME NEW k \in Jobs
            PROVE  job'[k].task = job[k].task /\ job'[k].claim = job[k].claim
        <5>1. job[k] \in JobRecord  BY <1>1
        <5>. QED  BY <4>1, <5>1 DEF JobRecord
      <4>. QED  BY <4>2
    <3>3. CASE NotifyBoundary
      <4>1. ASSUME NEW k \in Jobs
            PROVE  job'[k] = job[k] \/ job'[k] = [job[k] EXCEPT !.boundary = "after_interrupt"]
        BY <1>1, <3>3 DEF NotifyBoundary
      <4>2. ASSUME NEW k \in Jobs
            PROVE  job'[k].task = job[k].task /\ job'[k].claim = job[k].claim
        <5>1. job[k] \in JobRecord  BY <1>1
        <5>. QED  BY <4>1, <5>1 DEF JobRecord
      <4>. QED  BY <4>2
    <3>. QED  BY <1>3, <3>1, <3>2, <3>3 DEF RestoreProgress
  <2>2. row' = row
    BY <1>3 DEF RestoreProgress, RestoreRead, RestoreInstall, NotifyBoundary
  <2>. QED  BY <2>1, <2>2, OwnKept DEF OwnKeeps, Begun
<1>4. CASE Crash  BY <1>4 DEF Crash, Unloaded, OwnInv, Begun
<1>5. CASE \E p \in Procs : Progress(p) \/ (p[1] \in {"fin", "ctl"} /\ FinalizeFault(p))
  BY <1>5, ProcessOwns
<1>6. ASSUME NEW j \in Jobs, Admit(j) PROVE OwnInv'
  <2>1. /\ \A k \in Jobs : job'[k].task = job[k].task /\ job'[k].claim = job[k].claim
        /\ row[j] = "absent" /\ row' = [row EXCEPT ![j] = "queued"]
    BY <1>1, <1>6 DEF Admit, JobRecord
  <2>. QED  BY <1>1, <2>1, OwnKept DEF OwnKeeps, Begun, TypeOK, Dispatched, Busy
<1>7. ASSUME NEW j \in Jobs,
             \/ Control(j) \/ JobProgress(j) \/ ExecutorStep(j) \/ AbandonedStep(j)
             \/ up /\ (TaskTimeout(j) \/ SettleFault(j))
             \/ RestartRestored(j) \/ RestartLost(j)
      PROVE  OwnInv'
  BY <1>7, ControlOwns, TaskOwns, RestartOwns DEF JobProgress
<1>. QED  BY <1>2, <1>3, <1>4, <1>5, <1>6, <1>7 DEF Next

LEMMA SoundOwnsThread == JInv /\ OwnInv => ExecutorOwnsThread
<1> SUFFICES ASSUME JInv, OwnInv PROVE ExecutorOwnsThread
  OBVIOUS
<1>1. \A k \in Jobs : ExecutorLive(k) => slot = k /\ job[k].claim
  BY DEF JInv, JobOf, ShapeOf
<1>2. \A j, k \in Jobs : job[j].claim /\ job[k].claim => j = k  BY DEF JInv, SlotSound
<1>3. \A k \in Jobs : MayCommit(k) => ExecutorLive(k) \/ row[k] \in Busy
  BY DEF MayCommit, JInv, JobOf, ShapeOf, RowOf, OwnInv, Begun, Dispatched
<1>4. \A j, k \in Jobs : row[j] \in Busy /\ row[k] \in Busy => j = k
  BY DEF JInv, RowOf, IsDurableHead, TypeOK, Busy, Open
<1>. QED  BY <1>1, <1>2, <1>3, <1>4 DEF ExecutorOwnsThread, OwnInv

\* ExecutorOwnsThread: the executor that a body waits for has the slot and the
\* open claim of its Thread.  One that ignored its cancellation may run beside
\* the next, but as long as it may still commit the outcome of its execution,
\* no other job is claimed, executed or able to commit one.
THEOREM OneExecutorPerThread == Spec => []ExecutorOwnsThread
<1>1. Init => OwnInv  BY DEF Init, Unloaded, OwnInv, Begun
<1>2. JInv /\ OwnInv /\ [Next]_vars => OwnInv'  BY OwnStep
<1>. QED  BY <1>1, <1>2, ServiceIsSound, SoundOwnsThread, PTL DEF Spec

-----------------------------------------------------------------------------
(* Every claim is given back.                                              *)

Own(j) == {Task(j), Fin(j), Ctl(j)}
Leaving == {"handover", "select", "launch"}

\* As long as every terminal status could be written: a finalizer that runs has
\* a job to settle or finds no claim, a running job never lost its task to an
\* error, and an ended job with an open claim has somebody who closes it.
SettledOf(j) ==
    /\ \A p \in {Fin(j), Ctl(j)} :
        /\ pc[p] = "finalize" => job[j].status \in {"cancelling", "cancelled"} \/ ~job[j].claim
        /\ pc[p] = "close" => job[j].status = "cancelled"
    /\ job[j].status = "running" => /\ job[j].callback = "error" => TaskAlive(j)
                                   /\ job[j].task # "releasing_error"
    /\ Terminal(j) /\ job[j].claim =>
        TaskAlive(j) \/ \E p \in {Fin(j), Ctl(j)} : pc[p] \in {"finalize", "close"}

\* Who closes the claim of j: a task that ends is on its way to do so, and past
\* that point the job has ended and the claim is closed.
CloseOf(j) ==
    /\ job[j].status \in {"unloaded", "queued"} => ~job[j].claim
    /\ job[j].task = "none" => ~job[j].cancel
    /\ job[j].task = "created" /\ job[j].cancel => job[j].status \in {"paused", "cancelling"}
    /\ job[j].task \in Ending => pc[Task(j)] \in {"close"} \cup Leaving
    /\ \A p \in Own(j) : pc[p] \in Leaving => Terminal(j) /\ ~job[j].claim
    /\ faults = 0 => SettledOf(j)

CloseInv == \A j \in Jobs : CloseOf(j)

\* What CloseOf says of a job that nobody touches.
LEMMA CloseKept ==
    ASSUME NEW k \in Jobs, CloseOf(k), job'[k] = job[k], \A p \in Own(k) : pc'[p] = pc[p],
           faults' = 0 => faults = 0
    PROVE  CloseOf(k)'
BY DEF CloseOf, SettledOf, Own, TaskAlive, Terminal, Task, Fin, Ctl

LEMMA OneJobCloses ==
    ASSUME CloseInv, NEW j \in Jobs, CloseOf(j)', faults' = 0 => faults = 0,
           \A k \in Jobs \ {j} : job'[k] = job[k] /\ \A p \in Own(k) : pc'[p] = pc[p]
    PROVE  CloseInv'
BY CloseKept DEF CloseInv

\* The job keeps its status and its claim, and its task still ends as before.
LEMMA SameStatusCloses ==
    ASSUME NEW j \in Jobs, CloseOf(j), \A p \in Own(j) : pc'[p] = pc[p], faults' = faults,
           job'[j].status = job[j].status, job'[j].claim = job[j].claim,
           job'[j].task \in Ending => job'[j].task = job[j].task,
           job'[j].task = "none" => ~job'[j].cancel,
           job'[j].task = "created" /\ job'[j].cancel =>
                job[j].status \in {"paused", "cancelling"},
           job'[j].callback = "error" => job[j].callback = "error",
           TaskAlive(j) => TaskAlive(j)'
    PROVE  CloseOf(j)'
BY DEF CloseOf, SettledOf, Own, Terminal, Ending

\* What is known of a job when a step begins.
LEMMA JobFacts ==
    ASSUME JInv, CloseInv, NEW j \in Jobs
    PROVE  /\ ShapeOf(j) /\ DurableOf(j) /\ PlaceOf(j) /\ CloseOf(j) /\ TypeOK
           /\ job \in [Jobs -> JobRecord] /\ job[j] \in JobRecord
BY DEF JInv, JobOf, TypeOK, CloseInv

\* The steps of a task that only move the task and its executor.
LEMMA WorkingTaskCloses ==
    ASSUME JInv, CloseInv, NEW j \in Jobs,
           \/ ExecutorStart(j) \/ TaskInterrupted(j) \/ TaskTimedOut(j) \/ TaskTimeout(j)
           \/ ExecutorStep(j) \/ Abandon(j) \/ AbandonedStep(j)
    PROVE  CloseOf(j)'
<1>1. /\ CloseOf(j) /\ job \in [Jobs -> JobRecord] /\ job[j] \in JobRecord  BY JobFacts
<1>2. UNCHANGED <<pc, faults>>
  BY DEF ExecutorStart, TaskInterrupted, TaskTimedOut, TaskTimeout, ExecutorStep,
     ExecutorConverge, ExecutorReturn, ExecutorRaise, Abandon, AbandonedStep,
     AbandonedConverges, AbandonedReturns
<1>3. CASE ExecutorStep(j)
  <2>1. /\ job'[j].status = job[j].status /\ job'[j].claim = job[j].claim
        /\ job'[j].task = job[j].task /\ job'[j].cancel = job[j].cancel
        /\ job'[j].callback = job[j].callback
    <3>1. PICK x : job' = [job EXCEPT ![j].executor = x]
      BY <1>3 DEF ExecutorStep, ExecutorConverge, ExecutorReturn, ExecutorRaise
    <3>. QED  BY <1>1, <3>1 DEF JobRecord
  <2>. QED  BY <1>1, <1>2, <2>1, SameStatusCloses DEF TaskAlive, CloseOf
<1>4. CASE Abandon(j) \/ AbandonedStep(j)
  <2>1. /\ job'[j].status = job[j].status /\ job'[j].claim = job[j].claim
        /\ job'[j].task = job[j].task /\ job'[j].cancel = job[j].cancel
        /\ job'[j].callback = job[j].callback
    BY <1>1, <1>4 DEF Abandon, AbandonedStep, AbandonedConverges, AbandonedReturns, JobRecord
  <2>. QED  BY <1>1, <1>2, <2>1, SameStatusCloses DEF TaskAlive, CloseOf
<1>5. CASE ~ExecutorStep(j) /\ ~Abandon(j) /\ ~AbandonedStep(j)
  <2>1. /\ job'[j].status = job[j].status /\ job'[j].claim = job[j].claim
        /\ job'[j].callback = job[j].callback
        /\ job'[j].task \in {"executing", "stopping_cancel", "stopping_timeout",
                             "settle_timed_out"}
    BY <1>1, <1>5 DEF ExecutorStart, TaskInterrupted, TaskTimedOut, TaskTimeout, JobRecord
  <2>. QED  BY <1>1, <1>2, <2>1, SameStatusCloses DEF TaskAlive, DoneTask, Ending
<1>. QED  BY <1>3, <1>4, <1>5

LEMMA TaskCancelledEarlyCloses ==
    ASSUME JInv, CloseInv, NEW j \in Jobs, TaskCancelledEarly(j)
    PROVE  CloseOf(j)'
<1>1. /\ CloseOf(j) /\ job \in [Jobs -> JobRecord] /\ job[j] \in JobRecord  BY JobFacts
<1>2. /\ job'[j].status = job[j].status /\ job'[j].claim = job[j].claim
      /\ job'[j].callback = "cancelled" /\ job'[j].task = "done_cancelled"
  BY <1>1 DEF TaskCancelledEarly, JobRecord
<1>3. job[j].status \in {"paused", "cancelling"} /\ UNCHANGED <<pc, faults>>
  BY <1>1 DEF TaskCancelledEarly, CloseOf
<1>. QED
  BY <1>1, <1>2, <1>3 DEF CloseOf, SettledOf, Own, Terminal, TerminalStatus, Ending

LEMMA TaskBeginCloses ==
    ASSUME JInv, CloseInv, NEW j \in Jobs, TaskBegin(j)
    PROVE  CloseOf(j)'
<1>1. /\ CloseOf(j) /\ PlaceOf(j) /\ job \in [Jobs -> JobRecord] /\ job[j] \in JobRecord
  BY JobFacts
<1>2. job[j].task = "created" /\ job[j].callback = "none" /\ UNCHANGED <<pc, faults>>
  BY DEF TaskBegin
<1>3. CASE MayTransition(job[j].status, "running")
  <2>1. /\ job'[j].status = "running" /\ job'[j].claim = job[j].claim
        /\ job'[j].callback = job[j].callback /\ job'[j].task = "starting"
    BY <1>1, <1>3 DEF TaskBegin, JobRecord
  <2>2. job[j].status \notin TerminalStatus /\ TaskAlive(j)
    BY <1>2, <1>3, NoEdges DEF TaskAlive, DoneTask, Reached, TerminalStatus
  <2>. QED
    BY <1>1, <1>2, <2>1, <2>2
    DEF CloseOf, SettledOf, PlaceOf, Own, Terminal, TerminalStatus, Ending
<1>4. CASE ~MayTransition(job[j].status, "running")
  <2>1. /\ job'[j].status = job[j].status /\ job'[j].claim = job[j].claim
        /\ job'[j].callback = job[j].callback /\ job'[j].task = "settle_failed"
    BY <1>1, <1>4 DEF TaskBegin, JobRecord
  <2>. QED  BY <1>1, <1>2, <2>1, SameStatusCloses DEF TaskAlive, DoneTask, Ending
<1>. QED  BY <1>3, <1>4

\* The task is on its way to close the claim.
LEMMA TaskGoesToClose ==
    ASSUME TypeOK, NEW j \in Jobs, GoTo(Task(j), "close")
    PROVE  pc'[Task(j)] = "close" /\ pc'[Fin(j)] = pc[Fin(j)] /\ pc'[Ctl(j)] = pc[Ctl(j)]
BY DEF TypeOK, GoTo, Procs, Task, Fin, Ctl

LEMMA TaskCancelBranchCloses ==
    ASSUME JInv, CloseInv, NEW j \in Jobs, TaskCancelBranch(j)
    PROVE  CloseOf(j)'
<1>1. /\ CloseOf(j) /\ PlaceOf(j) /\ ShapeOf(j) /\ TypeOK
      /\ job \in [Jobs -> JobRecord] /\ job[j] \in JobRecord
  BY JobFacts
<1>2. /\ job[j].task \in Executing \cup {"starting"} /\ Active(j) /\ TaskAlive(j)
      /\ job[j].callback = "none" /\ faults' = faults
  BY <1>1 DEF TaskCancelBranch, ShapeOf, Executing, TaskAlive, DoneTask
<1>3. CASE job[j].status = "paused"
  <2>1. /\ job'[j].status = "paused" /\ job'[j].claim = job[j].claim
        /\ job'[j].callback = job[j].callback /\ job'[j].task = "releasing"
    BY <1>1, <1>3 DEF TaskCancelBranch, JobRecord
  <2>2. GoTo(Task(j), "close")  BY <1>3 DEF TaskCancelBranch
  <2>. QED
    BY <1>1, <1>2, <1>3, <2>1, <2>2, TaskGoesToClose
    DEF CloseOf, SettledOf, PlaceOf, Own, Leaving, Terminal, TerminalStatus, Task, Fin, Ctl
<1>4. CASE job[j].status # "paused"
  <2>1. /\ job'[j].status = "cancelling" /\ job'[j].claim = job[j].claim
        /\ job'[j].callback = job[j].callback /\ job'[j].task = "settle_cancelled"
    BY <1>1, <1>4 DEF TaskCancelBranch, JobRecord
  <2>2. pc' = pc  BY <1>4 DEF TaskCancelBranch
  <2>. QED
    BY <1>1, <1>2, <2>1, <2>2
    DEF CloseOf, SettledOf, PlaceOf, Own, Terminal, TerminalStatus, Active, Ending
<1>. QED  BY <1>3, <1>4

LEMMA TaskCollectCloses ==
    ASSUME JInv, CloseInv, NEW j \in Jobs, TaskCollect(j)
    PROVE  CloseOf(j)'
<1>1. /\ CloseOf(j) /\ PlaceOf(j) /\ ShapeOf(j) /\ TypeOK
      /\ job \in [Jobs -> JobRecord] /\ job[j] \in JobRecord
  BY JobFacts
<1>2. /\ job[j].task = "executing" /\ Active(j) /\ TaskAlive(j)
      /\ job[j].callback = "none" /\ faults' = faults
  BY <1>1 DEF TaskCollect, ShapeOf, Executing, TaskAlive, DoneTask
<1>3. CASE job[j].executor = "returned" /\ MayTransition(job[j].status, "completed")
  <2>1. /\ job'[j].status = "completed" /\ job'[j].claim = job[j].claim
        /\ job'[j].callback = job[j].callback /\ job'[j].task = "releasing"
    BY <1>1, <1>3 DEF TaskCollect, JobRecord
  <2>2. GoTo(Task(j), "close")  BY <1>3 DEF TaskCollect
  <2>3. TaskAlive(j)'  BY <2>1 DEF TaskAlive, DoneTask
  <2>. QED
    BY <1>1, <1>2, <2>1, <2>2, <2>3, TaskGoesToClose
    DEF CloseOf, SettledOf, PlaceOf, Own, Leaving, Terminal, TerminalStatus, Active, Task, Fin, Ctl
<1>4. CASE ~(job[j].executor = "returned" /\ MayTransition(job[j].status, "completed"))
  <2>1. /\ job'[j].status = job[j].status /\ job'[j].claim = job[j].claim
        /\ job'[j].callback = job[j].callback /\ job'[j].task = "settle_failed" /\ pc' = pc
    BY <1>1, <1>4 DEF TaskCollect, JobRecord
  <2>. QED  BY <1>1, <1>2, <2>1, SameStatusCloses DEF TaskAlive, DoneTask, Ending
<1>. QED  BY <1>3, <1>4

\* A running job can be settled as anything.
LEMMA SettleCloses ==
    ASSUME JInv, CloseInv, NEW j \in Jobs, Settle(j)
    PROVE  CloseOf(j)'
<1> DEFINE target == SettledStatus(job[j].task)
           legal == MayTransition(job[j].status, target)
<1>1. /\ CloseOf(j) /\ PlaceOf(j) /\ ShapeOf(j) /\ TypeOK
      /\ job \in [Jobs -> JobRecord] /\ job[j] \in JobRecord
  BY JobFacts
<1>2. target \in {"cancelled", "failed", "timed_out"} /\ TaskAlive(j)
  BY DEF Settle, Settling, SettledStatus, TaskAlive, DoneTask
<1>3. /\ GoTo(Task(j), "close") /\ faults' = faults
      /\ job' = [job EXCEPT ![j].status = IF legal THEN target ELSE @, ![j].cancel = FALSE,
                            ![j].task = IF legal THEN "releasing" ELSE "releasing_error"]
  BY DEF Settle
<1>4. job[j].status \in {"unloaded", "running"} => legal \/ job[j].status = "unloaded"
  BY <1>2, StatusEdges
<1>5. job[j].status \in TerminalStatus /\ legal => target = job[j].status
  BY <1>2, NoEdges DEF Reached
<1> HIDE DEF target, legal
<1>6. /\ job'[j].status = IF legal THEN target ELSE job[j].status
      /\ job'[j].claim = job[j].claim /\ job'[j].callback = job[j].callback
      /\ job'[j].task \in Ending /\ (legal => job'[j].task = "releasing")
  BY <1>1, <1>3 DEF JobRecord, Ending
<1>7. job[j].status \notin {"unloaded", "queued"}
  BY <1>1, <1>2 DEF ShapeOf, TaskAlive
<1>8. TaskAlive(j)' /\ job'[j].task \notin {"none", "created"}  BY <1>6 DEF TaskAlive, DoneTask, Ending
<1>9. Terminal(j) => Terminal(j)' /\ job'[j].status = job[j].status
  BY <1>5, <1>6 DEF Terminal
<1>10. SettledOf(j)' \/ faults # 0
  BY <1>1, <1>2, <1>3, <1>4, <1>6, <1>8, <1>9, TaskGoesToClose
  DEF CloseOf, SettledOf, PlaceOf, Terminal, TerminalStatus
<1>. QED
  BY <1>1, <1>2, <1>3, <1>6, <1>7, <1>8, <1>9, <1>10, TaskGoesToClose
  DEF CloseOf, Own, Leaving, Task, Fin, Ctl

LEMMA SettleFaultCloses ==
    ASSUME JInv, CloseInv, NEW j \in Jobs, SettleFault(j)
    PROVE  CloseOf(j)' /\ (faults' = 0 => faults = 0)
<1>1. /\ CloseOf(j) /\ PlaceOf(j) /\ ShapeOf(j) /\ TypeOK
      /\ job \in [Jobs -> JobRecord] /\ job[j] \in JobRecord
  BY JobFacts
<1>2. /\ job'[j].status = job[j].status /\ job'[j].claim = job[j].claim
      /\ job'[j].task = "releasing_error"
  BY <1>1 DEF SettleFault, JobRecord
<1>3. GoTo(Task(j), "close") /\ faults' = faults + 1 /\ faults \in Nat
  BY <1>1, BoundAssumption DEF SettleFault, TypeOK
<1>. QED
  BY <1>1, <1>2, <1>3, TaskGoesToClose
  DEF CloseOf, Own, Leaving, Terminal, Task, Fin, Ctl

\* The failed job of an error callback was running, with a task that a resume
\* created since; that task closes the claim.
LEMMA CallbackErrorCloses ==
    ASSUME JInv, CloseInv, NEW j \in Jobs, CallbackError(j)
    PROVE  CloseOf(j)'
<1> DEFINE fails == /\ job[j].status # "cancelling"
                    /\ Terminal(j) \/ MayTransition(job[j].status, "failed")
<1>1. /\ CloseOf(j) /\ PlaceOf(j) /\ ShapeOf(j) /\ TypeOK
      /\ job \in [Jobs -> JobRecord] /\ job[j] \in JobRecord
  BY JobFacts
<1>2. /\ job[j].callback = "error" /\ UNCHANGED <<pc, faults>>
      /\ job' = [job EXCEPT ![j].callback = "none",
                            ![j].status = IF fails /\ ~Terminal(j) THEN "failed" ELSE @]
  BY DEF CallbackError
<1>3. fails /\ ~Terminal(j) => job[j].status = "running"
  BY <1>1, <1>2, NoEdges DEF ShapeOf, Reached, Terminal, TerminalStatus
<1> HIDE DEF fails
<1>4. /\ job'[j].status = (IF fails /\ ~Terminal(j) THEN "failed" ELSE job[j].status)
      /\ job'[j].claim = job[j].claim /\ job'[j].callback = "none"
      /\ job'[j].task = job[j].task /\ job'[j].cancel = job[j].cancel
  BY <1>1, <1>2 DEF JobRecord
<1>5. CASE fails /\ ~Terminal(j)
  <2>1. SettledOf(j)' \/ faults # 0
    BY <1>1, <1>2, <1>3, <1>4, <1>5
    DEF CloseOf, SettledOf, TaskAlive, Terminal, TerminalStatus
  <2>. QED
    BY <1>1, <1>2, <1>3, <1>4, <1>5, <2>1
    DEF CloseOf, Own, Terminal, TerminalStatus
<1>6. CASE ~(fails /\ ~Terminal(j))
  <2>1. TaskAlive(j)' = TaskAlive(j)  BY <1>4 DEF TaskAlive
  <2>. QED  BY <1>1, <1>2, <1>4, <1>6, <2>1, SameStatusCloses DEF CloseOf
<1>. QED  BY <1>5, <1>6

\* The finalizer of a task that never ran has a cancelling job to settle.
LEMMA CallbackCancelledCloses ==
    ASSUME JInv, CloseInv, NEW j \in Jobs, CallbackCancelled(j)
    PROVE  CloseOf(j)'
<1> DEFINE skip == \/ job[j].task # "done_cancelled"
                   \/ job[j].status = "paused"
                   \/ Terminal(j)
<1>1. /\ CloseOf(j) /\ PlaceOf(j) /\ ShapeOf(j) /\ TypeOK
      /\ job \in [Jobs -> JobRecord] /\ job[j] \in JobRecord
  BY JobFacts
<1>2. /\ job[j].callback = "cancelled" /\ faults' = faults
      /\ IF skip THEN pc' = pc ELSE GoTo(Fin(j), "finalize")
      /\ job' = [job EXCEPT ![j].callback = "none",
                            ![j].status = IF skip THEN @ ELSE "cancelling"]
  BY DEF CallbackCancelled
<1>3. ~skip => job[j].task = "done_cancelled" /\ ~Terminal(j)  OBVIOUS
<1> HIDE DEF skip
<1>4. /\ job'[j].status = (IF skip THEN job[j].status ELSE "cancelling")
      /\ job'[j].claim = job[j].claim /\ job'[j].callback = "none"
      /\ job'[j].task = job[j].task /\ job'[j].cancel = job[j].cancel
  BY <1>1, <1>2 DEF JobRecord
<1>5. CASE skip
  <2>1. TaskAlive(j)' = TaskAlive(j)  BY <1>4 DEF TaskAlive
  <2>. QED  BY <1>1, <1>2, <1>4, <1>5, <2>1, SameStatusCloses DEF CloseOf
<1>6. CASE ~skip
  <2>1. /\ pc'[Fin(j)] = "finalize" /\ pc'[Task(j)] = pc[Task(j)] /\ pc'[Ctl(j)] = pc[Ctl(j)]
    BY <1>1, <1>2, <1>6 DEF TypeOK, GoTo, Procs, Task, Fin, Ctl
  <2>. QED
    BY <1>1, <1>2, <1>3, <1>4, <1>6, <2>1
    DEF CloseOf, SettledOf, Own, Leaving, Terminal, TerminalStatus, Ending, Task, Fin, Ctl
<1>. QED  BY <1>5, <1>6

\* What a task, its executor and its callback do to the other jobs: nothing.
LEMMA TaskCloses ==
    ASSUME JInv, CloseInv, NEW j \in Jobs,
           TaskStep(j) \/ ExecutorStep(j) \/ AbandonedStep(j) \/ TaskTimeout(j) \/ SettleFault(j)
    PROVE  CloseInv'
<1>1. TypeOK /\ job \in [Jobs -> JobRecord]  BY JobFacts
<1>2. CloseOf(j)' /\ (faults' = 0 => faults = 0)
  <2>1. CASE SettleFault(j)  BY <2>1, SettleFaultCloses
  <2>2. CASE ~SettleFault(j)
    <3>1. faults' = faults
      BY <2>2 DEF TaskStep, TaskCancelledEarly, TaskBegin, ExecutorStart, TaskInterrupted, Abandon,
         TaskCancelBranch, TaskCollect, TaskTimedOut, Settle, CallbackError, CallbackCancelled,
         AbandonedStep, AbandonedConverges, AbandonedReturns,
      ExecutorStep, ExecutorConverge, ExecutorReturn, ExecutorRaise, TaskTimeout
    <3>2. CloseOf(j)'
      BY <2>2, WorkingTaskCloses, TaskCancelledEarlyCloses, TaskBeginCloses,
         TaskCancelBranchCloses, TaskCollectCloses, SettleCloses, CallbackErrorCloses,
         CallbackCancelledCloses DEF TaskStep
    <3>. QED  BY <3>1, <3>2
  <2>. QED  BY <2>1, <2>2
<1>3. pc' = pc \/ GoTo(Task(j), "close") \/ GoTo(Fin(j), "finalize")
  BY DEF TaskStep, TaskCancelledEarly, TaskBegin, ExecutorStart, TaskInterrupted, Abandon,
     TaskCancelBranch, TaskCollect, TaskTimedOut, Settle, CallbackError, CallbackCancelled,
     AbandonedStep, AbandonedConverges, AbandonedReturns,
      ExecutorStep, ExecutorConverge, ExecutorReturn, ExecutorRaise, TaskTimeout, SettleFault
<1>4. \A k \in Jobs \ {j} : \A p \in Own(k) : pc'[p] = pc[p]
  BY <1>1, <1>3 DEF TypeOK, GoTo, Own, Task, Fin, Ctl, Procs
<1>5. ASSUME NEW k \in Jobs \ {j} PROVE job'[k] = job[k]
  BY TaskLeavesOthers
<1>. QED  BY <1>2, <1>4, <1>5, OneJobCloses

-----------------------------------------------------------------------------
(* Control requests. *)

LEMMA PauseCloses ==
    ASSUME JInv, CloseInv, NEW j \in Jobs, Pause(j)
    PROVE  CloseOf(j)'
<1>1. /\ CloseOf(j) /\ PlaceOf(j) /\ job \in [Jobs -> JobRecord] /\ job[j] \in JobRecord
  BY JobFacts
<1>2. /\ job[j].status \in PausableStatus /\ TaskAlive(j) /\ UNCHANGED <<pc, faults>>
      /\ job' = [job EXCEPT ![j].status = "paused", ![j].cancel = TRUE]
  BY DEF Pause
<1>3. /\ job'[j].status = "paused" /\ job'[j].claim = job[j].claim
      /\ job'[j].callback = job[j].callback /\ job'[j].task = job[j].task
  BY <1>1, <1>2 DEF JobRecord
<1>. QED
  BY <1>1, <1>2, <1>3
  DEF CloseOf, SettledOf, PlaceOf, Own, TaskAlive, Terminal, TerminalStatus, PausableStatus

LEMMA ResumedCloses ==
    ASSUME JInv, CloseInv, NEW j \in Jobs, job[j].status = "paused", job' = Resumed(j),
           UNCHANGED <<pc, faults>>
    PROVE  CloseOf(j)'
<1>1. /\ CloseOf(j) /\ PlaceOf(j) /\ job \in [Jobs -> JobRecord] /\ job[j] \in JobRecord
  BY JobFacts
<1>2. /\ job'[j].status = "running" /\ job'[j].claim = job[j].claim
      /\ job'[j].callback = job[j].callback /\ job'[j].task = "created" /\ ~job'[j].cancel
  BY <1>1 DEF Resumed, JobRecord
<1>3. TaskAlive(j)'  BY <1>2 DEF TaskAlive, DoneTask
<1>. QED
  BY <1>1, <1>2, <1>3
  DEF CloseOf, SettledOf, PlaceOf, Own, Terminal, TerminalStatus, Ending

LEMMA ResumeCloses ==
    ASSUME JInv, CloseInv, NEW j \in Jobs, ResumeNow(j) \/ ResumeWait(j) \/ ResumeAfterTask(j)
    PROVE  CloseOf(j)'
<1>1. /\ CloseOf(j) /\ job \in [Jobs -> JobRecord] /\ job[j] \in JobRecord
  BY JobFacts
<1>2. UNCHANGED <<pc, faults>>  BY DEF ResumeNow, ResumeWait, ResumeAfterTask
<1>3. CASE job[j].status = "paused" /\ job' = Resumed(j)  BY <1>2, <1>3, ResumedCloses
<1>4. CASE ~(job[j].status = "paused" /\ job' = Resumed(j))
  <2>1. \/ job[j].status = "paused" /\ TaskAlive(j)
           /\ job' = [job EXCEPT ![j].cancel = TRUE, ![j].resuming = TRUE]
        \/ job' = [job EXCEPT ![j].resuming = FALSE]
    BY <1>4 DEF ResumeNow, ResumeWait, ResumeAfterTask
  <2>2. /\ job'[j].status = job[j].status /\ job'[j].claim = job[j].claim
        /\ job'[j].callback = job[j].callback /\ job'[j].task = job[j].task
        /\ job'[j].cancel = job[j].cancel \/ (job[j].status = "paused" /\ TaskAlive(j))
    BY <1>1, <2>1 DEF JobRecord
  <2>3. TaskAlive(j)' = TaskAlive(j)  BY <2>2 DEF TaskAlive
  <2>4. job[j].task = "none" => ~TaskAlive(j)  BY DEF TaskAlive
  <2>. QED  BY <1>1, <1>2, <2>2, <2>3, <2>4, SameStatusCloses DEF CloseOf
<1>. QED  BY <1>3, <1>4

LEMMA CancelQueuedCloses ==
    ASSUME JInv, CloseInv, NEW j \in Jobs, CancelQueued(j)
    PROVE  CloseOf(j)'
<1>1. /\ CloseOf(j) /\ PlaceOf(j) /\ ShapeOf(j) /\ job \in [Jobs -> JobRecord]
      /\ job[j] \in JobRecord
  BY JobFacts
<1>2. /\ job[j].status = "queued" /\ UNCHANGED <<pc, faults>>
      /\ job' = job \/ job' = [job EXCEPT ![j].status = "cancelled"]
  BY DEF CancelQueued
<1>3. /\ job'[j].status \in {"queued", "cancelled"} /\ job'[j].claim = job[j].claim
      /\ job'[j].callback = job[j].callback /\ job'[j].task = job[j].task
  BY <1>1, <1>2 DEF JobRecord
<1>4. job[j].task = "none" /\ job'[j].cancel = job[j].cancel
  BY <1>1, <1>2 DEF ShapeOf, JobRecord
<1>. QED
  BY <1>1, <1>2, <1>3, <1>4
  DEF CloseOf, SettledOf, PlaceOf, Own, Terminal, TerminalStatus, Ending

\* The coroutine of a cancel request moves, and perhaps that of the interrupt.
LEMMA CancelRequestCloses ==
    ASSUME JInv, CloseInv, NEW j \in Jobs, CancelRequest(j),
           pc'[Ctl(j)] = AfterCancelRequest(j),
           pc'[Task(j)] = pc[Task(j)], pc'[Fin(j)] = pc[Fin(j)]
    PROVE  CloseOf(j)'
<1>1. /\ CloseOf(j) /\ PlaceOf(j) /\ ShapeOf(j) /\ job \in [Jobs -> JobRecord]
      /\ job[j] \in JobRecord
  BY JobFacts
<1>2. /\ job[j].status \in ActiveStatus \cup {"paused", "cancelling"} /\ faults' = faults
      /\ job' = [job EXCEPT ![j].status = "cancelling", ![j].cancel = @ \/ TaskAlive(j)]
  BY DEF CancelRequest
<1>3. pc'[Ctl(j)] \in {"idle", "finalize", "wait_task"}
  BY DEF AfterCancelRequest
<1>4. /\ job'[j].status = "cancelling" /\ job'[j].claim = job[j].claim
      /\ job'[j].callback = job[j].callback /\ job'[j].task = job[j].task
      /\ job'[j].cancel = (job[j].cancel \/ TaskAlive(j))
  BY <1>1, <1>2 DEF JobRecord
<1>5. job[j].status \in {"running", "paused", "cancelling"} /\ ~Terminal(j) /\ ~Terminal(j)'
  BY <1>1, <1>2, <1>4 DEF ShapeOf, Reached, ActiveStatus, Terminal, TerminalStatus
<1>6. job[j].task = "none" => ~TaskAlive(j)  BY DEF TaskAlive
<1>7. SettledOf(j)' \/ faults # 0
  BY <1>1, <1>2, <1>3, <1>4, <1>5 DEF CloseOf, SettledOf, Task, Fin, Ctl
<1>. QED
  BY <1>1, <1>2, <1>3, <1>4, <1>5, <1>6, <1>7
  DEF CloseOf, Own, Leaving, Ending, Task, Fin, Ctl

\* A request that waited for the task of a paused job goes on to settle it.
LEMMA CtlWakeCloses ==
    ASSUME JInv, CloseInv, NEW j \in Jobs, CtlWake(j)
    PROVE  CloseOf(j)'
<1>1. CloseOf(j) /\ PlaceOf(j) /\ TypeOK  BY JobFacts
<1>2. /\ pc[Ctl(j)] = "wait_task" /\ ~TaskAlive(j) /\ UNCHANGED <<job, faults>>
      /\ GoTo(Ctl(j), IF job[j].task = "done_error" THEN "idle" ELSE "finalize")
  BY DEF CtlWake
<1>3. /\ pc'[Ctl(j)] \in {"idle", "finalize"}
      /\ pc'[Task(j)] = pc[Task(j)] /\ pc'[Fin(j)] = pc[Fin(j)]
  BY <1>1, <1>2 DEF TypeOK, GoTo, Procs, Task, Fin, Ctl
<1>4. job[j].status = "cancelling" \/ Terminal(j)  BY <1>1, <1>2 DEF PlaceOf
<1>5. SettledOf(j)' \/ faults # 0
  BY <1>1, <1>2, <1>3, <1>4 DEF CloseOf, SettledOf, TaskAlive, Terminal, Task, Fin, Ctl
<1>. QED
  BY <1>1, <1>2, <1>3, <1>5 DEF CloseOf, Own, Leaving, Terminal, Task, Fin, Ctl

LEMMA StartRestoredCloses ==
    ASSUME JInv, CloseInv, NEW j \in Jobs, StartRestored(j)
    PROVE  CloseOf(j)'
<1>1. /\ CloseOf(j) /\ PlaceOf(j) /\ ShapeOf(j) /\ job \in [Jobs -> JobRecord]
      /\ job[j] \in JobRecord
  BY JobFacts
<1>2. /\ job[j].restoring /\ UNCHANGED <<pc, faults>>
      /\ job' = [job EXCEPT ![j].restoring = FALSE, ![j].task = "created"]
  BY DEF StartRestored
<1>3. /\ job'[j].status = "running" /\ job'[j].claim = job[j].claim
      /\ job'[j].callback = "none" /\ job'[j].task = "created" /\ ~job'[j].cancel
  BY <1>1, <1>2 DEF ShapeOf, CloseOf, JobRecord
<1>4. job[j].status = "running"  BY <1>1, <1>2 DEF ShapeOf
<1>. QED
  BY <1>1, <1>2, <1>3, <1>4
  DEF CloseOf, SettledOf, PlaceOf, Own, Terminal, TerminalStatus, Ending

LEMMA ControlCloses ==
    ASSUME JInv, CloseInv, NEW j \in Jobs,
           Control(j) \/ CtlWake(j) \/ ResumeAfterTask(j) \/ StartRestored(j)
    PROVE  CloseInv'
<1>1. TypeOK /\ job \in [Jobs -> JobRecord]  BY JobFacts
<1>2. CASE CancelActive(j) \/ Interrupt(j)
  <2>1. CancelRequest(j)  BY <1>2 DEF CancelActive, Interrupt
  <2>2. \E x : pc' = [pc EXCEPT ![Ctl(j)] = AfterCancelRequest(j), ![Notify] = x]
             \/ pc' = [pc EXCEPT ![Ctl(j)] = AfterCancelRequest(j)]
    BY <1>2 DEF CancelActive, Interrupt, GoTo
  <2>3. /\ pc'[Ctl(j)] = AfterCancelRequest(j)
        /\ pc'[Task(j)] = pc[Task(j)] /\ pc'[Fin(j)] = pc[Fin(j)]
        /\ \A k \in Jobs \ {j} : \A p \in Own(k) : pc'[p] = pc[p]
    BY <1>1, <2>2 DEF TypeOK, Own, Task, Fin, Ctl, Notify, Procs
  <2>4. CloseOf(j)'  BY <2>1, <2>3, CancelRequestCloses
  <2>5. \A k \in Jobs \ {j} : job'[k] = job[k]  BY ControlLeavesOthers
  <2>6. faults' = faults  BY <2>1 DEF CancelRequest
  <2>. QED  BY <2>3, <2>4, <2>5, <2>6, OneJobCloses
<1>3. CASE CtlWake(j)
  <2>1. /\ \A k \in Jobs \ {j} : job'[k] = job[k] /\ \A p \in Own(k) : pc'[p] = pc[p]
        /\ faults' = faults
    BY <1>1, <1>3 DEF CtlWake, GoTo, TypeOK, Own, Task, Fin, Ctl, Procs
  <2>. QED  BY <1>3, <2>1, CtlWakeCloses, OneJobCloses
<1>4. CASE Pause(j) \/ ResumeNow(j) \/ ResumeWait(j) \/ CancelQueued(j)
           \/ ResumeAfterTask(j) \/ StartRestored(j)
  <2>1. UNCHANGED <<pc, faults>>
    BY <1>4 DEF Pause, ResumeNow, ResumeWait, CancelQueued, ResumeAfterTask, StartRestored
  <2>2. CloseOf(j)'
    BY <1>4, PauseCloses, ResumeCloses, CancelQueuedCloses, StartRestoredCloses
  <2>3. \A k \in Jobs \ {j} : job'[k] = job[k]  BY ControlLeavesOthers
  <2>. QED  BY <2>1, <2>2, <2>3, OneJobCloses
<1>. QED  BY <1>2, <1>3, <1>4 DEF Control

-----------------------------------------------------------------------------
(* Admissions, loads, crashes and restarts. *)

\* A job that becomes known or queued has no claim, no task and no coroutine.
LEMMA QuietCloses ==
    ASSUME JInv, CloseInv, NEW k \in Jobs, job[k].status \in {"unloaded", "queued"},
           job'[k].status \in {"unloaded", "queued"}, job'[k].claim = job[k].claim,
           job'[k].task = job[k].task, job'[k].cancel = job[k].cancel,
           \A p \in Own(k) : pc'[p] = pc[p], faults' = faults
    PROVE  CloseOf(k)'
<1>1. CloseOf(k) /\ PlaceOf(k) /\ ShapeOf(k)  BY JobFacts
<1>. QED
  BY <1>1 DEF CloseOf, SettledOf, PlaceOf, ShapeOf, Own, Terminal, TerminalStatus, Ending

LEMMA AdmitCloses ==
    ASSUME JInv, CloseInv, NEW j \in Jobs, Admit(j)
    PROVE  CloseInv'
<1>1. /\ DurableOf(j) /\ job \in [Jobs -> JobRecord] /\ job[j] \in JobRecord  BY JobFacts
<1>2. job[j].status = "unloaded" /\ UNCHANGED <<pc, faults>>
  BY <1>1 DEF Admit, DurableOf
<1>3. /\ job'[j].status = "queued" /\ job'[j].claim = job[j].claim
      /\ job'[j].task = job[j].task /\ job'[j].cancel = job[j].cancel
  BY <1>1 DEF Admit, JobRecord
<1>4. CloseOf(j)'  BY <1>2, <1>3, QuietCloses
<1>5. \A k \in Jobs \ {j} : job'[k] = job[k]  BY <1>1 DEF Admit
<1>. QED  BY <1>2, <1>4, <1>5, OneJobCloses

LEMMA RestoreCloses ==
    ASSUME JInv, CloseInv, RestoreProgress
    PROVE  CloseInv'
<1>1. TypeOK /\ job \in [Jobs -> JobRecord]  BY DEF JInv, TypeOK
<1>2. faults' = faults /\ \A k \in Jobs : \A p \in Own(k) : pc'[p] = pc[p]
  <2>1. \E label : GoTo(Restore, label) /\ faults' = faults
    BY DEF RestoreProgress, RestoreRead, RestoreInstall
  <2>. QED  BY <1>1, <2>1 DEF GoTo, TypeOK, Own, Task, Fin, Ctl, Procs, Restore
<1>3. CASE RestoreRead  BY <1>2, <1>3, CloseKept DEF RestoreRead, CloseInv
<1>4. CASE RestoreInstall
  <2> DEFINE fresh == {k \in loaded : job[k].status \in {"unloaded", "queued"}}
  <2>1. ASSUME NEW k \in Jobs PROVE CloseOf(k)'
    <3>1. job[k] \in JobRecord  BY <1>1
    <3>2. CASE k \in fresh
      <4>1. job'[k] = [job[k] EXCEPT !.status = "queued"]  BY <1>4, <3>2 DEF RestoreInstall
      <4>2. /\ job'[k].status = "queued" /\ job'[k].claim = job[k].claim
            /\ job'[k].task = job[k].task /\ job'[k].cancel = job[k].cancel
        BY <3>1, <4>1 DEF JobRecord
      <4>. QED  BY <1>2, <3>2, <4>2, QuietCloses
    <3>3. CASE k \notin fresh
      <4>1. job'[k] = job[k]  BY <1>4, <3>3 DEF RestoreInstall
      <4>. QED  BY <1>2, <4>1, CloseKept DEF CloseInv
    <3>. QED  BY <3>2, <3>3
  <2>. QED  BY <2>1 DEF CloseInv
<1>. QED  BY <1>3, <1>4 DEF RestoreProgress

LEMMA NotifyCloses ==
    ASSUME JInv, CloseInv, NotifyBoundary
    PROVE  CloseInv'
<1>1. TypeOK /\ job \in [Jobs -> JobRecord]  BY DEF JInv, TypeOK
<1>2. /\ \E label : GoTo(Notify, label)
      /\ faults' = faults
      /\ job' = IF SlotBusy THEN [job EXCEPT ![slot].boundary = "after_interrupt"] ELSE job
  BY DEF NotifyBoundary
<1>3. \A k \in Jobs : \A p \in Own(k) : pc'[p] = pc[p]
  BY <1>1, <1>2 DEF GoTo, TypeOK, Own, Task, Fin, Ctl, Procs, Notify
<1>4. ASSUME NEW k \in Jobs PROVE CloseOf(k)'
  <2>1. CloseOf(k) /\ job[k] \in JobRecord  BY JobFacts
  <2>2. job'[k] = job[k] \/ job'[k] = [job[k] EXCEPT !.boundary = "after_interrupt"]
    BY <1>1, <1>2
  <2>3. /\ job'[k].status = job[k].status /\ job'[k].claim = job[k].claim
        /\ job'[k].callback = job[k].callback /\ job'[k].task = job[k].task
        /\ job'[k].cancel = job[k].cancel
    BY <2>1, <2>2 DEF JobRecord
  <2>. QED  BY <1>2, <1>3, <2>1, <2>3, SameStatusCloses DEF TaskAlive, CloseOf
<1>. QED  BY <1>4 DEF CloseInv

\* A dead backend has no claim: the holder dies with the process.  The restart
\* takes one for the job it restores.
LEMMA CrashCloses == ASSUME JInv, Crash PROVE CloseInv'
<1>1. /\ job' = [j \in Jobs |-> Unloaded] /\ pc' = [p \in Procs |-> "idle"]  BY DEF Crash
<1>2. \A j \in Jobs : \A p \in Own(j) : pc'[p] = "idle"
  BY <1>1 DEF Own, Task, Fin, Ctl, Procs
<1>3. \A j \in Jobs : job'[j] = Unloaded  BY <1>1
<1>. QED
  BY <1>2, <1>3 DEF CloseInv, CloseOf, SettledOf, Own, Unloaded, Ending, Leaving, Terminal,
     TerminalStatus

LEMMA RestartRestoredCloses ==
    ASSUME JInv, CloseInv, NEW j \in Jobs, RestartRestored(j)
    PROVE  CloseInv'
<1>1. /\ ~up /\ CloseOf(j) /\ PlaceOf(j) /\ job \in [Jobs -> JobRecord]  BY JobFacts DEF RestartRestored
<1>2. job[j] = Unloaded /\ job[j] \in JobRecord  BY <1>1 DEF JInv, SlotSound
<1>3. /\ job' = [job EXCEPT ![j].status = "running", ![j].claim = TRUE, ![j].restoring = TRUE]
      /\ UNCHANGED <<pc, faults>>
  BY DEF RestartRestored
<1>4. /\ job'[j].status = "running" /\ job'[j].task = "none" /\ ~job'[j].cancel
      /\ job'[j].callback = "none"
  <2>1. job'[j] = [Unloaded EXCEPT !.status = "running", !.claim = TRUE, !.restoring = TRUE]
    BY <1>1, <1>2, <1>3
  <2>. QED  BY <2>1 DEF Unloaded
<1>5. CloseOf(j)'
  BY <1>1, <1>2, <1>3, <1>4
  DEF Unloaded, CloseOf, SettledOf, PlaceOf, Own, Ending, Terminal, TerminalStatus
<1>6. \A k \in Jobs \ {j} : job'[k] = job[k]  BY <1>1, <1>3
<1>. QED  BY <1>3, <1>5, <1>6, OneJobCloses

-----------------------------------------------------------------------------
(* The dispatch. *)

\* A task that ends without an exception has no callback to run.
LEMMA EndedCallback ==
    ASSUME NEW k \in Jobs, NEW jobs \in [Jobs -> JobRecord], NEW failing \in BOOLEAN,
           Ended(Task(k), jobs, failing)[k].callback = "error"
    PROVE  failing \/ jobs[k].task = "releasing_error"
<1> DEFINE error == failing \/ jobs[k].task = "releasing_error"
           r == [jobs[k] EXCEPT !.task = IF error THEN "done_error" ELSE "done_ok",
                                !.callback = IF error THEN "error" ELSE "none"]
<1>1. Ended(Task(k), jobs, failing) = [jobs EXCEPT ![k] = r]  BY DEF Ended, Task
<1>2. jobs[k] \in JobRecord  OBVIOUS
<1>3. r.callback = IF error THEN "error" ELSE "none"  BY <1>2 DEF JobRecord
<1> HIDE DEF r
<1>4. Ended(Task(k), jobs, failing)[k] = r  BY <1>1
<1>. QED  BY <1>3, <1>4

LEMMA DiscardKeepsCancel ==
    ASSUME TypeOK, NEW k \in Jobs
    PROVE  AfterDiscard[k].cancel = job[k].cancel
<1>1. job[k] \in JobRecord  BY DEF TypeOK
<1>2. AfterDiscard[k] = job[k] \/ AfterDiscard[k] = [job[k] EXCEPT !.status = "failed"]
  BY DEF AfterDiscard
<1>. QED  BY <1>1, <1>2 DEF JobRecord

\* What a step of a coroutine means for one job: a coroutine of the job that
\* goes on has an ended job without a claim, one that ends keeps a job alone.
LEMMA DispatchedCloses ==
    ASSUME JInv, CloseInv, NEW p \in Procs, NEW k \in Jobs, faults' = faults,
           NEW label \in {"idle", "select", "launch", "handover"}, GoTo(p, label),
           job'[k].status = job[k].status
            \/ (job[k].status = "queued" /\ job'[k].status = "failed"),
           job'[k].claim => job[k].claim,
           \/ SameTask(job'[k], job[k]) /\ job'[k].cancel = job[k].cancel
           \/ /\ p = Task(k) /\ job'[k].task \in {"done_ok", "done_error"}
              /\ job'[k].callback = "error" => Terminal(k) \/ job[k].task = "releasing_error",
           p = Task(k) /\ label = "idle" => job'[k].task \in {"done_ok", "done_error"},
           p \in Own(k) => \/ Terminal(k) /\ ~job'[k].claim
                           \/ ~Terminal(k) /\ label = "idle"
    PROVE  CloseOf(k)'
<1>1. CloseOf(k) /\ ShapeOf(k) /\ PlaceOf(k) /\ TypeOK  BY JobFacts
<1>2. \A q \in Own(k) : pc'[q] = IF q = p THEN label ELSE pc[q]
  BY <1>1 DEF GoTo, TypeOK, Own, Task, Fin, Ctl, Procs
<1>3. Task(k) # Fin(k) /\ Task(k) # Ctl(k)  BY DEF Task, Fin, Ctl
<1>4. Terminal(k) => Terminal(k)' /\ job'[k].status = job[k].status
  BY DEF Terminal, TerminalStatus
<1>5. Terminal(k)' => Terminal(k) \/ ~job'[k].claim
  BY <1>1 DEF CloseOf, Terminal
<1>6. job'[k].status = "running" => job[k].status = "running" /\ ~Terminal(k)
  BY DEF Terminal, TerminalStatus
<1>7. SettledOf(k)' \/ faults # 0
  <2>1. CASE p \in Own(k)
    <3>1. SameTask(job'[k], job[k]) => TaskAlive(k)' = TaskAlive(k)
      BY DEF SameTask, TaskAlive
    <3>2. faults = 0 /\ job'[k].status = "running" =>
            /\ job'[k].callback = "error" => TaskAlive(k)'
            /\ job'[k].task # "releasing_error"
      BY <1>1, <1>6, <3>1 DEF CloseOf, SettledOf, SameTask
    <3>3. ~(Terminal(k)' /\ job'[k].claim)  BY <2>1, <1>4, <1>5
    <3>. QED
      BY <1>1, <1>2, <1>3, <1>4, <2>1, <3>2, <3>3 DEF CloseOf, SettledOf, PlaceOf, Terminal, Own
  <2>2. CASE p \notin Own(k)
    <3>1. SameTask(job'[k], job[k]) /\ TaskAlive(k)' = TaskAlive(k)
      BY <2>2 DEF SameTask, TaskAlive, Own
    <3>. QED
      BY <1>1, <1>2, <1>4, <1>5, <1>6, <2>2, <3>1
      DEF CloseOf, SettledOf, PlaceOf, SameTask, Own, Terminal, TerminalStatus
  <2>. QED  BY <2>1, <2>2
<1>8. job'[k].task \in Ending => pc'[Task(k)] \in {"close"} \cup Leaving
  BY <1>1, <1>2 DEF CloseOf, SameTask, Own, Ending, Leaving
<1>9. \A q \in Own(k) : pc'[q] \in Leaving => Terminal(k)' /\ ~job'[k].claim
  BY <1>1, <1>2, <1>4 DEF CloseOf, Leaving
<1>10. /\ job'[k].status \in {"unloaded", "queued"} => ~job'[k].claim
       /\ job'[k].task = "none" => ~job'[k].cancel
  BY <1>1 DEF CloseOf, SameTask
<1>11. job'[k].task = "created" /\ job'[k].cancel => job'[k].status \in {"paused", "cancelling"}
  BY <1>1 DEF CloseOf, SameTask
<1>. QED  BY <1>7, <1>8, <1>9, <1>10, <1>11 DEF CloseOf

\* A step of p that closes no claim and opens none.
LEMMA PassedCloses ==
    ASSUME JInv, CloseInv, NEW p \in Procs, faults' = faults,
           NEW label \in {"idle", "select", "launch"}, GoTo(p, label),
           NEW jobs, jobs = job \/ jobs = AfterDiscard, NEW failing \in BOOLEAN,
           job' = IF label = "idle" THEN Ended(p, jobs, failing) ELSE jobs,
           \A k \in Jobs : p \in Own(k) =>
                \/ Terminal(k) /\ ~job[k].claim
                \/ ~Terminal(k) /\ ~failing /\ label = "idle"
    PROVE  CloseInv'
<1>1. TypeOK /\ job \in [Jobs -> JobRecord]  BY DEF JInv, TypeOK
<1>2. jobs \in [Jobs -> JobRecord]  BY <1>1, DiscardFacts
<1>3. ASSUME NEW k \in Jobs PROVE CloseOf(k)'
  <2>1. /\ jobs[k].status = job[k].status
            \/ (job[k].status = "queued" /\ jobs[k].status = "failed")
        /\ jobs[k].claim = job[k].claim /\ SameTask(jobs[k], job[k])
        /\ jobs[k].cancel = job[k].cancel
    <3>1. CASE jobs = job  BY <3>1 DEF SameTask
    <3>2. CASE jobs = AfterDiscard
      <4>1. CASE k \in Stale  BY <1>1, <3>2, <4>1, DiscardFacts, DiscardKeepsCancel DEF Agree
      <4>2. CASE k \notin Stale  BY <1>1, <3>2, <4>2, DiscardFacts DEF SameTask
      <4>. QED  BY <4>1, <4>2
    <3>. QED  BY <3>1, <3>2
  <2>2. /\ job'[k].status = jobs[k].status /\ job'[k].claim = jobs[k].claim
        /\ p # Task(k) \/ label # "idle" => job'[k] = jobs[k]
        /\ p = Task(k) /\ label = "idle" =>
            /\ job'[k].task \in {"done_ok", "done_error"}
            /\ job'[k].callback = "error" => failing \/ jobs[k].task = "releasing_error"
    <3>1. CASE label = "idle"
      BY <1>2, <3>1, EndedFacts, EndedCallback DEF Agree
    <3>2. CASE label # "idle"  BY <3>2
    <3>. QED  BY <3>1, <3>2
  <2>3. p \in Own(k) => \/ Terminal(k) /\ ~job[k].claim
                        \/ ~Terminal(k) /\ ~failing /\ label = "idle"
    OBVIOUS
  <2>4. Task(k) \in Own(k)  BY DEF Own
  <2>5. \/ SameTask(job'[k], job[k]) /\ job'[k].cancel = job[k].cancel
        \/ /\ p = Task(k) /\ job'[k].task \in {"done_ok", "done_error"}
           /\ job'[k].callback = "error" => Terminal(k) \/ job[k].task = "releasing_error"
    <3>1. CASE p # Task(k) \/ label # "idle"  BY <2>1, <2>2, <3>1 DEF SameTask
    <3>2. CASE p = Task(k) /\ label = "idle"
      BY <2>1, <2>2, <2>3, <2>4, <3>2 DEF SameTask
    <3>. QED  BY <3>1, <3>2
  <2>. QED  BY <2>1, <2>2, <2>3, <2>5, DispatchedCloses
<1>. QED  BY <1>3 DEF CloseInv

\* Past the close, a coroutine acts for an ended job without a claim.
LEMMA LeavingFacts ==
    ASSUME JInv, CloseInv, NEW p \in Procs, pc[p] \in Leaving
    PROVE  \A k \in Jobs : p \in Own(k) => Terminal(k) /\ ~job[k].claim
BY DEF CloseInv, CloseOf

LEMMA SelectCurrentCloses ==
    ASSUME JInv, CloseInv, NEW p \in Procs, SelectCurrent(p)
    PROVE  CloseInv'
<1> DEFINE label == IF Unstarted(slot) THEN "launch" ELSE "idle"
<1>1. /\ pc[p] \in Leaving /\ GoTo(p, label) /\ faults' = faults
      /\ job' = IF label = "idle" THEN Ended(p, job, FALSE) ELSE job
  BY DEF SelectCurrent, MaySelect, Leaving
<1>2. label \in {"idle", "select", "launch"} /\ FALSE \in BOOLEAN  OBVIOUS
<1> HIDE DEF label
<1>. QED  BY <1>1, <1>2, LeavingFacts, PassedCloses

LEMMA SelectOtherwiseCloses ==
    ASSUME JInv, CloseInv, NEW p \in Procs, SelectNone(p) \/ SelectRefused(p)
    PROVE  CloseInv'
<1> DEFINE label == "idle"
<1>1. PICK failing \in BOOLEAN : job' = Ended(p, AfterDiscard, failing)
  BY DEF SelectNone, SelectRefused
<1>2. pc[p] \in Leaving /\ GoTo(p, label) /\ faults' = faults
  BY DEF SelectNone, SelectRefused, MaySelect, Leaving
<1>3. label \in {"idle", "select", "launch"} /\ label = "idle"  OBVIOUS
<1> HIDE DEF label
<1>. QED  BY <1>1, <1>2, <1>3, LeavingFacts, PassedCloses

\* The head takes the claim, and nobody acts for it yet.
LEMMA SelectHeadCloses ==
    ASSUME JInv, CloseInv, NEW p \in Procs, SelectHead(p)
    PROVE  CloseInv'
<1>1. TypeOK /\ job \in [Jobs -> JobRecord]  BY DEF JInv, TypeOK
<1>2. PICK j \in Kept :
        /\ job' = [AfterDiscard EXCEPT ![j].status = "running", ![j].claim = TRUE,
                                       ![j].boundary = BoundaryOf(p)]
        /\ pc[p] \in Leaving /\ GoTo(p, "launch") /\ faults' = faults
  BY DEF SelectHead, MaySelect, Leaving
<1>3. j \in Jobs /\ AfterDiscard \in [Jobs -> JobRecord] /\ AfterDiscard[j] = job[j]
      /\ job[j].status = "queued"
  BY <1>1, <1>2, DiscardFacts DEF Kept, TypeOK, JInv, JobOf, DurableOf
<1>4. /\ job'[j].status = "running" /\ job'[j].task = job[j].task
      /\ job'[j].cancel = job[j].cancel /\ job'[j].callback = job[j].callback
  BY <1>2, <1>3 DEF JobRecord
<1>5. \A k \in Jobs : p \in Own(k) => Terminal(k) /\ ~job[k].claim  BY <1>2, LeavingFacts
<1>6. CloseOf(j)'
  <2>1. ShapeOf(j) /\ PlaceOf(j) /\ CloseOf(j)  BY <1>3, JobFacts
  <2>2. ~Terminal(j)  BY <1>3 DEF Terminal, TerminalStatus
  <2>3. \A q \in Own(j) : pc'[q] = pc[q] /\ pc[q] \notin Leaving \cup {"finalize"}
    BY <1>1, <1>2, <1>3, <1>5, <2>1, <2>2
    DEF GoTo, TypeOK, CloseOf, PlaceOf, Own
  <2>4. job[j].task = "none" /\ job[j].callback = "none"  BY <1>3, <2>1 DEF ShapeOf
  <2>. QED
    BY <1>2, <1>3, <1>4, <2>1, <2>3, <2>4
    DEF CloseOf, SettledOf, Own, Ending, Terminal, TerminalStatus
<1>7. ASSUME NEW k \in Jobs \ {j} PROVE CloseOf(k)'
  <2> DEFINE label == "launch"
  <2>1. job'[k] = AfterDiscard[k]  BY <1>2, <1>3
  <2>2. /\ job'[k].status = job[k].status
            \/ (job[k].status = "queued" /\ job'[k].status = "failed")
        /\ job'[k].claim = job[k].claim /\ SameTask(job'[k], job[k])
        /\ job'[k].cancel = job[k].cancel
    <3>1. CASE k \in Stale  BY <1>1, <2>1, <3>1, DiscardFacts, DiscardKeepsCancel DEF Agree
    <3>2. CASE k \notin Stale  BY <1>1, <2>1, <3>2, DiscardFacts DEF SameTask
    <3>. QED  BY <3>1, <3>2
  <2>3. /\ label \in {"idle", "select", "launch", "handover"} /\ GoTo(p, label)
        /\ label # "idle"
    BY <1>2
  <2> HIDE DEF label
  <2>. QED  BY <1>2, <1>5, <2>2, <2>3, DispatchedCloses
<1>. QED  BY <1>6, <1>7 DEF CloseInv

\* A task is created for a job that was never cancelled.
LEMMA LaunchCloses ==
    ASSUME JInv, CloseInv, NEW p \in Procs, Launch(p)
    PROVE  CloseInv'
<1> DEFINE j == chosen[p]
           go == slot = j /\ Unstarted(j)
           launched == [job EXCEPT ![j].task = IF go THEN "created" ELSE @]
           label == "idle"
<1>1. TypeOK /\ job \in [Jobs -> JobRecord]  BY DEF JInv, TypeOK
<1>2. /\ pc[p] \in Leaving /\ GoTo(p, label) /\ faults' = faults
      /\ job' = Ended(p, launched, FALSE) /\ label = "idle" /\ FALSE \in BOOLEAN
  BY DEF Launch, Leaving
<1>3. \A k \in Jobs : p \in Own(k) => Terminal(k) /\ ~job[k].claim  BY <1>2, LeavingFacts
<1>4. ASSUME NEW k \in Jobs
      PROVE  /\ launched[k] \in JobRecord
             /\ launched[k].status = job[k].status /\ launched[k].claim = job[k].claim
             /\ launched[k].cancel = job[k].cancel /\ launched[k].callback = job[k].callback
             /\ launched[k].task = IF k = j /\ go THEN "created" ELSE job[k].task
  <2>1. job[k] \in JobRecord  BY <1>1
  <2>. QED  BY <1>1, <2>1, ZenonT(60) DEF JobRecord, TaskStates
<1>5. launched \in [Jobs -> JobRecord]  BY <1>1, <1>4
<1> HIDE DEF launched, go, j, label
<1>6. ASSUME NEW k \in Jobs
      PROVE  /\ job'[k].status = job[k].status /\ job'[k].claim = job[k].claim
             /\ p # Task(k) => job'[k] = launched[k]
             /\ p = Task(k) => job'[k].task \in {"done_ok", "done_error"}
             /\ p = Task(k) /\ job'[k].callback = "error" => launched[k].task = "releasing_error"
  <2>1. /\ Agree(job'[k], launched[k]) /\ job'[k].status = launched[k].status
        /\ p # Task(k) => job'[k] = launched[k]
        /\ p = Task(k) => job'[k].task \in {"done_ok", "done_error"}
    BY <1>2, <1>5, EndedFacts
  <2>2. p = Task(k) /\ job'[k].callback = "error" => launched[k].task = "releasing_error"
    BY <1>2, <1>5, EndedCallback
  <2>. QED  BY <1>4, <2>1, <2>2 DEF Agree
<1>7. ASSUME NEW k \in Jobs, k = j, go PROVE CloseOf(k)'
  <2>1. ShapeOf(k) /\ PlaceOf(k) /\ CloseOf(k)  BY JobFacts
  <2>2. job[k].status = "running" /\ job[k].task = "none"
    BY <1>7 DEF go, Unstarted
  <2>3. ~Terminal(k) /\ p \notin Own(k)  BY <1>3, <2>2 DEF Terminal, TerminalStatus
  <2>4. \A q \in Own(k) : pc'[q] = pc[q] /\ pc[q] \notin Leaving \cup {"finalize"}
    BY <1>1, <1>2, <2>1, <2>2, <2>3
    DEF GoTo, TypeOK, CloseOf, PlaceOf, Own, Terminal, TerminalStatus
  <2>5. /\ job'[k].task = "created" /\ ~job'[k].cancel
        /\ job'[k].callback = job[k].callback
    BY <1>4, <1>6, <1>7, <2>1, <2>2, <2>3 DEF CloseOf, Own
  <2>6. TaskAlive(k)'  BY <2>5 DEF TaskAlive, DoneTask
  <2>. QED
    BY <1>2, <1>6, <2>1, <2>2, <2>4, <2>5, <2>6
    DEF CloseOf, SettledOf, Own, Ending, Terminal, TerminalStatus
<1>8. ASSUME NEW k \in Jobs, ~(k = j /\ go) PROVE CloseOf(k)'
  <2>1. launched[k].task = job[k].task  BY <1>4, <1>8
  <2>2. \/ SameTask(job'[k], job[k]) /\ job'[k].cancel = job[k].cancel
        \/ /\ p = Task(k) /\ job'[k].task \in {"done_ok", "done_error"}
           /\ job'[k].callback = "error" => Terminal(k) \/ job[k].task = "releasing_error"
    BY <1>4, <1>6, <2>1 DEF SameTask
  <2>3. label \in {"idle", "select", "launch", "handover"}  BY <1>2
  <2>. QED  BY <1>2, <1>3, <1>6, <2>2, <2>3, DispatchedCloses
<1>. QED  BY <1>7, <1>8 DEF CloseInv

LEMMA HandoverCloses ==
    ASSUME JInv, CloseInv, NEW p \in Procs, Handover(p) \/ HandoverLost(p)
    PROVE  CloseInv'
<1> DEFINE label == IF HandoverLost(p) \/ Kept = {} THEN "idle" ELSE "select"
           jobs == IF HandoverLost(p) THEN job ELSE AfterDiscard
<1>1. /\ pc[p] \in Leaving /\ GoTo(p, label) /\ faults' = faults
      /\ job' = IF label = "idle" THEN Ended(p, jobs, FALSE) ELSE jobs
  BY DEF Handover, HandoverLost, Leaving
<1>2. /\ label \in {"idle", "select", "launch"} /\ FALSE \in BOOLEAN
      /\ jobs = job \/ jobs = AfterDiscard
  OBVIOUS
<1> HIDE DEF label, jobs
<1>. QED  BY <1>1, <1>2, LeavingFacts, PassedCloses

\* Close: an ended job gives its claim back, any other keeps it.
LEMMA CloseCloses ==
    ASSUME JInv, CloseInv, NEW p \in Procs, p[1] \in {"task", "fin", "ctl"}, Close(p)
    PROVE  CloseInv'
<1>1. TypeOK /\ job \in [Jobs -> JobRecord] /\ faults' = faults  BY DEF JInv, TypeOK, Close
<1>2. PICK j \in Jobs : p[2] = j /\ p \in Own(j)  BY ProcessOf DEF Own
<1>3. \A k \in Jobs : p \in Own(k) => k = j  BY <1>2 DEF Own, Task, Fin, Ctl
<1>4. CASE ~Terminal(j)
  <2> DEFINE label == "idle"
  <2>1. /\ GoTo(p, label) /\ label \in {"idle", "select", "launch"} /\ label = "idle"
        /\ job' = Ended(p, job, FALSE) /\ FALSE \in BOOLEAN
    BY <1>2, <1>4 DEF Close
  <2> HIDE DEF label
  <2>. QED  BY <1>1, <1>3, <1>4, <2>1, PassedCloses
<1>5. CASE Terminal(j)
  <2> DEFINE label == "handover"
  <2>1. /\ job' = [job EXCEPT ![j].claim = FALSE] /\ GoTo(p, label)
        /\ label \in {"idle", "select", "launch", "handover"} /\ label # "idle"
    BY <1>2, <1>5 DEF Close
  <2> HIDE DEF label
  <2>2. ASSUME NEW k \in Jobs PROVE CloseOf(k)'
    <3>1. job[k] \in JobRecord  BY <1>1
    <3>2. /\ job'[k].status = job[k].status /\ SameTask(job'[k], job[k])
          /\ job'[k].cancel = job[k].cancel
          /\ job'[k].claim = (job[k].claim /\ k # j)
      BY <1>1, <2>1, <3>1 DEF JobRecord, SameTask
    <3>. QED  BY <1>1, <1>3, <1>5, <2>1, <3>2, DispatchedCloses
  <2>. QED  BY <2>2 DEF CloseInv
<1>. QED  BY <1>4, <1>5

\* A finalizer settles what is being cancelled and goes on to close it; it
\* gives up only on a job that ended otherwise and has no claim.
LEMMA FinalizeCloses ==
    ASSUME JInv, CloseInv, NEW p \in Procs, p[1] \in {"fin", "ctl"}, Finalize(p)
    PROVE  CloseInv'
<1>1. TypeOK /\ job \in [Jobs -> JobRecord] /\ faults' = faults /\ pc[p] = "finalize"
  BY DEF JInv, TypeOK, Finalize
<1>2. PICK j \in Jobs : p[2] = j /\ p \in {Fin(j), Ctl(j)}
  BY DEF Procs, Restore, Notify, Fin, Ctl
<1>3. /\ CloseOf(j) /\ PlaceOf(j) /\ ShapeOf(j) /\ job[j] \in JobRecord  BY JobFacts
<1>4. ~TaskAlive(j)  BY <1>1, <1>2, <1>3 DEF PlaceOf
<1>5. GoTo(p, IF job[j].status \in {"cancelling", "cancelled"} THEN "close" ELSE "idle")
  BY <1>2 DEF Finalize
<1>6. /\ pc'[p] = IF job[j].status \in {"cancelling", "cancelled"} THEN "close" ELSE "idle"
      /\ \A q \in Own(j) \ {p} : pc'[q] = pc[q]
      /\ \A k \in Jobs \ {j} : \A q \in Own(k) : pc'[q] = pc[q]
  BY <1>1, <1>2, <1>5 DEF GoTo, TypeOK, Own, Task, Fin, Ctl, Procs
<1>7. job[j].task \notin Ending \cup {"created"}  BY <1>4 DEF TaskAlive, DoneTask, Ending
<1>8. CASE job[j].status = "cancelling"
  <2>1. job' = [job EXCEPT ![j].status = "cancelled"]  BY <1>2, <1>8 DEF Finalize
  <2>2. /\ job'[j].status = "cancelled" /\ job'[j].claim = job[j].claim
        /\ job'[j].task = job[j].task /\ job'[j].cancel = job[j].cancel
    BY <1>1, <1>3, <2>1 DEF JobRecord
  <2>3. \A q \in Own(j) : pc[q] \notin Leaving  BY <1>3, <1>8 DEF CloseOf, Terminal, TerminalStatus
  <2>4. SettledOf(j)'
    BY <1>2, <1>6, <1>8, <2>2 DEF SettledOf
  <2>5. CloseOf(j)'
    BY <1>1, <1>3, <1>6, <1>7, <1>8, <2>2, <2>3, <2>4 DEF CloseOf, Leaving
  <2>6. \A k \in Jobs \ {j} : job'[k] = job[k]  BY <1>1, <2>1
  <2>. QED  BY <1>1, <1>6, <2>5, <2>6, OneJobCloses
<1>9. CASE job[j].status # "cancelling"
  <2>1. job' = job  BY <1>2, <1>9 DEF Finalize
  <2>2. SettledOf(j)' \/ faults # 0
    BY <1>1, <1>2, <1>3, <1>4, <1>6, <1>9, <2>1
    DEF CloseOf, SettledOf, TaskAlive, Terminal, Own
  <2>3. CloseOf(j)'
    BY <1>1, <1>2, <1>3, <1>6, <1>7, <2>1, <2>2 DEF CloseOf, Terminal, Leaving, Own
  <2>. QED  BY <1>1, <1>6, <2>1, <2>3, OneJobCloses
<1>. QED  BY <1>8, <1>9

LEMMA FinalizeFaultCloses ==
    ASSUME JInv, CloseInv, NEW p \in Procs, p[1] \in {"fin", "ctl"}, FinalizeFault(p)
    PROVE  CloseInv'
<1>1. TypeOK /\ faults' = faults + 1 /\ faults \in Nat /\ job' = job
  BY BoundAssumption DEF JInv, TypeOK, FinalizeFault
<1>2. \A q \in Procs : q # Notify => pc'[q] \in {pc[q], "idle"} /\ (q # p => pc'[q] = pc[q])
  BY <1>1 DEF FinalizeFault, TypeOK
<1>3. p[1] # "task"  OBVIOUS
<1>4. ASSUME NEW k \in Jobs PROVE CloseOf(k)'
  <2>1. \A q \in Own(k) : q \in Procs /\ q # Notify  BY DEF Own, Task, Fin, Ctl, Procs, Notify
  <2>2. p # Task(k)  BY <1>3 DEF Task
  <2>3. \A q \in Own(k) : pc'[q] \in {pc[q], "idle"} /\ (q # p => pc'[q] = pc[q])
    BY <1>2, <2>1
  <2>. QED
    BY <1>1, <2>2, <2>3 DEF CloseInv, CloseOf, Own, Leaving, Terminal
<1>. QED  BY <1>4 DEF CloseInv

LEMMA InitCloses == Init => CloseInv
BY DEF Init, Unloaded, CloseInv, CloseOf, SettledOf, Own, Ending, Leaving, Terminal,
   TerminalStatus, Task, Fin, Ctl, Procs

LEMMA CloseStep ==
    ASSUME JInv, CloseInv, [Next]_vars
    PROVE  CloseInv'
<1>1. CASE RequestLoad \/ RestartIdle \/ (\E j \in Jobs : RestartLost(j)) \/ UNCHANGED vars
  BY <1>1, CloseKept DEF RequestLoad, RestartIdle, RestartLost, vars, CloseInv
<1>2. CASE RestoreProgress  BY <1>2, RestoreCloses
<1>3. CASE NotifyBoundary  BY <1>3, NotifyCloses
<1>4. CASE Crash  BY <1>4, CrashCloses
<1>5. ASSUME NEW p \in Procs, Progress(p) \/ (p[1] \in {"fin", "ctl"} /\ FinalizeFault(p))
      PROVE  CloseInv'
  BY <1>5, SelectCurrentCloses, SelectOtherwiseCloses, SelectHeadCloses, LaunchCloses,
     HandoverCloses, CloseCloses, FinalizeCloses, FinalizeFaultCloses DEF Progress, Select
<1>6. ASSUME NEW j \in Jobs,
             \/ Admit(j) \/ Control(j) \/ JobProgress(j) \/ ExecutorStep(j) \/ AbandonedStep(j)
             \/ up /\ (TaskTimeout(j) \/ SettleFault(j))
             \/ RestartRestored(j)
      PROVE  CloseInv'
  BY <1>6, AdmitCloses, ControlCloses, TaskCloses, RestartRestoredCloses DEF JobProgress
<1>. QED  BY <1>1, <1>2, <1>3, <1>4, <1>5, <1>6 DEF Next

\* ClaimIsGivenBack: whatever is cancelled, paused, timed out or crashes in
\* between, an ended job has closed its claim or somebody is about to.
THEOREM ClaimsAreGivenBack == Spec => []ClaimIsGivenBack
<1>1. JInv /\ CloseInv /\ [Next]_vars => CloseInv'  BY CloseStep
<1>2. CloseInv => ClaimIsGivenBack  BY DEF CloseInv, CloseOf, SettledOf, ClaimIsGivenBack
<1>. QED  BY <1>1, <1>2, InitCloses, ServiceIsSound, PTL DEF Spec

=============================================================================
