-------------------------- MODULE SessionAdmission --------------------------
(***************************************************************************)
(* The storage windows of JobService over several Sessions: preparation    *)
(* windows (message writes, reloads of the pending queue, which may nest), *)
(* idle operations (checkpoint compaction, storage moves), the deletion of *)
(* a set of Sessions with the settlement of their jobs, and the closing of *)
(* admission for a restart.                                                *)
(*                                                                         *)
(* `_dispatch_lock' is an asyncio.Lock.  A section without an await on     *)
(* another coroutine is one action that needs the lock to be free; an idle *)
(* operation keeps the lock while it runs.  `_preparation_changed' is a    *)
(* condition on the same lock: a sleeping deletion is awake only after a   *)
(* notify_all, and then checks its predicate again.                        *)
(***************************************************************************)
EXTENDS Naturals, FiniteSets

CONSTANTS
    Sessions,
    Clients,        \* coroutines that call the job service
    NoClient,
    MaxDepth,       \* nesting of preparation windows: start_job runs list
    MaxLateCancels  \* bound on the cancellations, in each Session, that reach
                    \* a coroutine while the finally clause of its window
                    \* waits for the lock

ASSUME ClientsAssumption == IsFiniteSet(Clients)
ASSUME NoClientAssumption == NoClient \notin Clients
ASSUME DepthAssumption == MaxDepth \in Nat \ {0}
ASSUME LateCancelAssumption == MaxLateCancels \in Nat

VARIABLES
    lock,           \* the client that keeps _dispatch_lock across an await
    accepting,      \* _accepting_jobs
    deleting,       \* _deleting_sessions
    preparations,   \* _session_preparations
    closed,         \* Sessions whose catalog node is marked deleting
    queued,         \* Sessions with a queued job
    slot,           \* the active slot of each Session
    client,         \* what each client is doing, on which Sessions
    leaked          \* observation: windows of each Session that ended without
                    \* giving back their count

jobVars == <<queued, slot>>
vars == <<lock, accepting, deleting, preparations, closed, jobVars, client, leaked>>

Idle == [pc |-> "out", on |-> {}, depth |-> 0]

(* A client is inside a window, storing a job in it, in the finally        *)
(* clause of a window, in an idle operation, and the stages of a deletion: *)
(* asleep on the condition, awake, deleting, with the catalog marked, with *)
(* the jobs cancelled, with the jobs settled, and in its except clause.    *)
WindowPc == {"inside", "admitting", "leaving"}
WaitingPc == {"asleep", "awake"}
DeletingPc == {"delete", "marked", "cancelled", "settled"}
DeletionPc == WaitingPc \cup DeletingPc \cup {"failed"}
Pcs == {"out", "idle"} \cup WindowPc \cup DeletionPc

Slots == {"free", "reserved", "running", "cancelling", "ended"}

Init ==
    /\ lock = NoClient
    /\ accepting = TRUE
    /\ deleting = {}
    /\ preparations = [s \in Sessions |-> 0]
    /\ closed = {}
    /\ queued = {}
    /\ slot = [s \in Sessions |-> "free"]
    /\ client = [c \in Clients |-> Idle]
    /\ leaked = [s \in Sessions |-> 0]

-----------------------------------------------------------------------------
(* Preparation windows *)

(* The checks of run_session_preparation; `restoring' is the reload that   *)
(* skips the admission check.                                              *)
MayOpen(s, restoring) ==
    /\ restoring \/ accepting
    /\ s \notin closed
    /\ s \notin deleting

OpenWindow(c, s, restoring) ==
    /\ client[c] = Idle
    /\ lock = NoClient
    /\ MayOpen(s, restoring)
    /\ preparations' = [preparations EXCEPT ![s] = @ + 1]
    /\ client' = [client EXCEPT ![c] = [pc |-> "inside", on |-> {s}, depth |-> 1]]
    /\ UNCHANGED <<lock, accepting, deleting, closed, jobVars, leaked>>

(* The operation of a window opens another window of the same Session. A   *)
(* refusal raises through the outer operation, which ends.                 *)
Nest(c, restoring) ==
    /\ client[c].pc = "inside" /\ client[c].depth < MaxDepth
    /\ lock = NoClient
    /\ \E s \in client[c].on :
        \/ /\ MayOpen(s, restoring)
           /\ preparations' = [preparations EXCEPT ![s] = @ + 1]
           /\ client' = [client EXCEPT ![c].depth = @ + 1]
        \/ /\ ~MayOpen(s, restoring)
           /\ client' = [client EXCEPT ![c].pc = "leaving"]
           /\ UNCHANGED preparations
    /\ UNCHANGED <<lock, accepting, deleting, closed, jobVars, leaked>>

(* A window starts a job: _start_job_prepared checks the Session again and *)
(* raises, or goes on to commit the job outside the lock, when the checks  *)
(* may be stale: only the open window keeps a deletion waiting.            *)
StartJob(c) ==
    /\ client[c].pc = "inside"
    /\ lock = NoClient
    /\ \E s \in client[c].on :
        client' = [client EXCEPT ![c].pc = IF MayOpen(s, FALSE) THEN "admitting" ELSE "leaving"]
    /\ UNCHANGED <<lock, accepting, deleting, preparations, closed, jobVars, leaked>>

CommitJob(c) ==
    /\ client[c].pc = "admitting"
    /\ queued' = queued \cup client[c].on
    /\ client' = [client EXCEPT ![c].pc = "inside"]
    /\ UNCHANGED <<lock, accepting, deleting, preparations, closed, slot, leaked>>

(* The operation returns, raises or is cancelled.                          *)
EndOperation(c) ==
    /\ client[c].pc = "inside"
    /\ client' = [client EXCEPT ![c].pc = "leaving"]
    /\ UNCHANGED <<lock, accepting, deleting, preparations, closed, jobVars, leaked>>

(* The client after one of its windows is closed.                          *)
Left(c) ==
    IF client[c].depth = 1 THEN Idle
    ELSE [client[c] EXCEPT !.pc = "inside", !.depth = @ - 1]

(* notify_all on _preparation_changed                                      *)
NotifyAll(clients) ==
    [c \in Clients |->
        IF clients[c].pc = "asleep" THEN [clients[c] EXCEPT !.pc = "awake"] ELSE clients[c]]

(* Mutant: the waiting deletion is not told.                               *)
CloseWindowSilently(c) ==
    /\ client[c].pc = "leaving"
    /\ lock = NoClient
    /\ \E s \in client[c].on : preparations' = [preparations EXCEPT ![s] = @ - 1]
    /\ client' = [client EXCEPT ![c] = Left(c)]
    /\ UNCHANGED <<lock, accepting, deleting, closed, jobVars, leaked>>

CloseWindow(c) ==
    /\ client[c].pc = "leaving"
    /\ lock = NoClient
    /\ \E s \in client[c].on : preparations' = [preparations EXCEPT ![s] = @ - 1]
    /\ client' = NotifyAll([client EXCEPT ![c] = Left(c)])
    /\ UNCHANGED <<lock, accepting, deleting, closed, jobVars, leaked>>

(* The finally clause is cancelled while it waits for the lock: the count  *)
(* is never given back.  A free lock is taken without suspending.          *)
CancelInFinally(c) ==
    /\ client[c].pc = "leaving"
    /\ lock # NoClient
    /\ \E s \in client[c].on :
        leaked[s] < MaxLateCancels /\ leaked' = [leaked EXCEPT ![s] = @ + 1]
    /\ client' = [client EXCEPT ![c] = Left(c)]
    /\ UNCHANGED <<lock, accepting, deleting, preparations, closed, jobVars>>

-----------------------------------------------------------------------------
(* Idle operations hold the lock until they return or raise                *)

MayIdle(s) == s \notin deleting /\ preparations[s] = 0 /\ slot[s] = "free"

BeginIdle(c, ss) ==
    /\ client[c] = Idle
    /\ lock = NoClient
    /\ \A s \in ss : MayIdle(s)
    /\ lock' = c
    /\ client' = [client EXCEPT ![c] = [pc |-> "idle", on |-> ss, depth |-> 0]]
    /\ UNCHANGED <<accepting, deleting, preparations, closed, jobVars, leaked>>

EndIdle(c) ==
    /\ client[c].pc = "idle"
    /\ lock' = NoClient
    /\ client' = [client EXCEPT ![c] = Idle]
    /\ UNCHANGED <<accepting, deleting, preparations, closed, jobVars, leaked>>

-----------------------------------------------------------------------------
(* Deletion of a set of Sessions *)

BeginDelete(c, ss) ==
    /\ client[c] = Idle
    /\ lock = NoClient
    /\ ss \cap deleting = {}
    /\ deleting' = deleting \cup ss
    /\ client' = [client EXCEPT ![c] = [pc |-> "awake", on |-> ss, depth |-> 0]]
    /\ UNCHANGED <<lock, accepting, preparations, closed, jobVars, leaked>>

(* Mutant: any drained Session is enough.                                  *)
DrainedAny(ss) == \E s \in ss : preparations[s] = 0

Drained(ss) == \A s \in ss : preparations[s] = 0

(* wait_for: evaluate the predicate under the lock, then go on or sleep.   *)
WaitForWindows(c) ==
    /\ client[c].pc = "awake"
    /\ lock = NoClient
    /\ client' = [client EXCEPT ![c].pc = IF Drained(client[c].on) THEN "delete" ELSE "asleep"]
    /\ UNCHANGED <<lock, accepting, deleting, preparations, closed, jobVars, leaked>>

(* The operation marks the catalog nodes.                                  *)
MarkCatalog(c) ==
    /\ client[c].pc = "delete"
    /\ closed' = closed \cup client[c].on
    /\ client' = [client EXCEPT ![c].pc = "marked"]
    /\ UNCHANGED <<lock, accepting, deleting, preparations, jobVars, leaked>>

(* Mutant: only jobs with a slot are cancelled.                            *)
CancelJobsKeepsQueue(c) ==
    /\ client[c].pc = "marked"
    /\ lock = NoClient
    /\ slot' = [s \in Sessions |->
                  IF s \in client[c].on /\ slot[s] \in {"reserved", "running"}
                  THEN "cancelling" ELSE slot[s]]
    /\ client' = [client EXCEPT ![c].pc = "cancelled"]
    /\ UNCHANGED <<lock, accepting, deleting, preparations, closed, queued, leaked>>

(* delete_session_jobs, first section: jobs without a task are cancelled   *)
(* on the spot, a reserved one leaving its id in the slot; a running one   *)
(* is asked to end.                                                        *)
CancelJobs(c) ==
    /\ client[c].pc = "marked"
    /\ lock = NoClient
    /\ queued' = queued \ client[c].on
    /\ slot' = [s \in Sessions |->
                  IF s \notin client[c].on THEN slot[s]
                  ELSE CASE slot[s] = "reserved" -> "ended"
                         [] slot[s] = "running" -> "cancelling"
                         [] OTHER -> slot[s]]
    /\ client' = [client EXCEPT ![c].pc = "cancelled"]
    /\ UNCHANGED <<lock, accepting, deleting, preparations, closed, leaked>>

(* Second section, once every task has ended: the slots are removed.       *)
SettleJobs(c) ==
    /\ client[c].pc = "cancelled"
    /\ lock = NoClient
    /\ \A s \in client[c].on : slot[s] \in {"free", "ended"}
    /\ slot' = [s \in Sessions |-> IF s \in client[c].on THEN "free" ELSE slot[s]]
    /\ client' = [client EXCEPT ![c].pc = "settled"]
    /\ UNCHANGED <<lock, accepting, deleting, preparations, closed, queued, leaked>>

(* Success: the Sessions stay in _deleting_sessions.                       *)
EndDelete(c) ==
    /\ client[c].pc = "settled"
    /\ client' = [client EXCEPT ![c] = Idle]
    /\ UNCHANGED <<lock, accepting, deleting, preparations, closed, jobVars, leaked>>

(* The wait is cancelled, or the operation raises at any stage.            *)
RaiseDelete(c) ==
    /\ client[c].pc \in WaitingPc \cup DeletingPc
    /\ client' = [client EXCEPT ![c].pc = "failed"]
    /\ UNCHANGED <<lock, accepting, deleting, preparations, closed, jobVars, leaked>>

ReopenDelete(c) ==
    /\ client[c].pc = "failed"
    /\ lock = NoClient
    /\ deleting' = deleting \ client[c].on
    /\ client' = [client EXCEPT ![c] = Idle]
    /\ UNCHANGED <<lock, accepting, preparations, closed, jobVars, leaked>>

-----------------------------------------------------------------------------
(* Dispatch of the jobs of a Session, seen from its slot *)

ReserveSlot(s) ==
    /\ lock = NoClient
    /\ s \in queued \ deleting
    /\ slot[s] \in {"free", "ended"}
    /\ queued' = queued \ {s}
    /\ slot' = [slot EXCEPT ![s] = "reserved"]
    /\ UNCHANGED <<lock, accepting, deleting, preparations, closed, client, leaked>>

(* The second section of _start_next_pending does not look at deleting.    *)
LaunchJob(s) ==
    /\ lock = NoClient
    /\ slot[s] = "reserved"
    /\ slot' = [slot EXCEPT ![s] = "running"]
    /\ UNCHANGED <<lock, accepting, deleting, preparations, closed, queued, client, leaked>>

(* A job ends by itself or as asked.  Its id leaves the slot, or stays     *)
(* there for the dispatch of the next queued job to replace.               *)
JobEnds(s) ==
    /\ lock = NoClient
    /\ slot[s] \in {"running", "cancelling"}
    /\ slot' = [slot EXCEPT ![s] = IF s \in queued THEN "ended" ELSE "free"]
    /\ UNCHANGED <<lock, accepting, deleting, preparations, closed, queued, client, leaked>>

-----------------------------------------------------------------------------
(* close_admission and open_admission, without the lock *)

SetAdmission ==
    /\ accepting' = ~accepting
    /\ UNCHANGED <<lock, deleting, preparations, closed, jobVars, client, leaked>>

Next ==
    \/ \E c \in Clients :
        \/ \E s \in Sessions, restoring \in BOOLEAN : OpenWindow(c, s, restoring)
        \/ \E restoring \in BOOLEAN : Nest(c, restoring)
        \/ StartJob(c) \/ CommitJob(c) \/ EndOperation(c) \/ CloseWindow(c) \/ CancelInFinally(c)
        \/ \E ss \in SUBSET Sessions \ {{}} : BeginIdle(c, ss) \/ BeginDelete(c, ss)
        \/ EndIdle(c)
        \/ WaitForWindows(c) \/ MarkCatalog(c) \/ CancelJobs(c) \/ SettleJobs(c)
        \/ EndDelete(c) \/ RaiseDelete(c) \/ ReopenDelete(c)
    \/ \E s \in Sessions : ReserveSlot(s) \/ LaunchJob(s) \/ JobEnds(s)
    \/ SetAdmission

Spec == Init /\ [][Next]_vars

(* What a client does without the lock, and the sections it waits to enter *)
(* with the lock; its pc allows one of each.                               *)
OwnStep(c) == EndOperation(c) \/ CommitJob(c) \/ EndIdle(c) \/ MarkCatalog(c) \/ EndDelete(c)
LockSection(c) ==
    CloseWindow(c) \/ WaitForWindows(c) \/ CancelJobs(c) \/ SettleJobs(c) \/ ReopenDelete(c)

(* Operations end: they are bounded I/O, and an executor obeys its         *)
(* cancellation.  The lock serves its waiters first come first served, so  *)
(* a section that waits for it is strongly fair.  Nothing forces a client  *)
(* to call, an operation to raise, a window to nest or a deletion to fail. *)
Fairness ==
    /\ \A c \in Clients : SF_vars(OwnStep(c) \/ LockSection(c))
    /\ \A s \in Sessions : SF_vars(JobEnds(s))

FairSpec == Spec /\ Fairness

-----------------------------------------------------------------------------
(* Properties *)

TypeOK ==
    /\ lock \in Clients \cup {NoClient}
    /\ accepting \in BOOLEAN
    /\ deleting \subseteq Sessions
    /\ preparations \in [Sessions -> Nat]
    /\ closed \subseteq Sessions
    /\ queued \subseteq Sessions
    /\ slot \in [Sessions -> Slots]
    /\ leaked \in [Sessions -> 0..MaxLateCancels]
    /\ client \in [Clients -> [pc : Pcs, on : SUBSET Sessions, depth : 0..MaxDepth]]

(* The clients with an open window of a Session.                           *)
Windows(s) == {c \in Clients : client[c].pc \in WindowPc /\ s \in client[c].on}

(* The open windows of a Session, one for each level of nesting.           *)
OpenWindows(s) ==
    {w \in Clients \X (1..MaxDepth) : w[1] \in Windows(s) /\ w[2] <= client[w[1]].depth}

(* run_sessions_delete_operation: while the deletion of a Session runs, no *)
(* window, no idle operation and no other deletion of it is open.          *)
DeletionAlone ==
    \A c \in Clients : client[c].pc \in DeletingPc =>
        \A s \in client[c].on :
            /\ Windows(s) = {}
            /\ \A d \in Clients \ {c} :
                client[d].pc \in DeletionPc \cup {"idle"} => s \notin client[d].on

(* run_session_idle_operation: while an operation on idle Sessions runs,   *)
(* none of them has a window, a job in its slot or a deletion, whatever    *)
(* the clients that wait for the lock do.                                  *)
IdleAlone ==
    \A c \in Clients : client[c].pc = "idle" =>
        \A s \in client[c].on :
            Windows(s) = {} /\ slot[s] = "free" /\ s \notin deleting

(* _session_preparations counts exactly the open windows, nested ones too, *)
(* and those whose count was lost to a late cancellation.                  *)
CountsAreWindows ==
    \A s \in Sessions : preparations[s] = leaked[s] + Cardinality(OpenWindows(s))

(* The state invariant: deletions and idle operations exclude every other  *)
(* use of their Sessions, and the counts that decide it are those of the   *)
(* open windows (prepare_start, run_sessions_delete_operation).            *)
AdmissionInv ==
    /\ TypeOK
    /\ DeletionAlone
    /\ IdleAlone
    /\ CountsAreWindows

(* A Session whose deletion has returned stays empty: no window, no queued *)
(* job and no job in its slot, however long other clients go on.           *)
DeletedStaysEmpty ==
    \A s \in closed \cap deleting :
        (\A c \in Clients : client[c].pc \in DeletionPc => s \notin client[c].on) =>
            /\ Windows(s) = {}
            /\ s \notin queued
            /\ slot[s] = "free"

(* No wake-up is lost: a deletion that sleeps on _preparation_changed has  *)
(* a cause, a window that will notify it when it closes or a count that a  *)
(* late cancellation took away.  It never sleeps over drained Sessions.    *)
SleepHasCause ==
    \A c \in Clients : client[c].pc = "asleep" =>
        \E s \in client[c].on : Windows(s) # {} \/ leaked[s] > 0

(* run_sessions_delete_operation comes to an end, settled or given back:   *)
(* new windows are refused, nested ones raise, each that closes wakes the  *)
(* deletion, and the jobs end.  Only a count that a late cancellation took *)
(* away (CancelInFinally) keeps a deletion of its Session waiting.         *)
DeletionEnds ==
    \A c \in Clients :
        client[c].pc \in DeletionPc ~>
            \/ client[c].pc = "out"
            \/ client[c].pc \in WaitingPc /\ \E s \in client[c].on : leaked[s] > 0
=============================================================================
