--------------------------- MODULE NavigationQueue ---------------------------
(***************************************************************************)
(* The durable queue of directory operations of a workspace: batches are   *)
(* accepted in one transaction, a worker that holds the owner lock runs    *)
(* them in the order of queue_seq, and every operation ends once, with one *)
(* event, in the transaction that changes the nodes.  A recursive deletion *)
(* spans several transactions: claim, deletion record, mark, settlement.   *)
(***************************************************************************)
EXTENDS Naturals, Sequences, FiniteSetsExt

CONSTANTS
    Ops,         \* operation ids of one client scope
    Deletes,     \* the recursive deletions among them
    Titles,      \* the automatic titles among them
    DependsOn,   \* the operations each one refers to
    Batches,     \* the batches clients send, each a sequence of operations
    Procs,       \* backend processes of the workspace
    Limit,       \* NAVIGATION_BACKPRESSURE_PENDING_LIMIT
    MaxCrashes,  \* bound on the deaths of a worker
    MaxBlocks,   \* bound on deletions refused before their record is opened
    MaxFaults    \* bound on drains that fail

ASSUME KindAssumption == Deletes \subseteq Ops /\ Titles \subseteq Ops \ Deletes
ASSUME DependencyAssumption == DependsOn \in [Ops -> SUBSET Ops]
ASSUME BatchAssumption ==
    \A b \in Batches : b \in Seq(Ops) /\ \A i, j \in DOMAIN b : b[i] = b[j] => i = j
ASSUME ProcsAssumption == "free" \notin Procs
ASSUME BoundAssumption == {Limit, MaxCrashes, MaxBlocks, MaxFaults} \subseteq Nat

VARIABLES
    qseq,     \* queue_seq of each operation, 0 before it is accepted
    op,       \* state, fencing token, holder generation, pending settlement
    sub,      \* state of the subtree deletion record of an operation
    applied,  \* how often the nodes were changed for an operation
    events,   \* how many events of an operation are in the outbox
    gen,      \* durable generation of the queue owner
    lock,     \* the process that holds the owner lock
    worker,   \* of each process: where it is, its generation, the operation
              \* it has claimed, and the deletions it still has to recover
    budget

vars == <<qseq, op, sub, applied, events, gen, lock, worker, budget>>

OpStates == {"none", "queued", "running", "committed", "rejected", "dependency_failed"}
Terminal == {"committed", "rejected", "dependency_failed"}
NoOp == [state |-> "none", token |-> 0, holder |-> 0, pending |-> FALSE]
Stopped == [at |-> "stopped", gen |-> 0, op |-> "none", todo |-> {}]

Init ==
    /\ qseq = [o \in Ops |-> 0]
    /\ op = [o \in Ops |-> NoOp]
    /\ sub = [o \in Ops |-> "none"]
    /\ applied = [o \in Ops |-> 0]
    /\ events = [o \in Ops |-> 0]
    /\ gen = 0
    /\ lock = "free"
    /\ worker = [p \in Procs |-> Stopped]
    /\ budget = [crash |-> MaxCrashes, block |-> MaxBlocks, fault |-> MaxFaults]

(* The worker is ready, idle or inside a deletion.                         *)
Serving == {"ready", "claimed", "opened", "marked", "refused"}

Accepted == {o \in Ops : qseq[o] > 0}
Pending == {o \in Ops : op[o].state \in {"queued", "running"}}

(* The queue_seq of an operation that is not terminal and has none before. *)
IsHead(o) == o \in Pending /\ \A q \in Pending : qseq[o] <= qseq[q]

DependenciesTerminal(o) == \A d \in DependsOn[o] : op[d].state \in Terminal

-----------------------------------------------------------------------------
(* enqueue_batch *)

Position(b, o) == CHOOSE i \in DOMAIN b : b[i] = o
Fresh(b) == {o \in Range(b) : qseq[o] = 0}
Rank(b, o) == Cardinality({q \in Fresh(b) : Position(b, q) <= Position(b, o)})

(* _require_batch_dependencies_precede, _require_dependencies_resolvable.  *)
Resolvable(b, o) ==
    \A d \in DependsOn[o] :
        \/ d \in Accepted
        \/ d \in Range(b) /\ Position(b, d) < Position(b, o)

(* A batch is accepted as a whole or not at all; operations that are known *)
(* keep their record.                                                      *)
Enqueue(b) ==
    /\ \E p \in Procs : worker[p].at \in Serving
    /\ Cardinality(Pending) + Len(b) <= Limit
    /\ \A o \in Fresh(b) : Resolvable(b, o)
    /\ Fresh(b) # {}
    /\ qseq' = [o \in Ops |->
                  IF o \in Fresh(b)
                  THEN Max({qseq[q] : q \in Ops}) + Rank(b, o) ELSE qseq[o]]
    /\ op' = [o \in Ops |->
                IF o \in Fresh(b) THEN [NoOp EXCEPT !.state = "queued"] ELSE op[o]]
    /\ UNCHANGED <<sub, applied, events, gen, lock, worker, budget>>

-----------------------------------------------------------------------------
(* The owner *)

(* Mutant: the generation of the last owner is used again.                 *)
AcquireSameGeneration(p) ==
    /\ worker[p].at = "stopped" /\ lock = "free"
    /\ lock' = p
    /\ gen' = 1
    /\ worker' = [worker EXCEPT ![p] = [Stopped EXCEPT !.at = "recover", !.gen = gen']]
    /\ UNCHANGED <<qseq, op, sub, applied, events, budget>>

(* queue_owner and acquire_owner.                                          *)
AcquireOwner(p) ==
    /\ worker[p].at = "stopped" /\ lock = "free"
    /\ lock' = p
    /\ gen' = gen + 1
    /\ worker' = [worker EXCEPT ![p] = [Stopped EXCEPT !.at = "recover", !.gen = gen']]
    /\ UNCHANGED <<qseq, op, sub, applied, events, budget>>

(* recover_in_flight: what another generation was running is queued again. *)
RecoverInFlight(p) ==
    /\ worker[p].at = "recover" /\ worker[p].gen = gen
    /\ op' = [o \in Ops |->
                IF op[o].state = "running" /\ op[o].holder # gen
                THEN [op[o] EXCEPT !.state = "queued", !.holder = 0] ELSE op[o]]
    /\ worker' = [worker EXCEPT ![p].at = "deletes",
                                ![p].todo = {o \in Ops : sub[o] \in {"preparing", "deleting"}}]
    /\ UNCHANGED <<qseq, sub, applied, events, gen, lock, budget>>

(* recover_pending_subtree_deletes, one record: one whose operation is     *)
(* queued is left to the queue, one that was marked is settled or keeps    *)
(* its failure, and any other one is an error that ends the worker.        *)
RecoverDelete(p, o) ==
    /\ worker[p].at = "deletes" /\ o \in worker[p].todo
    /\ \/ /\ op[o].state \in {"queued", "running"}
          /\ worker' = [worker EXCEPT ![p].todo = @ \ {o}]
          /\ UNCHANGED <<op, sub, lock, budget>>
       \/ /\ op[o].state = "committed"
          /\ sub' = [sub EXCEPT ![o] = "completed"]
          /\ op' = [op EXCEPT ![o].pending = FALSE]
          /\ worker' = [worker EXCEPT ![p].todo = @ \ {o}]
          /\ UNCHANGED <<lock, budget>>
       \/ /\ op[o].state = "committed" /\ budget.fault > 0
          /\ budget' = [budget EXCEPT !.fault = @ - 1]
          /\ worker' = [worker EXCEPT ![p].todo = @ \ {o}]
          /\ UNCHANGED <<op, sub, lock>>
       \/ /\ op[o].state \in {"rejected", "dependency_failed"}
          /\ worker' = [worker EXCEPT ![p] = [Stopped EXCEPT !.at = "failed"]]
          /\ lock' = "free"
          /\ UNCHANGED <<op, sub, budget>>
    /\ UNCHANGED <<qseq, applied, events, gen>>

BecomeReady(p) ==
    /\ worker[p].at = "deletes" /\ worker[p].todo = {}
    /\ worker' = [worker EXCEPT ![p].at = "ready"]
    /\ UNCHANGED <<qseq, op, sub, applied, events, gen, lock, budget>>

-----------------------------------------------------------------------------
(* Ending an operation *)

(* Mutant: only the operations that name o themselves.                     *)
SuccessorsDirect(o) == {q \in Ops : op[q].state = "queued" /\ o \in DependsOn[q]}

(* mark_dependency_failed_successors: the queued operations that depend on *)
(* o, directly or over other queued ones.                                  *)
Poisoned(o, os) ==
    \A q \in Ops : op[q].state = "queued" /\ DependsOn[q] \cap (os \cup {o}) # {} => q \in os
Successors(o) == {q \in Ops : \A os \in SUBSET Ops : Poisoned(o, os) => q \in os} \ {o}

Claim(o) == [op[o] EXCEPT !.state = "running", !.token = @ + 1, !.holder = gen]

EndAs(o, state, pending) == [op[o] EXCEPT !.state = state, !.pending = pending]

AddEvents(os) == events' = [q \in Ops |-> IF q \in os THEN events[q] + 1 ELSE events[q]]

(* Mutant: the successors end without an event.                            *)
RejectSilently(o, token) ==
    /\ op' = [q \in Ops |->
                CASE q = o -> [EndAs(o, "rejected", FALSE) EXCEPT !.token = token, !.holder = gen]
                  [] q \in Successors(o) -> [op[q] EXCEPT !.state = "dependency_failed"]
                  [] OTHER -> op[q]]
    /\ AddEvents({o})

(* _reject: the operation, its successors and their events in one          *)
(* transaction.                                                            *)
Reject(o, token) ==
    /\ op' = [q \in Ops |->
                CASE q = o -> [EndAs(o, "rejected", FALSE) EXCEPT !.token = token, !.holder = gen]
                  [] q \in Successors(o) -> [op[q] EXCEPT !.state = "dependency_failed"]
                  [] OTHER -> op[q]]
    /\ AddEvents({o} \cup Successors(o))

(* next_runnable and claim_running: the head, under the owner's generation. *)
MayRun(p, o) ==
    /\ worker[p].at = "ready" /\ worker[p].gen = gen
    /\ IsHead(o) /\ op[o].state = "queued" /\ DependenciesTerminal(o)

-----------------------------------------------------------------------------
(* create, rename, move, empty folder deletion, title: one transaction *)

CommitEdit(p, o) ==
    /\ MayRun(p, o) /\ o \notin Deletes
    /\ op' = [op EXCEPT ![o] = [Claim(o) EXCEPT !.state = "committed"]]
    /\ applied' = [applied EXCEPT ![o] = @ + 1]
    /\ AddEvents({o})
    /\ UNCHANGED <<qseq, sub, gen, lock, worker, budget>>

RejectEdit(p, o) ==
    /\ MayRun(p, o) /\ o \notin Deletes
    /\ Reject(o, op[o].token + 1)
    /\ UNCHANGED <<qseq, sub, applied, gen, lock, worker, budget>>

(* A title that does not apply any more is rejected in the same            *)
(* transaction, without its successors.                                    *)
DropTitle(p, o) ==
    /\ MayRun(p, o) /\ o \in Titles
    /\ op' = [op EXCEPT ![o] = [Claim(o) EXCEPT !.state = "rejected"]]
    /\ AddEvents({o})
    /\ UNCHANGED <<qseq, sub, applied, gen, lock, worker, budget>>

-----------------------------------------------------------------------------
(* _execute_delete *)

Goto(p, l, o) == worker' = [worker EXCEPT ![p] = [@ EXCEPT !.at = l, !.op = o]]

ClaimDelete(p, o) ==
    /\ MayRun(p, o) /\ o \in Deletes
    /\ op' = [op EXCEPT ![o] = Claim(o)]
    /\ Goto(p, "claimed", o)
    /\ UNCHANGED <<qseq, sub, applied, events, gen, lock, budget>>

(* _run_shared_delete raises before the deletion: a background task runs.  *)
BlockDelete(p) ==
    /\ worker[p].at = "claimed" /\ budget.block > 0
    /\ budget' = [budget EXCEPT !.block = @ - 1]
    /\ Goto(p, "refused", worker[p].op)
    /\ UNCHANGED <<qseq, op, sub, applied, events, gen, lock>>

(* create_or_get_subtree_delete_record.                                    *)
OpenDelete(p) ==
    LET o == worker[p].op IN
    /\ worker[p].at = "claimed"
    /\ sub' = [sub EXCEPT ![o] = IF @ = "none" THEN "preparing" ELSE @]
    /\ Goto(p, IF sub[o] = "aborted" THEN "refused" ELSE "opened", o)
    /\ UNCHANGED <<qseq, op, applied, events, gen, lock, budget>>

(* Mutant: the receipt is written after the mark, in a transaction of its  *)
(* own.                                                                    *)
MarkWithoutReceipt(p) ==
    /\ worker[p].at = "opened"
    /\ sub' = [sub EXCEPT ![worker[p].op] = "deleting"]
    /\ applied' = [applied EXCEPT ![worker[p].op] = @ + 1]
    /\ Goto(p, "marked", worker[p].op)
    /\ UNCHANGED <<qseq, op, events, gen, lock, budget>>

(* The mark and, in its hook, the committed receipt and the event.         *)
MarkDelete(p) ==
    LET o == worker[p].op IN
    /\ worker[p].at = "opened" /\ worker[p].gen = gen
    /\ sub[o] = "preparing" /\ op[o].state = "running"
    /\ sub' = [sub EXCEPT ![o] = "deleting"]
    /\ op' = [op EXCEPT ![o] = EndAs(o, "committed", TRUE)]
    /\ applied' = [applied EXCEPT ![o] = @ + 1]
    /\ AddEvents({o})
    /\ Goto(p, "marked", o)
    /\ UNCHANGED <<qseq, gen, lock, budget>>

(* The mark is refused (a claim, a drifted revision): the record is closed *)
(* in one transaction, the operation in the next.                          *)
AbortDelete(p) ==
    LET o == worker[p].op IN
    /\ worker[p].at = "opened" /\ sub[o] = "preparing"
    /\ sub' = [sub EXCEPT ![o] = "aborted"]
    /\ Goto(p, "refused", o)
    /\ UNCHANGED <<qseq, op, applied, events, gen, lock, budget>>

RejectDelete(p) ==
    LET o == worker[p].op IN
    /\ worker[p].at = "refused" /\ worker[p].gen = gen /\ op[o].state = "running"
    /\ Reject(o, op[o].token)
    /\ Goto(p, "ready", "none")
    /\ UNCHANGED <<qseq, sub, applied, gen, lock, budget>>

(* finish_subtree_delete with the settlement hook, or a failure that stays *)
(* in the receipt until the next start.                                    *)
SettleDelete(p) ==
    LET o == worker[p].op IN
    /\ worker[p].at = "marked" /\ worker[p].gen = gen
    /\ sub' = [sub EXCEPT ![o] = "completed"]
    /\ op' = [op EXCEPT ![o].pending = FALSE]
    /\ Goto(p, "ready", "none")
    /\ UNCHANGED <<qseq, applied, events, gen, lock, budget>>

FailSettlement(p) ==
    /\ worker[p].at = "marked" /\ budget.fault > 0
    /\ budget' = [budget EXCEPT !.fault = @ - 1]
    /\ Goto(p, "ready", "none")
    /\ UNCHANGED <<qseq, op, sub, applied, events, gen, lock>>

-----------------------------------------------------------------------------

(* The process dies or is stopped; the OS gives the lock back.             *)
WorkerDies(p) ==
    /\ worker[p].at # "stopped" /\ budget.crash > 0
    /\ budget' = [budget EXCEPT !.crash = @ - 1]
    /\ worker' = [worker EXCEPT ![p] = Stopped]
    /\ lock' = IF lock = p THEN "free" ELSE lock
    /\ UNCHANGED <<qseq, op, sub, applied, events, gen>>

Run(p) ==
    \/ RecoverInFlight(p) \/ BecomeReady(p)
    \/ \E o \in Ops : RecoverDelete(p, o) \/ CommitEdit(p, o) \/ RejectEdit(p, o)
                      \/ DropTitle(p, o) \/ ClaimDelete(p, o)
    \/ OpenDelete(p) \/ MarkDelete(p) \/ AbortDelete(p) \/ RejectDelete(p)
    \/ SettleDelete(p)

Next ==
    \/ \E b \in Batches : Enqueue(b)
    \/ \E p \in Procs :
        AcquireOwner(p) \/ Run(p) \/ BlockDelete(p) \/ FailSettlement(p) \/ WorkerDies(p)

Spec == Init /\ [][Next]_vars

(* The worker goes on, and a process that was stopped is started again.    *)
Fairness == \A p \in Procs : WF_vars(Run(p)) /\ SF_vars(AcquireOwner(p))

FairSpec == Spec /\ Fairness

-----------------------------------------------------------------------------
(* Properties *)

TypeOK ==
    /\ qseq \in [Ops -> Nat]
    /\ op \in [Ops -> [state : OpStates, token : Nat, holder : Nat, pending : BOOLEAN]]
    /\ sub \in [Ops -> {"none", "preparing", "deleting", "completed", "aborted"}]
    /\ applied \in [Ops -> Nat] /\ events \in [Ops -> Nat]
    /\ gen \in Nat /\ lock \in Procs \cup {"free"}
    /\ \A p \in Procs :
        /\ worker[p].at \in {"stopped", "failed", "recover", "deletes", "ready",
                             "claimed", "opened", "marked", "refused"}
        /\ worker[p].gen <= gen /\ worker[p].todo \subseteq Ops
        /\ worker[p].op \in Ops \cup {"none"}

(* Operations end in the order they were accepted: when one runs or was    *)
(* executed, every earlier one has ended; and what an operation refers to  *)
(* was accepted before it, so that the head can always run.                *)
InOrder ==
    \A o \in Accepted :
        /\ op[o].state \in {"running", "committed", "rejected"} =>
            \A q \in Accepted : qseq[q] < qseq[o] => op[q].state \in Terminal
        /\ \A d \in DependsOn[o] : d \in Accepted /\ qseq[d] < qseq[o]

(* An operation changes the nodes once, and exactly when its receipt says  *)
(* committed; every ended operation has one event and no other has one.    *)
AppliedOnce ==
    \A o \in Ops :
        /\ applied[o] = IF op[o].state = "committed" THEN 1 ELSE 0
        /\ events[o] = IF op[o].state \in Terminal THEN 1 ELSE 0

(* The receipt of a deletion tells the state of its record: committed from *)
(* the mark on, and pending until it is settled.                           *)
ReceiptIsMark ==
    \A o \in Deletes :
        /\ op[o].state = "committed" <=> sub[o] \in {"deleting", "completed"}
        /\ op[o].pending <=> sub[o] = "deleting"

(* No operation is orphaned: while a worker serves the queue, an operation *)
(* that is running is the one this worker has claimed, whoever ran before. *)
OneOwner ==
    \A p \in Procs : worker[p].at \in Serving =>
        /\ lock = p /\ worker[p].gen = gen
        /\ \A o \in Ops : op[o].state = "running" => worker[p].op = o

(* The state invariant: one owner runs the operations in order, and a      *)
(* receipt tells the state of its deletion.                                *)
NavigationInv ==
    /\ TypeOK
    /\ InOrder
    /\ ReceiptIsMark
    /\ OneOwner

(* Every accepted operation ends, over deaths of the worker, unless an     *)
(* operation was rejected while its deletion record is still open: every   *)
(* later start fails on that pair (recover_pending_subtree_deletes).       *)
EveryOperationEnds ==
    \A o \in Ops : op[o].state = "queued" ~>
        \/ op[o].state \in Terminal
        \/ \E d \in Deletes : op[d].state = "rejected" /\ sub[d] = "preparing"

(* A failure reaches what waits for it: when an operation other than a     *)
(* title is rejected, every accepted operation that depends on it, or on   *)
(* one that fails with it, has failed in the same step.                    *)
FailureReachesSuccessors ==
    [][\A d \in Ops \ Titles : op[d].state # "rejected" /\ op'[d].state = "rejected" =>
        \A o \in Accepted : \A x \in DependsOn[o] :
            x = d \/ (op[x].state = "queued" /\ op'[x].state = "dependency_failed")
                => op'[o].state = "dependency_failed"]_vars
=============================================================================
