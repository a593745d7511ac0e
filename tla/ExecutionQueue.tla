--------------------------- MODULE ExecutionQueue ---------------------------
(***************************************************************************)
(* The durable execution queue of ONE Thread: the rows of the SQLite table *)
(* execution_queue joined with executions.outcome, the OS execution holder *)
(* of the Thread, and the runtimes (workspace backend processes) that      *)
(* claim, start, execute and converge jobs.                                *)
(*                                                                         *)
(* A row is a job.  The primary key, the phase, the claim owner and the    *)
(* generation are columns; `cursor' is admission_commit_id, the FIFO       *)
(* order.  Every SQLite transaction is one action (BEGIN IMMEDIATE plus    *)
(* the storage lock); everything a runtime does between two transactions   *)
(* is interleaved with the other runtimes, and a runtime may crash between *)
(* any two of them.                                                        *)
(***************************************************************************)
EXTENDS Integers, FiniteSets, ExecutionOutcome

CONSTANTS
    Jobs,           \* the job_ids that may be admitted to this Thread
    Owners,         \* process incarnations: one claim_owner uuid4 each
    NoOwner,        \* SQL NULL in claim_owner, and a free OS holder
    NoJob,          \* no claim in progress, no open claim handle
    MaxGeneration   \* bound on claim_generation (claims per row)

ASSUME OwnerAssumption == NoOwner \notin Owners
ASSUME JobAssumption == NoJob \notin Jobs
ASSUME BoundAssumption == MaxGeneration \in Nat

Phases == {"absent", "queued", "claimed", "started", "terminal"}
ActivePhases == {"claimed", "started"}

\* A record the runtime has never read: it holds no generation to compare.
Unread == -1

VARIABLES
    phase,           \* execution_queue.phase, "absent" before the row exists
    claimOwner,      \* execution_queue.claim_owner
    claimGeneration, \* execution_queue.claim_generation
    outcome,         \* executions.outcome of the row's execution
    cursor,          \* execution_queue.admission_commit_id
    lastCommit,      \* the largest commit id of storage_commits
    holder,          \* the process that has the Thread's OS execution lock
    runtime,         \* life of each process incarnation
    record,          \* per runtime: claim_generation of the ExecutionQueueRecord it read
    claiming,        \* per runtime: job whose claim has the holder but no transaction yet
    handle,          \* per runtime: job of its open ExecutionQueueClaim
    handleGeneration,\* per runtime: claim_generation in that ExecutionQueueClaim
    executing        \* per runtime: jobs whose executor task is alive

rowVars == <<phase, claimOwner, claimGeneration, outcome, cursor>>
runtimeVars == <<holder, runtime, record, claiming, handle,
                 handleGeneration, executing>>
vars == <<phase, claimOwner, claimGeneration, outcome, cursor,
          lastCommit, holder, runtime, record, claiming,
          handle, handleGeneration, executing>>

TypeOK ==
    /\ phase \in [Jobs -> Phases]
    /\ claimOwner \in [Jobs -> Owners \cup {NoOwner}]
    /\ claimGeneration \in [Jobs -> Nat]
    /\ outcome \in [Jobs -> Outcomes]
    /\ cursor \in [Jobs -> Nat]
    /\ lastCommit \in Nat
    /\ holder \in Owners \cup {NoOwner}
    /\ runtime \in [Owners -> {"new", "live", "dead"}]
    /\ record \in [Owners -> [Jobs -> Nat \cup {Unread}]]
    /\ claiming \in [Owners -> Jobs \cup {NoJob}]
    /\ handle \in [Owners -> Jobs \cup {NoJob}]
    /\ handleGeneration \in [Owners -> Nat]
    /\ executing \in [Owners -> SUBSET Jobs]

Init ==
    /\ phase = [j \in Jobs |-> "absent"]
    /\ claimOwner = [j \in Jobs |-> NoOwner]
    /\ claimGeneration = [j \in Jobs |-> 0]
    /\ outcome = [j \in Jobs |-> "unknown"]
    /\ cursor = [j \in Jobs |-> 0]
    /\ lastCommit = 0
    /\ holder = NoOwner
    /\ runtime = [o \in Owners |-> "new"]
    /\ record = [o \in Owners |-> [j \in Jobs |-> Unread]]
    /\ claiming = [o \in Owners |-> NoJob]
    /\ handle = [o \in Owners |-> NoJob]
    /\ handleGeneration = [o \in Owners |-> 0]
    /\ executing = [o \in Owners |-> {}]

-----------------------------------------------------------------------------
(* Reading the queue. *)

\* Rows of the queries "phase<>'terminal'".
Runnable(j) == phase[j] \notin {"absent", "terminal"}

\* ORDER BY admission_commit_id LIMIT 1.
IsHead(j) ==
    /\ Runnable(j)
    /\ \A k \in Jobs : Runnable(k) => cursor[j] <= cursor[k]

\* A process starts with a fresh claim_owner and nothing read.
StartRuntime(o) ==
    /\ runtime[o] = "new"
    /\ runtime' = [runtime EXCEPT ![o] = "live"]
    /\ UNCHANGED <<rowVars, lastCommit, holder, record, claiming, handle, handleGeneration, executing>>

\* PendingRequestStore.records / load / record: the runtime refreshes the
\* records it will claim with.
ReadRecords(o) ==
    /\ runtime[o] = "live"
    /\ record' = [record EXCEPT ![o] =
            [j \in Jobs |-> IF Runnable(j) THEN claimGeneration[j] ELSE @[j]]]
    /\ UNCHANGED <<rowVars, lastCommit, holder, runtime, claiming, handle, handleGeneration, executing>>

-----------------------------------------------------------------------------
(* Publication. *)

\* Mutant: the queue takes the cursor of the commit before its admission.
PublishStaleCursor(o, j) ==
    /\ runtime[o] = "live"
    /\ phase[j] = "absent"
    /\ lastCommit' = lastCommit + 1
    /\ cursor' = [cursor EXCEPT ![j] = lastCommit]
    /\ phase' = [phase EXCEPT ![j] = "queued"]
    /\ record' = [record EXCEPT ![o][j] = 0]
    /\ UNCHANGED <<claimOwner, claimGeneration, outcome, holder, runtime,
                   claiming, handle, handleGeneration, executing>>

\* publish_execution_queue_input, in the admission transaction: the commit
\* cursor of the admission is the FIFO position.  A repeated publication of
\* the same job changes nothing.
Publish(o, j) ==
    /\ runtime[o] = "live"
    /\ phase[j] = "absent"
    /\ lastCommit' = lastCommit + 1
    /\ cursor' = [cursor EXCEPT ![j] = lastCommit + 1]
    /\ phase' = [phase EXCEPT ![j] = "queued"]
    /\ record' = [record EXCEPT ![o][j] = 0]
    /\ UNCHANGED <<claimOwner, claimGeneration, outcome, holder, runtime,
                   claiming, handle, handleGeneration, executing>>

-----------------------------------------------------------------------------
(* Claim, start and release. *)

\* PendingRequestStore.claim, first half: the non-blocking OS holder of the
\* Thread.  A held lock returns None and changes nothing.
AcquireHolder(o, j) ==
    /\ runtime[o] = "live"
    /\ claiming[o] = NoJob
    /\ record[o][j] # Unread
    /\ holder = NoOwner
    /\ holder' = o
    /\ claiming' = [claiming EXCEPT ![o] = j]
    /\ UNCHANGED <<rowVars, lastCommit, runtime, record, handle, handleGeneration, executing>>

\* Mutant: the claim does not compare the row with the FIFO head.
ClaimAnyRow(o, j) ==
    /\ Runnable(j)
    /\ claimGeneration[j] = record[o][j]

\* The conditions claim_execution_queue checks in its transaction: the row is
\* not terminal, its generation is the one the runtime read, and it is the
\* head of the Thread's FIFO.
ClaimAllowed(o, j) ==
    /\ Runnable(j)
    /\ claimGeneration[j] = record[o][j]
    /\ IsHead(j)

\* claim_execution_queue commits: the claim handle is open.
Claim(o) ==
    LET j == claiming[o] IN
    /\ runtime[o] = "live"
    /\ j # NoJob
    /\ ClaimAllowed(o, j)
    /\ claimGeneration[j] < MaxGeneration
    /\ phase' = [phase EXCEPT ![j] = "claimed"]
    /\ claimOwner' = [claimOwner EXCEPT ![j] = o]
    /\ claimGeneration' = [claimGeneration EXCEPT ![j] = @ + 1]
    /\ handle' = [handle EXCEPT ![o] = j]
    /\ handleGeneration' = [handleGeneration EXCEPT ![o] = claimGeneration[j] + 1]
    /\ record' = [record EXCEPT ![o][j] = claimGeneration[j] + 1]
    /\ claiming' = [claiming EXCEPT ![o] = NoJob]
    /\ UNCHANGED <<outcome, cursor, lastCommit, holder, runtime,
                   executing>>

\* claim_execution_queue raises: the except branch gives the holder back.
ClaimRejected(o) ==
    /\ runtime[o] = "live"
    /\ claiming[o] # NoJob
    /\ ~ClaimAllowed(o, claiming[o])
    /\ holder' = NoOwner
    /\ claiming' = [claiming EXCEPT ![o] = NoJob]
    /\ UNCHANGED <<rowVars, lastCommit, runtime, record, handle, handleGeneration, executing>>

\* The WHERE clause of start_execution_queue.
StartMatches(o, j) ==
    /\ phase[j] \in ActivePhases
    /\ claimOwner[j] = o
    /\ claimGeneration[j] = handleGeneration[o]

\* ExecutionQueueClaim.start, then the executor task is created.  A late
\* start whose claim no longer matches raises and starts nothing.
Start(o) ==
    LET j == handle[o] IN
    /\ runtime[o] = "live"
    /\ j # NoJob
    /\ j \notin executing[o]
    /\ StartMatches(o, j)
    /\ phase' = [phase EXCEPT ![j] = "started"]
    /\ executing' = [executing EXCEPT ![o] = @ \cup {j}]
    /\ UNCHANGED <<claimOwner, claimGeneration, outcome, cursor,
                   lastCommit, holder, runtime, record, claiming,
                   handle, handleGeneration>>

\* Mutant: the claim is closed while its executor can still commit.
CloseAnytime(o) ==
    /\ runtime[o] = "live"
    /\ handle[o] # NoJob
    /\ handle' = [handle EXCEPT ![o] = NoJob]
    /\ holder' = NoOwner
    /\ UNCHANGED <<rowVars, lastCommit, runtime, record, claiming, handleGeneration, executing>>

\* ExecutionQueueClaim.close.  The job service closes the claim when the
\* job's executor has ended, or has been abandoned after its terminal
\* outcome was committed (a timed out executor that ignores cancellation).
Close(o) ==
    /\ runtime[o] = "live"
    /\ handle[o] # NoJob
    /\ handle[o] \in executing[o] => phase[handle[o]] = "terminal"
    /\ handle' = [handle EXCEPT ![o] = NoJob]
    /\ holder' = NoOwner
    /\ UNCHANGED <<rowVars, lastCommit, runtime, record, claiming, handleGeneration, executing>>

-----------------------------------------------------------------------------
(* Outcomes. *)

\* UPDATE executions SET outcome with the execution_queue_terminal trigger,
\* which closes the row.
WriteOutcome(j, result) ==
    /\ outcome' = [outcome EXCEPT ![j] = result]
    /\ phase' = [phase EXCEPT ![j] = RowPhaseAfter(@, result)]

\* _converge_execution called by a live executor: an outcome that is already
\* settled is a conflict and raises.
Converge(o, j, result) ==
    /\ runtime[o] = "live"
    /\ j \in executing[o]
    /\ result \in {"completed", "failed", "cancelled", "execution_lost"}
    /\ outcome[j] = "unknown"
    /\ WriteOutcome(j, result)
    /\ UNCHANGED <<claimOwner, claimGeneration, cursor, lastCommit,
                   runtimeVars>>

\* The executor task returns, raises or finally obeys its cancellation.
ExecutorExit(o, j) ==
    /\ runtime[o] = "live"
    /\ j \in executing[o]
    /\ executing' = [executing EXCEPT ![o] = @ \ {j}]
    /\ UNCHANGED <<rowVars, lastCommit, holder, runtime, record,
                   claiming, handle, handleGeneration>>

\* Which status a runtime may write: it cancels a job it knows of, it times
\* out a job it executes, and it declares lost a claimed job it does not run.
MarkGuard(o, j, mark) ==
    \/ mark \in {"failed", "cancelled"} /\ record[o][j] # Unread
    \/ mark = "timed_out" /\ handle[o] = j /\ j \in executing[o]
    \/ mark = "execution_lost" /\ handle[o] = j /\ j \notin executing[o]

\* mark_job_terminal_status: no claim is needed to write it.
MarkTerminal(o, j, mark) ==
    /\ runtime[o] = "live"
    /\ MarkGuard(o, j, mark)
    /\ WriteOutcome(j, MarkedOutcome(outcome[j], mark))
    /\ UNCHANGED <<claimOwner, claimGeneration, cursor, lastCommit,
                   runtimeVars>>

-----------------------------------------------------------------------------
\* The process dies: its executors, its open claim and its OS lock go with
\* it; the rows stay.
Crash(o) ==
    /\ runtime[o] = "live"
    /\ runtime' = [runtime EXCEPT ![o] = "dead"]
    /\ holder' = IF holder = o THEN NoOwner ELSE holder
    /\ claiming' = [claiming EXCEPT ![o] = NoJob]
    /\ handle' = [handle EXCEPT ![o] = NoJob]
    /\ executing' = [executing EXCEPT ![o] = {}]
    /\ UNCHANGED <<rowVars, lastCommit, record, handleGeneration>>

RowStep(o, j) ==
    \/ Publish(o, j)
    \/ AcquireHolder(o, j)
    \/ \E result \in Outcomes : Converge(o, j, result)
    \/ ExecutorExit(o, j)
    \/ \E mark \in TerminalMarks : MarkTerminal(o, j, mark)

RuntimeStep(o) ==
    \/ StartRuntime(o)
    \/ ReadRecords(o)
    \/ Claim(o)
    \/ ClaimRejected(o)
    \/ Start(o)
    \/ Close(o)
    \/ Crash(o)

Next ==
    \/ \E o \in Owners : RuntimeStep(o)
    \/ \E o \in Owners, j \in Jobs : RowStep(o, j)

Spec == Init /\ [][Next]_vars

-----------------------------------------------------------------------------
(* Properties. *)

\* At most one row of the Thread is claimed or started, and it is the head
\* of the FIFO: the unique index execution_queue_single_active never has to
\* reject a claim, across crashes, reclaims and cancellations by others.
ActiveIsHead ==
    \A j \in Jobs : phase[j] \in ActivePhases => IsHead(j)

\* An open claim is fenced: its runtime has the OS holder and, until the
\* outcome is committed, the row carries its owner and generation, so
\* ExecutionQueueClaim.start cannot find its claim invalidated.
HandleFenced ==
    \A o \in Owners : handle[o] # NoJob =>
        /\ holder = o
        /\ phase[handle[o]] # "terminal" => StartMatches(o, handle[o])

\* An executor that can still commit an outcome runs under the open claim of
\* its own runtime: no two runtimes execute one Thread, and an abandoned
\* executor can only meet a settled outcome.
ExecutorFenced ==
    \A o \in Owners : \A j \in executing[o] :
        outcome[j] = "unknown" => handle[o] = j /\ phase[j] = "started"

\* A row is terminal exactly when its execution has an outcome.
TerminalIffSettled ==
    \A j \in Jobs : phase[j] = "terminal" <=> outcome[j] # "unknown"

\* The state invariant: one active row, the head; every claim and every
\* executor is fenced; a row and its execution end together.
QueueInv ==
    /\ TypeOK
    /\ ActiveIsHead
    /\ HandleFenced
    /\ ExecutorFenced
    /\ TerminalIffSettled

\* A row that reached an outcome stays terminal, and the only rewrite of a
\* settled outcome is the control correction of a lost execution.
OutcomeFinal ==
    [][\A j \in Jobs : outcome[j] # "unknown" =>
        /\ phase'[j] = "terminal"
        /\ \/ outcome'[j] = outcome[j]
           \/ outcome[j] = "execution_lost" /\ outcome'[j] \in {"cancelled", "interrupted"}]_vars

\* FIFO: a job starts executing only when every job admitted before it has
\* an outcome, whoever starts it and however often it was reclaimed.
StartsInOrder ==
    [][\A o \in Owners : \A j \in executing'[o] \ executing[o] :
        \A k \in Jobs : phase[k] # "absent" /\ cursor[k] < cursor[j] => outcome[k] # "unknown"]_vars

\* The rows seen through every interleaving of runtimes, claims, crashes and
\* cancellations behave as the abstract queue of the Thread.
Queue == INSTANCE ThreadQueue

ImplementsThreadQueue == Queue!Spec

=============================================================================
