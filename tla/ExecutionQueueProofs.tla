------------------------ MODULE ExecutionQueueProofs ------------------------
(***************************************************************************)
(* Proofs about ExecutionQueue for any set of jobs, any number of process  *)
(* incarnations and any bound on the generations, and about PendingPolicy, *)
(* what clients see of the queues of several Threads, for any number of    *)
(* clients, requests and Threads.                                          *)
(*                                                                         *)
(* ActiveIsHead, HandleFenced and ExecutorFenced are not inductive by      *)
(* themselves: they need that the cursors are a strict order bounded by    *)
(* the last commit, and that a claim in progress and an open claim both    *)
(* have the OS holder and exclude each other.                              *)
(***************************************************************************)
EXTENDS ExecutionQueue, PendingPolicy, WellFoundedInduction, TLAPS

\* Admission cursors are positive, bounded by the last commit and distinct.
CursorsOrdered ==
    /\ \A j \in Jobs : cursor[j] <= lastCommit
    /\ \A j \in Jobs : phase[j] # "absent" => cursor[j] > 0
    /\ \A j, k \in Jobs : phase[j] # "absent" /\ cursor[j] = cursor[k] => j = k

\* Only the holder claims or has an open claim, and never both at once.
HolderExclusive ==
    \A o \in Owners :
        /\ claiming[o] # NoJob => holder = o /\ handle[o] = NoJob
        /\ handle[o] # NoJob => holder = o

\* A runtime only knows rows that exist.
KnownRowsExist ==
    /\ \A o \in Owners, j \in Jobs : record[o][j] # Unread => phase[j] # "absent"
    /\ \A o \in Owners : handle[o] # NoJob => phase[handle[o]] # "absent"
    /\ \A o \in Owners : \A j \in executing[o] : phase[j] # "absent"

IInv ==
    /\ TypeOK
    /\ TerminalIffSettled
    /\ CursorsOrdered
    /\ HolderExclusive
    /\ KnownRowsExist
    /\ ActiveIsHead
    /\ HandleFenced
    /\ ExecutorFenced

USE OwnerAssumption, JobAssumption, BoundAssumption

-----------------------------------------------------------------------------
(* The operators of ExecutionOutcome. *)

\* A terminal mark yields an outcome, never takes a settled execution back to
\* unknown, and rewrites only a lost execution (mark_job_terminal_status).
LEMMA MarkedOutcomeFacts ==
    ASSUME NEW current \in Outcomes, NEW mark \in TerminalMarks
    PROVE  /\ MarkedOutcome(current, mark) \in Outcomes
           /\ current # "unknown" => MarkedOutcome(current, mark) # "unknown"
           /\ MarkedOutcome(current, mark) # current =>
                /\ current \in {"unknown", "execution_lost"}
                /\ MarkedOutcome(current, mark) \in {"cancelled", "interrupted", "execution_lost"}
BY DEF Outcomes, TerminalMarks, MarkedOutcome, OutcomeOf

\* The trigger closes exactly the rows of settled executions.
LEMMA RowPhaseFacts ==
    ASSUME NEW p \in Phases, NEW result \in Outcomes
    PROVE  /\ RowPhaseAfter(p, result) \in Phases
           /\ result # "unknown" => RowPhaseAfter(p, result) = "terminal"
           /\ result = "unknown" => RowPhaseAfter(p, result) = p
BY DEF Phases, Outcomes, RowPhaseAfter

-----------------------------------------------------------------------------
(* Type correctness. *)

\* The empty queue with no process started has the types.
LEMMA InitType == Init => TypeOK
BY DEF Init, TypeOK, Phases, Outcomes, Unread

\* Every step of every runtime preserves the type invariant.
LEMMA NextType == TypeOK /\ [Next]_vars => TypeOK'
<1> SUFFICES ASSUME TypeOK, [Next]_vars PROVE TypeOK'
    OBVIOUS
<1>1. ASSUME NEW o \in Owners, StartRuntime(o) PROVE TypeOK'
    BY <1>1 DEF TypeOK, StartRuntime, rowVars
<1>2. ASSUME NEW o \in Owners, ReadRecords(o) PROVE TypeOK'
    BY <1>2 DEF TypeOK, ReadRecords, rowVars
<1>3. ASSUME NEW o \in Owners, Claim(o) PROVE TypeOK'
    BY <1>3 DEF TypeOK, Claim, Phases
<1>4. ASSUME NEW o \in Owners, ClaimRejected(o) PROVE TypeOK'
    BY <1>4 DEF TypeOK, ClaimRejected, rowVars
<1>5. ASSUME NEW o \in Owners, Start(o) PROVE TypeOK'
    BY <1>5 DEF TypeOK, Start, Phases
<1>6. ASSUME NEW o \in Owners, Close(o) PROVE TypeOK'
    BY <1>6 DEF TypeOK, Close, rowVars
<1>7. ASSUME NEW o \in Owners, Crash(o) PROVE TypeOK'
    BY <1>7 DEF TypeOK, Crash, rowVars
<1>8. ASSUME NEW o \in Owners, NEW j \in Jobs, Publish(o, j) PROVE TypeOK'
    BY <1>8 DEF TypeOK, Publish, Phases
<1>9. ASSUME NEW o \in Owners, NEW j \in Jobs, AcquireHolder(o, j) PROVE TypeOK'
    BY <1>9 DEF TypeOK, AcquireHolder, rowVars
<1>10. ASSUME NEW o \in Owners, NEW j \in Jobs, NEW result \in Outcomes, Converge(o, j, result)
       PROVE TypeOK'
    BY <1>10, RowPhaseFacts DEF TypeOK, Converge, WriteOutcome, runtimeVars
<1>11. ASSUME NEW o \in Owners, NEW j \in Jobs, ExecutorExit(o, j) PROVE TypeOK'
    BY <1>11 DEF TypeOK, ExecutorExit, rowVars
<1>12. ASSUME NEW o \in Owners, NEW j \in Jobs, NEW mark \in TerminalMarks, MarkTerminal(o, j, mark)
       PROVE TypeOK'
    BY <1>12, RowPhaseFacts, MarkedOutcomeFacts DEF TypeOK, MarkTerminal, WriteOutcome, runtimeVars
<1>13. CASE UNCHANGED vars
    BY <1>13 DEF TypeOK, vars
<1> QED
    BY <1>1, <1>2, <1>3, <1>4, <1>5, <1>6, <1>7, <1>8, <1>9, <1>10, <1>11, <1>12, <1>13
    DEF Next, RuntimeStep, RowStep

\* The variables keep their types in every reachable state.
THEOREM TypeCorrect == Spec => []TypeOK
BY InitType, NextType, PTL DEF Spec

-----------------------------------------------------------------------------
(* The inductive invariant. *)

\* The empty queue satisfies the inductive invariant.
LEMMA InitInvariant == Init => IInv
<1> SUFFICES ASSUME Init PROVE IInv
    OBVIOUS
<1>1. TypeOK
    BY InitType
<1>2. TerminalIffSettled /\ ActiveIsHead
    BY DEF Init, TerminalIffSettled, ActiveIsHead, ActivePhases
<1>3. CursorsOrdered
    BY DEF Init, CursorsOrdered
<1>4. HolderExclusive /\ HandleFenced /\ ExecutorFenced
    BY DEF Init, HolderExclusive, HandleFenced, ExecutorFenced
<1>5. KnownRowsExist
    BY DEF Init, KnownRowsExist, Unread
<1> QED
    BY <1>1, <1>2, <1>3, <1>4, <1>5 DEF IInv

\* Two rows cannot both be first: the cursors are distinct.
LEMMA HeadUnique ==
    ASSUME TypeOK, CursorsOrdered, NEW j \in Jobs, NEW k \in Jobs, IsHead(j), IsHead(k)
    PROVE  j = k
<1>1. cursor[j] \in Nat /\ cursor[k] \in Nat
    BY DEF TypeOK
<1>2. cursor[j] <= cursor[k] /\ cursor[k] <= cursor[j]
    BY DEF IsHead
<1>3. cursor[j] = cursor[k]
    BY <1>1, <1>2
<1> QED
    BY <1>3 DEF CursorsOrdered, IsHead, Runnable

\* Nothing but rows that keep their phase or become terminal leaves every
\* head where it was.
LEMMA HeadStays ==
    ASSUME NEW j \in Jobs, IsHead(j), Runnable(j)', cursor' = cursor,
           \A k \in Jobs : Runnable(k)' => Runnable(k)
    PROVE  IsHead(j)'
BY DEF IsHead, Runnable

\* Writing an outcome (a convergence, a terminal mark) touches one row only
\* and can only close it.
LEMMA OutcomeWritePreserves ==
    ASSUME IInv, TypeOK', NEW j \in Jobs, NEW result \in Outcomes,
           phase[j] # "absent",
           outcome[j] # "unknown" => result # "unknown",
           WriteOutcome(j, result),
           UNCHANGED <<claimOwner, claimGeneration, cursor, lastCommit, runtimeVars>>
    PROVE  IInv'
<1> USE DEF IInv
<1>1. /\ \A k \in Jobs : phase'[k] = phase[k] \/ (k = j /\ phase'[k] = "terminal")
      /\ \A k \in Jobs : outcome'[k] = outcome[k] \/ (k = j /\ outcome'[k] = result)
      /\ phase'[j] = RowPhaseAfter(phase[j], result) /\ outcome'[j] = result
    BY RowPhaseFacts DEF WriteOutcome, TypeOK, RowPhaseAfter
<1>2. TerminalIffSettled'
    <2> SUFFICES ASSUME NEW k \in Jobs PROVE phase'[k] = "terminal" <=> outcome'[k] # "unknown"
        BY DEF TerminalIffSettled
    <2>1. CASE k = j
        <3>1. phase[j] \in Phases
            BY DEF TypeOK
        <3>2. CASE result = "unknown"
            BY <1>1, <2>1, <3>1, <3>2, RowPhaseFacts DEF TerminalIffSettled
        <3>3. CASE result # "unknown"
            BY <1>1, <2>1, <3>1, <3>3, RowPhaseFacts
        <3> QED BY <3>2, <3>3
    <2>2. CASE k # j
        BY <2>2 DEF TerminalIffSettled, WriteOutcome, TypeOK
    <2> QED BY <2>1, <2>2
<1>3. CursorsOrdered'
    BY <1>1 DEF CursorsOrdered
<1>4. HolderExclusive'
    BY DEF HolderExclusive, runtimeVars
<1>5. KnownRowsExist'
    BY <1>1 DEF KnownRowsExist, runtimeVars, TypeOK
<1>6. ActiveIsHead'
    <2> SUFFICES ASSUME NEW k \in Jobs, phase'[k] \in ActivePhases PROVE IsHead(k)'
        BY DEF ActiveIsHead
    <2>1. IsHead(k) /\ Runnable(k)'
        BY <1>1 DEF ActiveIsHead, ActivePhases, Runnable
    <2>2. \A i \in Jobs : Runnable(i)' => Runnable(i)
        BY <1>1 DEF Runnable
    <2> QED BY <2>1, <2>2, HeadStays
<1>7. HandleFenced'
    BY <1>1 DEF HandleFenced, StartMatches, runtimeVars, TypeOK
<1>8. ExecutorFenced'
    <2> SUFFICES ASSUME NEW o \in Owners, NEW k \in executing[o], outcome'[k] = "unknown"
                 PROVE handle[o] = k /\ phase'[k] = "started"
        BY DEF ExecutorFenced, runtimeVars
    <2>1. k \in Jobs
        BY DEF TypeOK
    <2>2. outcome[k] = "unknown"
        BY <1>1, <2>1
    <2>3. phase'[k] # "terminal"
        BY <1>2, <2>1 DEF TerminalIffSettled
    <2> QED BY <1>1, <2>1, <2>2, <2>3 DEF ExecutorFenced
<1> QED
    BY <1>2, <1>3, <1>4, <1>5, <1>6, <1>7, <1>8

\* A step that leaves the rows alone and only moves what a runtime remembers
\* or runs: each part of the invariant it may disturb is a hypothesis.
LEMMA RowsUntouched ==
    ASSUME IInv, TypeOK', UNCHANGED <<rowVars, lastCommit>>,
           HolderExclusive', KnownRowsExist', HandleFenced', ExecutorFenced'
    PROVE  IInv'
<1> USE DEF IInv, rowVars
<1>1. TerminalIffSettled' /\ CursorsOrdered'
    BY DEF TerminalIffSettled, CursorsOrdered
<1>2. ActiveIsHead'
    BY DEF ActiveIsHead, IsHead, Runnable
<1> QED
    BY <1>1, <1>2

\* A process that starts touches neither rows nor claims.
LEMMA StartRuntimePreserves ==
    ASSUME IInv, TypeOK', NEW o \in Owners, StartRuntime(o)
    PROVE  IInv'
<1> USE DEF IInv, StartRuntime, rowVars
<1>1. HolderExclusive' /\ KnownRowsExist'
    BY DEF HolderExclusive, KnownRowsExist
<1>2. HandleFenced' /\ ExecutorFenced'
    BY DEF HandleFenced, ExecutorFenced, StartMatches
<1> QED BY <1>1, <1>2, RowsUntouched

\* PendingRequestStore.records: only known rows enter the records.
LEMMA ReadRecordsPreserves ==
    ASSUME IInv, TypeOK', NEW o \in Owners, ReadRecords(o)
    PROVE  IInv'
<1> USE DEF IInv, ReadRecords, rowVars
<1>1. HolderExclusive'
    BY DEF HolderExclusive
<1>2. KnownRowsExist'
    BY DEF KnownRowsExist, Runnable, TypeOK
<1>3. HandleFenced' /\ ExecutorFenced'
    BY DEF HandleFenced, ExecutorFenced, StartMatches
<1> QED BY <1>1, <1>2, <1>3, RowsUntouched

\* The OS holder is taken only when free, so it stays exclusive.
LEMMA AcquireHolderPreserves ==
    ASSUME IInv, TypeOK', NEW o \in Owners, NEW j \in Jobs, AcquireHolder(o, j)
    PROVE  IInv'
<1> USE DEF IInv, AcquireHolder, rowVars
<1>1. \A p \in Owners : claiming[p] = NoJob /\ handle[p] = NoJob
    BY DEF HolderExclusive
<1>2. HolderExclusive'
    BY <1>1 DEF HolderExclusive, TypeOK
<1>3. KnownRowsExist'
    BY DEF KnownRowsExist
<1>4. HandleFenced' /\ ExecutorFenced'
    BY <1>1 DEF HandleFenced, ExecutorFenced, StartMatches
<1> QED BY <1>2, <1>3, <1>4, RowsUntouched

\* A refused claim gives the holder back and leaves the rows alone.
LEMMA ClaimRejectedPreserves ==
    ASSUME IInv, TypeOK', NEW o \in Owners, ClaimRejected(o)
    PROVE  IInv'
<1> USE DEF IInv, ClaimRejected, rowVars
<1>1. \A p \in Owners : handle[p] = NoJob /\ (p # o => claiming[p] = NoJob)
    BY DEF HolderExclusive
<1>2. HolderExclusive'
    BY <1>1 DEF HolderExclusive, TypeOK
<1>3. KnownRowsExist'
    BY DEF KnownRowsExist
<1>4. HandleFenced' /\ ExecutorFenced'
    BY <1>1 DEF HandleFenced, ExecutorFenced, StartMatches
<1> QED BY <1>2, <1>3, <1>4, RowsUntouched

\* ExecutionQueueClaim.close leaves no executor that can still commit.
LEMMA ClosePreserves ==
    ASSUME IInv, TypeOK', NEW o \in Owners, Close(o)
    PROVE  IInv'
<1> USE DEF IInv, Close, rowVars
<1>1. \A p \in Owners : claiming[p] = NoJob /\ (p # o => handle[p] = NoJob)
    BY DEF HolderExclusive
<1>2. HolderExclusive'
    BY <1>1 DEF HolderExclusive, TypeOK
<1>3. KnownRowsExist'
    BY <1>1 DEF KnownRowsExist, TypeOK
<1>4. HandleFenced'
    BY <1>1 DEF HandleFenced, TypeOK
<1>5. ExecutorFenced'
    <2> SUFFICES ASSUME NEW p \in Owners, NEW k \in executing[p], outcome[k] = "unknown"
                 PROVE FALSE
        BY DEF ExecutorFenced
    <2>1. k \in Jobs /\ handle[p] = k /\ phase[k] = "started"
        BY DEF ExecutorFenced, TypeOK
    <2>2. p = o
        BY <1>1, <2>1
    <2> QED BY <2>1, <2>2
<1> QED BY <1>2, <1>3, <1>4, <1>5, RowsUntouched

\* An executor that ends leaves claims and rows as they are.
LEMMA ExecutorExitPreserves ==
    ASSUME IInv, TypeOK', NEW o \in Owners, NEW j \in Jobs, ExecutorExit(o, j)
    PROVE  IInv'
<1> USE DEF IInv, ExecutorExit, rowVars
<1>1. \A p \in Owners : executing'[p] \subseteq executing[p]
    BY DEF TypeOK
<1>2. HolderExclusive' /\ KnownRowsExist'
    BY <1>1 DEF HolderExclusive, KnownRowsExist
<1>3. HandleFenced'
    BY DEF HandleFenced, StartMatches
<1>4. ExecutorFenced'
    BY <1>1 DEF ExecutorFenced
<1> QED BY <1>2, <1>3, <1>4, RowsUntouched

\* A crash takes holder, claim and executors of the process together.
LEMMA CrashPreserves ==
    ASSUME IInv, TypeOK', NEW o \in Owners, Crash(o)
    PROVE  IInv'
<1> USE DEF IInv, Crash, rowVars
<1>1. \A p \in Owners : executing'[p] \subseteq executing[p] /\ (p = o => executing'[p] = {})
    BY DEF TypeOK
<1>2. \A p \in Owners : p # o => handle'[p] = handle[p] /\ claiming'[p] = claiming[p]
    BY DEF TypeOK
<1>3. handle'[o] = NoJob /\ claiming'[o] = NoJob
    BY DEF TypeOK
<1>4. HolderExclusive'
    BY <1>2, <1>3 DEF HolderExclusive
<1>5. KnownRowsExist'
    BY <1>1, <1>2, <1>3 DEF KnownRowsExist
<1>6. HandleFenced'
    BY <1>2, <1>3, <1>4 DEF HandleFenced, HolderExclusive, StartMatches
<1>7. ExecutorFenced'
    BY <1>1, <1>2 DEF ExecutorFenced
<1> QED BY <1>4, <1>5, <1>6, <1>7, RowsUntouched

\* An admission gets a cursor above every other one, so it never overtakes.
LEMMA PublishPreserves ==
    ASSUME IInv, TypeOK', NEW o \in Owners, NEW j \in Jobs, Publish(o, j)
    PROVE  IInv'
<1> USE DEF IInv, Publish
<1>1. /\ \A k \in Jobs : k # j => phase'[k] = phase[k] /\ cursor'[k] = cursor[k]
      /\ phase'[j] = "queued" /\ cursor'[j] = lastCommit + 1
    BY DEF TypeOK
<1>2. TerminalIffSettled'
    BY <1>1 DEF TerminalIffSettled, TypeOK
<1>3. CursorsOrdered'
    BY <1>1 DEF CursorsOrdered, TypeOK
<1>4. HolderExclusive'
    BY DEF HolderExclusive
<1>5. KnownRowsExist'
    BY <1>1 DEF KnownRowsExist, TypeOK
<1>6. ActiveIsHead'
    <2> SUFFICES ASSUME NEW k \in Jobs, phase'[k] \in ActivePhases PROVE IsHead(k)'
        BY DEF ActiveIsHead
    <2>1. k # j /\ IsHead(k)
        BY <1>1 DEF ActiveIsHead, ActivePhases
    <2>2. cursor'[k] <= cursor'[j]
        BY <1>1, <2>1 DEF CursorsOrdered, TypeOK
    <2> QED BY <1>1, <2>1, <2>2 DEF IsHead, Runnable
<1>7. HandleFenced'
    <2> SUFFICES ASSUME NEW p \in Owners, handle[p] # NoJob
                 PROVE /\ holder = p
                       /\ phase'[handle[p]] # "terminal" => StartMatches(p, handle[p])'
        BY DEF HandleFenced
    <2>1. handle[p] \in Jobs /\ handle[p] # j
        BY DEF KnownRowsExist, TypeOK
    <2> QED BY <1>1, <2>1 DEF HandleFenced, StartMatches
<1>8. ExecutorFenced'
    BY <1>1 DEF ExecutorFenced, KnownRowsExist, TypeOK
<1> QED
    BY <1>2, <1>3, <1>4, <1>5, <1>6, <1>7, <1>8

\* The claimed row was the head, so it is the only active row afterwards; the
\* holder excludes any other open claim and any executor that could still
\* commit.
LEMMA ClaimPreserves ==
    ASSUME IInv, TypeOK', NEW o \in Owners, Claim(o)
    PROVE  IInv'
<1> USE DEF IInv
<1> PICK j \in Jobs : j = claiming[o]
    BY DEF Claim, TypeOK
<1>1. j \in Jobs /\ j # NoJob /\ Runnable(j) /\ IsHead(j) /\ holder = o
    BY DEF Claim, ClaimAllowed, HolderExclusive
<1>2. \A p \in Owners : handle[p] = NoJob /\ (p # o => claiming[p] = NoJob)
    BY <1>1 DEF HolderExclusive
<1>3. /\ \A k \in Jobs : k # j => phase'[k] = phase[k]
      /\ phase'[j] = "claimed" /\ claimOwner'[j] = o
      /\ claimGeneration'[j] = claimGeneration[j] + 1
      /\ \A p \in Owners : p # o => handle'[p] = NoJob /\ claiming'[p] = NoJob
      /\ handle'[o] = j /\ claiming'[o] = NoJob
      /\ handleGeneration'[o] = claimGeneration[j] + 1
      /\ UNCHANGED <<outcome, cursor, lastCommit, holder, executing>>
    BY <1>1, <1>2 DEF Claim, TypeOK
<1>4. TerminalIffSettled'
    BY <1>1, <1>3 DEF TerminalIffSettled, Runnable
<1>5. CursorsOrdered'
    BY <1>1, <1>3 DEF CursorsOrdered, Runnable
<1>6. HolderExclusive'
    BY <1>1, <1>3 DEF HolderExclusive
<1>7. KnownRowsExist'
    <2>1. \A k \in Jobs : phase'[k] = "absent" => phase[k] = "absent"
        BY <1>3
    <2>2. \A p \in Owners, k \in Jobs : record'[p][k] # Unread => record[p][k] # Unread \/ k = j
        BY <1>1 DEF Claim, TypeOK
    <2>3. \A p \in Owners, k \in Jobs : record'[p][k] # Unread => phase'[k] # "absent"
        BY <1>3, <2>1, <2>2 DEF KnownRowsExist
    <2>4. \A p \in Owners : handle'[p] # NoJob => phase'[handle'[p]] # "absent"
        BY <1>3
    <2>5. \A p \in Owners : \A k \in executing'[p] : phase'[k] # "absent"
        BY <1>3, <2>1 DEF KnownRowsExist, TypeOK
    <2> QED BY <2>3, <2>4, <2>5 DEF KnownRowsExist
<1>8. ActiveIsHead'
    <2> SUFFICES ASSUME NEW k \in Jobs, phase'[k] \in ActivePhases PROVE IsHead(k)'
        BY DEF ActiveIsHead
    <2>1. k = j
        <3>1. CASE k # j
            <4>1. IsHead(k)
                BY <1>3, <3>1 DEF ActiveIsHead
            <4> QED BY <1>1, <3>1, <4>1, HeadUnique
        <3> QED BY <3>1
    <2>2. \A i \in Jobs : Runnable(i)' => Runnable(i)
        BY <1>1, <1>3 DEF Runnable
    <2>3. Runnable(j)'
        BY <1>3 DEF Runnable
    <2> QED BY <1>1, <1>3, <2>1, <2>2, <2>3, HeadStays
<1>9. HandleFenced'
    BY <1>1, <1>3 DEF HandleFenced, StartMatches, ActivePhases
<1>10. ExecutorFenced'
    BY <1>1, <1>2, <1>3 DEF ExecutorFenced, TypeOK
<1> QED
    BY <1>4, <1>5, <1>6, <1>7, <1>8, <1>9, <1>10

\* start_execution_queue moves the claimed head and nothing else.
LEMMA StartPreserves ==
    ASSUME IInv, TypeOK', NEW o \in Owners, Start(o)
    PROVE  IInv'
<1> USE DEF IInv
<1> PICK j \in Jobs : j = handle[o]
    BY DEF Start, TypeOK
<1>1. phase[j] \in ActivePhases
    BY DEF Start, StartMatches
<1>2. /\ \A k \in Jobs : k # j => phase'[k] = phase[k]
      /\ phase'[j] = "started"
      /\ \A p \in Owners : executing'[p] = IF p = o THEN executing[p] \cup {j} ELSE executing[p]
      /\ UNCHANGED <<claimOwner, claimGeneration, outcome, cursor, lastCommit, holder,
                     record, claiming, handle, handleGeneration>>
    BY <1>1 DEF Start, TypeOK
<1>3. TerminalIffSettled'
    BY <1>1, <1>2 DEF TerminalIffSettled, ActivePhases
<1>4. CursorsOrdered'
    BY <1>1, <1>2 DEF CursorsOrdered, ActivePhases
<1>5. HolderExclusive'
    BY <1>2 DEF HolderExclusive
<1>6. KnownRowsExist'
    BY <1>1, <1>2, SMTT(40) DEF KnownRowsExist, TypeOK
<1>7. ActiveIsHead'
    <2> SUFFICES ASSUME NEW k \in Jobs, phase'[k] \in ActivePhases PROVE IsHead(k)'
        BY DEF ActiveIsHead
    <2>1. IsHead(k)
        BY <1>1, <1>2 DEF ActiveIsHead
    <2>2. \A i \in Jobs : Runnable(i)' => Runnable(i)
        BY <1>1, <1>2 DEF Runnable, ActivePhases
    <2>3. Runnable(k)'
        BY DEF Runnable, ActivePhases
    <2> QED BY <1>2, <2>1, <2>2, <2>3, HeadStays
<1>8. HandleFenced'
    BY <1>1, <1>2 DEF HandleFenced, StartMatches, ActivePhases, TypeOK
<1>9. ExecutorFenced'
    <2> SUFFICES ASSUME NEW p \in Owners, NEW k \in executing'[p], outcome[k] = "unknown"
                 PROVE handle[p] = k /\ phase'[k] = "started"
        BY <1>2 DEF ExecutorFenced
    <2>1. CASE k \in executing[p]
        BY <1>2, <2>1 DEF ExecutorFenced, TypeOK
    <2>2. CASE k \notin executing[p]
        <3>1. p = o /\ k = j
            <4>1. executing'[p] = IF p = o THEN executing[p] \cup {j} ELSE executing[p]
                BY <1>2
            <4> QED BY <2>2, <4>1
        <3> QED BY <1>2, <3>1
    <2> QED BY <2>1, <2>2
<1> QED
    BY <1>3, <1>4, <1>5, <1>6, <1>7, <1>8, <1>9

\* Every step of every runtime preserves the inductive invariant.
LEMMA NextInvariant == IInv /\ [Next]_vars => IInv'
<1> SUFFICES ASSUME IInv, [Next]_vars PROVE IInv'
    OBVIOUS
<1> TypeOK'
    BY NextType DEF IInv
<1>1. ASSUME NEW o \in Owners, RuntimeStep(o) PROVE IInv'
    BY <1>1, StartRuntimePreserves, ReadRecordsPreserves, ClaimPreserves, ClaimRejectedPreserves,
       StartPreserves, ClosePreserves, CrashPreserves DEF RuntimeStep
<1>2. ASSUME NEW o \in Owners, NEW j \in Jobs, RowStep(o, j) PROVE IInv'
    <2>1. CASE Publish(o, j)
        BY <2>1, PublishPreserves
    <2>2. CASE AcquireHolder(o, j)
        BY <2>2, AcquireHolderPreserves
    <2>3. ASSUME NEW result \in Outcomes, Converge(o, j, result) PROVE IInv'
        <3>1. phase[j] # "absent"
            BY <2>3 DEF Converge, IInv, KnownRowsExist
        <3> QED BY <2>3, <3>1, OutcomeWritePreserves DEF Converge
    <2>4. CASE ExecutorExit(o, j)
        BY <2>4, ExecutorExitPreserves
    <2>5. ASSUME NEW mark \in TerminalMarks, MarkTerminal(o, j, mark) PROVE IInv'
        <3>1. phase[j] # "absent"
            BY <2>5 DEF MarkTerminal, MarkGuard, IInv, KnownRowsExist
        <3>2. outcome[j] \in Outcomes
            BY DEF IInv, TypeOK
        <3> QED BY <2>5, <3>1, <3>2, MarkedOutcomeFacts, OutcomeWritePreserves DEF MarkTerminal
    <2> QED BY <1>2, <2>1, <2>2, <2>3, <2>4, <2>5 DEF RowStep
<1>3. CASE UNCHANGED vars
    <2> USE <1>3 DEF IInv, vars
    <2>1. TerminalIffSettled' /\ CursorsOrdered' /\ HolderExclusive' /\ KnownRowsExist'
        BY DEF TerminalIffSettled, CursorsOrdered, HolderExclusive, KnownRowsExist
    <2>2. ActiveIsHead' /\ HandleFenced' /\ ExecutorFenced'
        BY DEF ActiveIsHead, IsHead, Runnable, HandleFenced, StartMatches, ExecutorFenced
    <2> QED BY <2>1, <2>2
<1> QED
    BY <1>1, <1>2, <1>3 DEF Next

\* The inductive invariant holds in every reachable state.
THEOREM Invariance == Spec => []IInv
BY InitInvariant, NextInvariant, PTL DEF Spec

-----------------------------------------------------------------------------
(* The properties the runs check, for every instance. *)

\* At most one row of the Thread is active and it is the head of its FIFO.
THEOREM ActiveRowIsHead == Spec => []ActiveIsHead
<1>1. IInv => ActiveIsHead
    BY DEF IInv
<1> QED BY <1>1, Invariance, PTL

\* An open claim has the OS holder and is never invalidated by another
\* runtime before its outcome is committed.
THEOREM ClaimsAreFenced == Spec => []HandleFenced
<1>1. IInv => HandleFenced
    BY DEF IInv
<1> QED BY <1>1, Invariance, PTL

\* An executor that can still commit runs under its own runtime's open claim.
THEOREM ExecutorsAreFenced == Spec => []ExecutorFenced
<1>1. IInv => ExecutorFenced
    BY DEF IInv
<1> QED BY <1>1, Invariance, PTL

\* A row is terminal exactly when its execution is settled.
THEOREM RowFollowsOutcome == Spec => []TerminalIffSettled
<1>1. IInv => TerminalIffSettled
    BY DEF IInv
<1> QED BY <1>1, Invariance, PTL

\* The state invariant the run checks: for any jobs, runtimes and generations,
\* one active row that is the head, fenced claims and executors, and rows that
\* end with their executions.
THEOREM QueueInvariance == Spec => []QueueInv
<1>1. IInv => QueueInv
    BY DEF IInv, QueueInv
<1> QED BY <1>1, Invariance, PTL

\* What a step may do to a settled outcome: nothing, or correct a lost one.
LEMMA SettledStep ==
    ASSUME IInv, [Next]_vars, NEW j \in Jobs, outcome[j] # "unknown"
    PROVE  /\ phase'[j] = "terminal"
           /\ \/ outcome'[j] = outcome[j]
              \/ outcome[j] = "execution_lost" /\ outcome'[j] \in {"cancelled", "interrupted"}
<1> USE DEF IInv
<1>0. phase[j] = "terminal"
    BY DEF TerminalIffSettled
<1>1. ASSUME NEW o \in Owners, NEW k \in Jobs, NEW result \in Outcomes, Converge(o, k, result)
      PROVE phase'[j] = "terminal" /\ outcome'[j] = outcome[j]
    BY <1>0, <1>1 DEF Converge, WriteOutcome, TypeOK
<1>2. ASSUME NEW o \in Owners, NEW k \in Jobs, NEW mark \in TerminalMarks, MarkTerminal(o, k, mark)
      PROVE /\ phase'[j] = "terminal"
            /\ \/ outcome'[j] = outcome[j]
               \/ outcome[j] = "execution_lost" /\ outcome'[j] \in {"cancelled", "interrupted"}
    <2>1. CASE k # j
        BY <1>0, <1>2, <2>1 DEF MarkTerminal, WriteOutcome, TypeOK
    <2>2. CASE k = j
        <3>1. outcome[j] \in Outcomes /\ phase[j] \in Phases
            BY DEF TypeOK
        <3>2. outcome'[j] = MarkedOutcome(outcome[j], mark)
            BY <1>2, <2>2 DEF MarkTerminal, WriteOutcome, TypeOK
        <3>3. phase'[j] = RowPhaseAfter(phase[j], MarkedOutcome(outcome[j], mark))
            BY <1>2, <2>2 DEF MarkTerminal, WriteOutcome, TypeOK
        <3>4. phase'[j] = "terminal"
            BY <1>0, <3>3 DEF RowPhaseAfter
        <3> QED BY <3>1, <3>2, <3>4, MarkedOutcomeFacts
    <2> QED BY <2>1, <2>2
<1>3. ASSUME NEW o \in Owners, RuntimeStep(o)
      PROVE phase'[j] = "terminal" /\ outcome'[j] = outcome[j]
    <2>1. CASE Claim(o)
        BY <1>0, <2>1 DEF Claim, ClaimAllowed, Runnable, TypeOK
    <2>2. CASE Start(o)
        BY <1>0, <2>2 DEF Start, StartMatches, ActivePhases, TypeOK
    <2> QED
        BY <1>0, <1>3, <2>1, <2>2
        DEF RuntimeStep, StartRuntime, ReadRecords, ClaimRejected, Close, Crash, rowVars
<1>4. ASSUME NEW o \in Owners, NEW k \in Jobs, Publish(o, k) \/ AcquireHolder(o, k) \/ ExecutorExit(o, k)
      PROVE phase'[j] = "terminal" /\ outcome'[j] = outcome[j]
    BY <1>0, <1>4 DEF Publish, AcquireHolder, ExecutorExit, rowVars, TypeOK
<1>5. CASE UNCHANGED vars
    BY <1>0, <1>5 DEF vars
<1> QED
    BY <1>1, <1>2, <1>3, <1>4, <1>5 DEF Next, RowStep

\* No runtime, late executor or repeated mark ever reopens a settled row.
THEOREM OutcomesAreFinal == Spec => OutcomeFinal
<1> DEFINE Final ==
        \A j \in Jobs : outcome[j] # "unknown" =>
            /\ phase'[j] = "terminal"
            /\ \/ outcome'[j] = outcome[j]
               \/ outcome[j] = "execution_lost" /\ outcome'[j] \in {"cancelled", "interrupted"}
<1>1. IInv /\ [Next]_vars => [Final]_vars
    BY SettledStep
<1> QED BY <1>1, Invariance, PTL DEF Spec, OutcomeFinal

\* Executions start in the order of admission, whoever starts them.
THEOREM StartsFollowAdmission == Spec => StartsInOrder
<1> DEFINE Ordered ==
        \A o \in Owners : \A j \in executing'[o] \ executing[o] :
            \A k \in Jobs : phase[k] # "absent" /\ cursor[k] < cursor[j] => outcome[k] # "unknown"
<1>1. ASSUME IInv, [Next]_vars PROVE Ordered
    <2> USE <1>1 DEF IInv
    <2> SUFFICES ASSUME NEW o \in Owners, NEW j \in executing'[o] \ executing[o], NEW k \in Jobs,
                        phase[k] # "absent", cursor[k] < cursor[j]
                 PROVE outcome[k] # "unknown"
        OBVIOUS
    <2>1. \E p \in Owners : Start(p)
        <3>1. ASSUME NEW p \in Owners, NEW i \in Jobs, RowStep(p, i) PROVE executing'[o] \subseteq executing[o]
            BY <3>1 DEF RowStep, Publish, AcquireHolder, Converge, ExecutorExit, MarkTerminal,
                        runtimeVars, TypeOK
        <3>2. ASSUME NEW p \in Owners, RuntimeStep(p), ~Start(p) PROVE executing'[o] \subseteq executing[o]
            BY <3>2 DEF RuntimeStep, StartRuntime, ReadRecords, Claim, ClaimRejected, Close, Crash, TypeOK
        <3>3. CASE UNCHANGED vars
            BY <3>3 DEF vars
        <3> QED BY <3>1, <3>2, <3>3 DEF Next
    <2>2. PICK p \in Owners : Start(p)
        BY <2>1
    <2>3. p = o /\ j = handle[o] /\ j \in Jobs
        BY <2>2 DEF Start, TypeOK
    <2>4. IsHead(j)
        BY <2>2, <2>3 DEF Start, StartMatches, ActiveIsHead
    <2>5. ~Runnable(k)
        BY <2>3, <2>4 DEF IsHead, TypeOK
    <2> QED BY <2>5 DEF Runnable, TerminalIffSettled
<1>2. IInv /\ [Next]_vars => [Ordered]_vars
    BY <1>1
<1> QED BY <1>2, Invariance, PTL DEF Spec, StartsInOrder

-----------------------------------------------------------------------------
(* The detailed queue implements the abstract one. *)

\* mark_job_terminal_status is a settlement, a correction or a stutter of
\* the abstract queue.
LEMMA MarkImplements ==
    ASSUME IInv, NEW o \in Owners, NEW j \in Jobs, NEW mark \in TerminalMarks,
           MarkTerminal(o, j, mark)
    PROVE  [Queue!Next]_(Queue!vars)
<1> DEFINE result == MarkedOutcome(outcome[j], mark)
<1> USE DEF IInv
<1>1. /\ outcome[j] \in Outcomes /\ phase[j] \in Phases /\ result \in Outcomes
      /\ phase[j] # "absent"
    BY MarkedOutcomeFacts DEF TypeOK, MarkTerminal, MarkGuard, KnownRowsExist
<1>2. /\ outcome' = [outcome EXCEPT ![j] = result]
      /\ phase' = [phase EXCEPT ![j] = RowPhaseAfter(phase[j], result)]
      /\ cursor' = cursor
    BY DEF MarkTerminal, WriteOutcome, TypeOK
<1>3. CASE result = outcome[j]
    <2>1. RowPhaseAfter(phase[j], result) = phase[j]
        BY <1>1, <1>3 DEF RowPhaseAfter, TerminalIffSettled
    <2> QED BY <1>2, <1>3, <2>1 DEF TypeOK, Queue!vars
<1>4. CASE result # outcome[j] /\ outcome[j] = "unknown"
    <2>1. RowPhaseAfter(phase[j], result) = "terminal" /\ Queue!Open(j)
        BY <1>1, <1>4 DEF RowPhaseAfter, TerminalIffSettled, Queue!Open
    <2>2. Queue!Settle(j, result)
        BY <1>2, <1>4, <2>1 DEF Queue!Settle
    <2> QED BY <1>1, <2>2 DEF Queue!Next, Queue!Outcomes, Outcomes
<1>5. CASE result # outcome[j] /\ outcome[j] # "unknown"
    <2>1. outcome[j] = "execution_lost" /\ result \in {"cancelled", "interrupted"}
        BY <1>1, <1>5, MarkedOutcomeFacts
    <2>2. phase' = phase
        BY <1>1, <1>2, <1>5 DEF RowPhaseAfter, TerminalIffSettled, TypeOK
    <2>3. Queue!Correct(j, result)
        BY <1>2, <2>1, <2>2 DEF Queue!Correct
    <2> QED BY <1>1, <2>3 DEF Queue!Next, Queue!Outcomes, Outcomes
<1> QED BY <1>3, <1>4, <1>5

\* Every step of the queue is a step or a stutter of the abstract queue.
LEMMA StepImplements == IInv /\ [Next]_vars => [Queue!Next]_(Queue!vars)
<1> SUFFICES ASSUME IInv, [Next]_vars PROVE [Queue!Next]_(Queue!vars)
    OBVIOUS
<1> USE DEF IInv
<1>1. ASSUME NEW o \in Owners, RuntimeStep(o) PROVE [Queue!Next]_(Queue!vars)
    <2>1. CASE Claim(o)
        <3>1. PICK j \in Jobs : j = claiming[o]
            BY <2>1 DEF Claim, TypeOK
        <3>2. Queue!Take(j)
            BY <2>1, <3>1 DEF Claim, ClaimAllowed, IsHead, Runnable,
                              Queue!Take, Queue!First, Queue!Open
        <3> QED BY <3>2 DEF Queue!Next
    <2>2. CASE Start(o)
        <3>1. PICK j \in Jobs : j = handle[o]
            BY <2>2 DEF Start, TypeOK
        <3>2. IsHead(j) /\ phase[j] \in {"claimed", "started"}
            BY <2>2, <3>1 DEF Start, StartMatches, ActivePhases, ActiveIsHead
        <3>3. Queue!Start(j)
            BY <2>2, <3>1, <3>2 DEF Start, IsHead, Runnable, Queue!Start, Queue!First, Queue!Open
        <3> QED BY <3>3 DEF Queue!Next
    <2> QED
        BY <1>1, <2>1, <2>2
        DEF RuntimeStep, StartRuntime, ReadRecords, ClaimRejected, Close, Crash, rowVars, Queue!vars
<1>2. ASSUME NEW o \in Owners, NEW j \in Jobs, RowStep(o, j) PROVE [Queue!Next]_(Queue!vars)
    <2>1. CASE Publish(o, j)
        <3>1. cursor'[j] = lastCommit + 1
            BY <2>1 DEF Publish, TypeOK
        <3>2. \A k \in Jobs : cursor[k] < cursor'[j]
            BY <3>1 DEF CursorsOrdered, TypeOK
        <3>3. cursor' = [cursor EXCEPT ![j] = cursor'[j]]
            BY <2>1, <3>1 DEF Publish
        <3>4. Queue!Admit(j)
            BY <2>1, <3>2, <3>3 DEF Publish, Queue!Admit
        <3> QED BY <3>4 DEF Queue!Next
    <2>2. ASSUME NEW result \in Outcomes, Converge(o, j, result) PROVE [Queue!Next]_(Queue!vars)
        <3>1. phase[j] = "started" /\ result # "unknown"
            BY <2>2 DEF Converge, ExecutorFenced
        <3>2. RowPhaseAfter(phase[j], result) = "terminal"
            BY <3>1 DEF RowPhaseAfter
        <3>3. Queue!Settle(j, result)
            BY <2>2, <3>1, <3>2 DEF Converge, WriteOutcome, Queue!Settle, Queue!Open
        <3> QED BY <3>3 DEF Queue!Next, Queue!Outcomes, Outcomes
    <2>3. ASSUME NEW mark \in TerminalMarks, MarkTerminal(o, j, mark) PROVE [Queue!Next]_(Queue!vars)
        BY <2>3, MarkImplements
    <2>4. CASE AcquireHolder(o, j) \/ ExecutorExit(o, j)
        BY <2>4 DEF AcquireHolder, ExecutorExit, rowVars, Queue!vars
    <2> QED BY <1>2, <2>1, <2>2, <2>3, <2>4 DEF RowStep
<1>3. CASE UNCHANGED vars
    BY <1>3 DEF vars, Queue!vars
<1> QED
    BY <1>1, <1>2, <1>3 DEF Next

\* Seen through their rows, any number of runtimes that claim, execute,
\* cancel and crash are one serial FIFO queue.
THEOREM Implementation == Spec => ImplementsThreadQueue
<1>1. Init => Queue!Init
    BY DEF Init, Queue!Init
<1> QED
    BY <1>1, StepImplements, Invariance, PTL DEF Spec, ImplementsThreadQueue, Queue!Spec

-----------------------------------------------------------------------------
(***************************************************************************)
(* What clients see of the queue                                           *)
(*                                                                         *)
(* The version of a session is a sum over its Threads that is read Thread  *)
(* by Thread while the revisions grow, and an update is let through when   *)
(* two such sums are equal.  That this means "nothing has happened" needs  *)
(* a witness: the revisions as they were when the client listed.  The sum  *)
(* of the update is at least theirs at every point of the reading, and     *)
(* exceeds it by what the Thread of the request has grown.                 *)
(***************************************************************************)
PolicyOf == Policies \cup {"none"}
RowShape ==
    [Requests -> [phase : {"absent", "queued", "claimed", "terminal"}, policy : PolicyOf]]
UpdateShape ==
    [at : {"idle", "list"} \cup Reading, next : 1..ReadAll, sum : Nat,
     target : Requests \cup {NoRequest}, policy : PolicyOf, expect : Nat, base : Nat]
ClientShape == [op : UpdateShape, listed : BOOLEAN, version : Nat]
RestoreShape ==
    [at : {"idle", "read"}, next : 1..ReadAll, sum : Nat, rows : [Requests -> PolicyOf]]

PolicyShapes ==
    /\ PolicyTypeOK
    /\ client \in [Clients -> ClientShape] /\ restore \in RestoreShape
    /\ changed \in [Clients -> SUBSET Threads]

(* What the mirror offers, and what a restore is about to install, waits,  *)
(* but for the requests that a client has closed early.                    *)
Waits(r) == row[r].phase = "queued" \/ r \in early
WaitingSound ==
    \A r \in Requests :
        /\ mirror[r] # "none" => Waits(r)
        /\ restore.rows[r] # "none" /\ r \notin left => Waits(r)

(* No sum is ahead of the revisions it is read from.                       *)
VersionSound ==
    /\ version <= Total(rev)
    /\ restore.sum <= SumTo(rev, restore.next - 1)

(* An update has the lock, and once it has written the policy its request  *)
(* waits until it is done.                                                 *)
HoldsLock(c) ==
    /\ Op(c).at \in {"check", "after"} =>
           lock = c /\ client[c].listed /\ Op(c).target \in Requests
    /\ Op(c).at = "after" => row[Op(c).target].phase = "queued"
SumBehind(c) ==
    Op(c).at \in Reading => Op(c).sum <= SumTo(rev, Op(c).next - 1)

(* The revisions L at the client's list: what has changed since is ahead   *)
(* of them, and so is what a check has read.                               *)
Ahead(c, L) ==
    \A t \in Threads : L[t] <= rev[t] /\ (t \in changed[c] => L[t] < rev[t])
CheckAhead(c, L) ==
    LET op == Op(c)
        read == SumTo(L, op.next - 1)
        t == Thread[op.target] IN
    op.at = "check" =>
        /\ op.expect <= Total(L) /\ read <= op.sum
        /\ (\E i \in 1..(op.next - 1) : Order[i] = t) => read + op.base <= op.sum + L[t]
Saw(c, L) == Ahead(c, L) /\ client[c].version <= Total(L) /\ CheckAhead(c, L)
ListSound(c) == client[c].listed => \E L \in [Threads -> Nat] : Saw(c, L)

ClientSound(c) == HoldsLock(c) /\ SumBehind(c) /\ ListSound(c)
PendingSound ==
    PolicyShapes /\ WaitingSound /\ VersionSound /\ \A c \in Clients : ClientSound(c)

-----------------------------------------------------------------------------
(* The sum of the revisions                                                *)

(* Induction up to n, for a set in place of a predicate: the least         *)
(* counterexample is no counterexample.                                    *)
LEMMA SetInduction ==
  ASSUME NEW S, NEW n \in Nat, 0 \in S, \A i \in 0..(n - 1) : i \in S => i + 1 \in S
  PROVE  0..n \subseteq S
<1>. DEFINE T == {i \in 0..n : i \notin S}
<1>. SUFFICES ASSUME T # {}
              PROVE  FALSE
  OBVIOUS
<1>1. PICK k \in T : \A j \in T : <<j, k>> \notin OpToRel(<, Nat)
  <2>1. T \subseteq Nat
    OBVIOUS
  <2>. QED  BY <2>1, NatLessThanWellFounded, WFMin
<1>2. \A j \in T : ~(j < k)
  <2>1. T \subseteq Nat
    OBVIOUS
  <2>. HIDE DEF T
  <2>. QED  BY <1>1, <2>1 DEF OpToRel
<1>3. k # 0 /\ k \in 0..n
  OBVIOUS
<1>4. k - 1 \in 0..(n - 1) /\ k - 1 < k /\ (k - 1) + 1 = k
  BY <1>3
<1>5. k - 1 \in S
  BY <1>2, <1>4
<1>. QED  BY <1>4, <1>5

LEMMA OrderFacts ==
  /\ Len(Order) \in Nat /\ ReadAll \in Nat \ {0}
  /\ \A i \in 1..Len(Order) : Order[i] \in Threads
  /\ \A t \in Threads : \E i \in 1..Len(Order) : Order[i] = t
  /\ \A r \in Requests : Thread[r] \in Threads
<1>1. Order \in Seq(Threads)
  BY RequestAssumption DEF Threads
<1>2. Len(Order) \in Nat /\ \A i \in 1..Len(Order) : Order[i] \in Threads
  BY <1>1
<1>3. \A t \in Threads : \E i \in 1..Len(Order) : Order[i] = t
  BY RequestAssumption DEF Threads
<1>4. \A r \in Requests : Thread[r] \in Threads
  BY DEF Threads
<1>. QED  BY <1>2, <1>3, <1>4 DEF ReadAll

(* g holds the sums of f up to every place, n included.                    *)
Sums(f, n, g) ==
    /\ DOMAIN g = 0..n /\ g[0] = 0
    /\ \A i \in 1..n : g[i] = g[i - 1] + f[Order[i]]

LEMMA SumsExist ==
  ASSUME NEW f, NEW n \in Nat
  PROVE  \E g : Sums(f, n, g)
<1>. DEFINE S == {i \in Nat : \E g : Sums(f, i, g)}
<1>1. 0 \in S
  <2>1. Sums(f, 0, [i \in 0..0 |-> 0])
    BY DEF Sums
  <2>. QED  BY <2>1
<1>2. ASSUME NEW i \in 0..(n - 1), i \in S
      PROVE  i + 1 \in S
  <2>0. i \in Nat
    OBVIOUS
  <2>1. PICK g : Sums(f, i, g)
    BY <1>2
  <2>. DEFINE h == [k \in 0..(i + 1) |-> IF k = i + 1 THEN g[i] + f[Order[i + 1]] ELSE g[k]]
  <2>2. h[0] = 0 /\ DOMAIN h = 0..(i + 1)
    BY <2>1 DEF Sums
  <2>3. ASSUME NEW k \in 1..(i + 1)
        PROVE  h[k] = h[k - 1] + f[Order[k]]
    <3>1. CASE k = i + 1
      <4>1. k - 1 = i /\ i \in 0..(i + 1) /\ i # i + 1 /\ k \in 0..(i + 1)
        BY <2>0, <3>1
      <4>2. h[k - 1] = g[i] /\ h[k] = g[i] + f[Order[i + 1]]
        BY <3>1, <4>1
      <4>. QED  BY <3>1, <4>2
    <3>2. CASE k # i + 1
      <4>1. k \in 1..i /\ k - 1 \in 0..i /\ k \in 0..(i + 1) /\ k - 1 \in 0..(i + 1)
        BY <3>2
      <4>2. h[k] = g[k] /\ h[k - 1] = g[k - 1]
        BY <3>2, <4>1
      <4>. QED  BY <2>1, <4>1, <4>2 DEF Sums
    <3>. QED  BY <3>1, <3>2
  <2>4. Sums(f, i + 1, h)
    BY <2>2, <2>3 DEF Sums
  <2>. QED  BY <2>4
<1>. HIDE DEF S
<1>3. 0..n \subseteq S
  BY <1>1, <1>2, SetInduction
<1>4. n \in S
  BY <1>3
<1>. QED  BY <1>4 DEF S

(* The recursive definition of the sum has a solution, and all solutions   *)
(* agree on it.                                                            *)
LEMMA SumIsLast ==
  ASSUME NEW f, NEW n \in Nat, NEW g, Sums(f, n, g)
  PROVE  SumTo(f, n) = g[n]
<1>. DEFINE Rec(S) == [i \in 0..n |-> IF i = 0 THEN 0 ELSE S[i - 1] + f[Order[i]]]
            R == CHOOSE S : S = Rec(S)
<1>1. SumTo(f, n) = R[n]
  BY DEF SumTo
<1>. DEFINE h == [i \in 0..n |-> g[i]]
<1>2. h = Rec(h)
  <2>1. ASSUME NEW i \in 0..n
        PROVE  g[i] = IF i = 0 THEN 0 ELSE h[i - 1] + f[Order[i]]
    <3>1. CASE i = 0
      BY <3>1 DEF Sums
    <3>2. CASE i # 0
      <4>1. i \in 1..n /\ i - 1 \in 0..n
        BY <3>2
      <4>. QED  BY <4>1 DEF Sums
    <3>. QED  BY <3>1, <3>2
  <2>. QED  BY <2>1
<1>3. R = Rec(R)
  BY <1>2
<1>. HIDE DEF R
<1>. DEFINE Same == {i \in 0..n : R[i] = g[i]}
<1>4. 0 \in Same
  <2>1. R[0] = 0
    BY <1>3
  <2>. QED  BY <2>1 DEF Sums
<1>5. ASSUME NEW i \in 0..(n - 1), i \in Same
      PROVE  i + 1 \in Same
  <2>1. i + 1 \in 1..n /\ i + 1 \in 0..n /\ (i + 1) - 1 = i /\ i + 1 # 0
    OBVIOUS
  <2>2. R[i + 1] = R[i] + f[Order[i + 1]]
    BY <1>3, <2>1
  <2>3. g[i + 1] = g[i] + f[Order[i + 1]]
    BY <2>1 DEF Sums
  <2>. QED  BY <1>5, <2>1, <2>2, <2>3
<1>. HIDE DEF Same
<1>6. 0..n \subseteq Same
  BY <1>4, <1>5, SetInduction
<1>7. n \in Same
  BY <1>6
<1>. QED  BY <1>1, <1>7 DEF Same

(* The sum grows by one Thread at a time.                                  *)
LEMMA SumUnfolds ==
  ASSUME NEW f
  PROVE  /\ SumTo(f, 0) = 0
         /\ \A n \in Nat : SumTo(f, n + 1) = SumTo(f, n) + f[Order[n + 1]]
<1>1. SumTo(f, 0) = 0
  <2>1. PICK g : Sums(f, 0, g)
    BY SumsExist
  <2>2. SumTo(f, 0) = g[0]
    BY <2>1, SumIsLast
  <2>. QED  BY <2>1, <2>2 DEF Sums
<1>2. ASSUME NEW n \in Nat
      PROVE  SumTo(f, n + 1) = SumTo(f, n) + f[Order[n + 1]]
  <2>0. n + 1 \in Nat
    OBVIOUS
  <2>1. PICK g : Sums(f, n + 1, g)
    BY <2>0, SumsExist
  <2>2. SumTo(f, n + 1) = g[n + 1]
    BY <2>0, <2>1, SumIsLast
  <2>. DEFINE h == [i \in 0..n |-> g[i]]
  <2>3. Sums(f, n, h)
    <3>1. DOMAIN h = 0..n /\ h[0] = 0
      BY <2>1 DEF Sums
    <3>2. ASSUME NEW i \in 1..n
          PROVE  h[i] = h[i - 1] + f[Order[i]]
      <4>1. i \in 1..(n + 1) /\ i \in 0..n /\ i - 1 \in 0..n
        OBVIOUS
      <4>2. g[i] = g[i - 1] + f[Order[i]]
        BY <2>1, <4>1 DEF Sums
      <4>. QED  BY <4>1, <4>2
    <3>. QED  BY <3>1, <3>2 DEF Sums
  <2>4. SumTo(f, n) = h[n]
    BY <2>3, SumIsLast
  <2>5. h[n] = g[n]
    OBVIOUS
  <2>6. n + 1 \in 1..(n + 1) /\ (n + 1) - 1 = n
    OBVIOUS
  <2>7. g[n + 1] = g[n] + f[Order[n + 1]]
    BY <2>1, <2>6 DEF Sums
  <2>. QED  BY <2>2, <2>4, <2>5, <2>7
<1>. QED  BY <1>1, <1>2

LEMMA SumType ==
  ASSUME NEW f \in [Threads -> Nat], NEW n \in 0..Len(Order)
  PROVE  SumTo(f, n) \in Nat
<1>. DEFINE S == {i \in 0..Len(Order) : SumTo(f, i) \in Nat}
<1>1. 0 \in S
  <2>1. SumTo(f, 0) = 0
    BY SumUnfolds
  <2>. QED  BY <2>1, OrderFacts
<1>2. ASSUME NEW i \in 0..(Len(Order) - 1), i \in S
      PROVE  i + 1 \in S
  <2>1. i + 1 \in 1..Len(Order) /\ i \in Nat
    BY OrderFacts
  <2>2. f[Order[i + 1]] \in Nat
    BY <2>1, OrderFacts
  <2>3. SumTo(f, i + 1) = SumTo(f, i) + f[Order[i + 1]]
    BY <2>1, SumUnfolds
  <2>. QED  BY <1>2, <2>1, <2>2, <2>3
<1>. HIDE DEF S
<1>3. 0..Len(Order) \subseteq S
  BY <1>1, <1>2, SetInduction, OrderFacts
<1>4. n \in S
  BY <1>3
<1>. QED  BY <1>4 DEF S

(* One Thread more is read.                                                *)
LEMMA SumStep ==
  ASSUME NEW f \in [Threads -> Nat], NEW n \in 1..Len(Order)
  PROVE  /\ SumTo(f, n) = SumTo(f, n - 1) + f[Order[n]]
         /\ SumTo(f, n) \in Nat /\ SumTo(f, n - 1) \in Nat /\ f[Order[n]] \in Nat
<1>1. n - 1 \in 0..Len(Order) /\ n \in 0..Len(Order) /\ (n - 1) + 1 = n /\ n - 1 \in Nat
  BY OrderFacts
<1>2. SumTo(f, (n - 1) + 1) = SumTo(f, n - 1) + f[Order[(n - 1) + 1]]
  BY <1>1, SumUnfolds
<1>3. SumTo(f, n) \in Nat /\ SumTo(f, n - 1) \in Nat
  BY <1>1, SumType
<1>. QED  BY <1>1, <1>2, <1>3, OrderFacts

(* The sum never shrinks while the revisions grow.                         *)
LEMMA SumMonotonic ==
  ASSUME NEW f \in [Threads -> Nat], NEW g \in [Threads -> Nat],
         \A t \in Threads : f[t] <= g[t], NEW n \in 0..Len(Order)
  PROVE  SumTo(f, n) <= SumTo(g, n)
<1>. DEFINE S == {i \in 0..Len(Order) : SumTo(f, i) <= SumTo(g, i)}
<1>1. 0 \in S
  BY SumUnfolds, OrderFacts
<1>2. ASSUME NEW i \in 0..(Len(Order) - 1), i \in S
      PROVE  i + 1 \in S
  <2>1. i + 1 \in 1..Len(Order) /\ (i + 1) - 1 = i
    BY OrderFacts
  <2>2. /\ SumTo(f, i + 1) = SumTo(f, i) + f[Order[i + 1]]
        /\ SumTo(f, i) \in Nat /\ f[Order[i + 1]] \in Nat
    BY <2>1, SumStep
  <2>3. /\ SumTo(g, i + 1) = SumTo(g, i) + g[Order[i + 1]]
        /\ SumTo(g, i) \in Nat /\ g[Order[i + 1]] \in Nat
    BY <2>1, SumStep
  <2>4. f[Order[i + 1]] <= g[Order[i + 1]]
    BY <2>1, OrderFacts
  <2>. QED  BY <1>2, <2>1, <2>2, <2>3, <2>4
<1>. HIDE DEF S
<1>3. 0..Len(Order) \subseteq S
  BY <1>1, <1>2, SetInduction, OrderFacts
<1>4. n \in S
  BY <1>3
<1>. QED  BY <1>4 DEF S

-----------------------------------------------------------------------------
(* What the steps have in common                                           *)

LEMMA ShapeFacts ==
  ASSUME PolicyShapes
  PROVE  /\ rev \in [Threads -> Nat] /\ version \in Nat
         /\ \A r \in Requests : row[r].policy \in PolicyOf /\ mirror[r] \in PolicyOf
         /\ restore.next \in 1..ReadAll /\ restore.sum \in Nat
         /\ restore.rows \in [Requests -> PolicyOf]
         /\ \A c \in Clients :
              /\ client[c] \in ClientShape /\ Op(c) \in UpdateShape
              /\ Op(c).next \in 1..ReadAll /\ Op(c).sum \in Nat /\ Op(c).base \in Nat
              /\ Op(c).expect \in Nat /\ client[c].version \in Nat
              /\ changed[c] \subseteq Threads
         /\ Total(rev) \in Nat /\ \A n \in 0..Len(Order) : SumTo(rev, n) \in Nat
<1>1. \A n \in 0..Len(Order) : SumTo(rev, n) \in Nat
  BY SumType DEF PolicyShapes, PolicyTypeOK
<1>2. Total(rev) \in Nat
  BY <1>1, OrderFacts DEF Total
<1>3. rev \in [Threads -> Nat] /\ version \in Nat
  BY DEF PolicyShapes, PolicyTypeOK
<1>4. \A r \in Requests : row[r].policy \in PolicyOf /\ mirror[r] \in PolicyOf
  BY DEF PolicyShapes, PolicyTypeOK, PolicyOf
<1>5. /\ restore.next \in 1..ReadAll /\ restore.sum \in Nat
      /\ restore.rows \in [Requests -> PolicyOf]
  BY DEF PolicyShapes, RestoreShape
<1>6. ASSUME NEW c \in Clients
      PROVE  /\ client[c] \in ClientShape /\ Op(c) \in UpdateShape
             /\ Op(c).next \in 1..ReadAll /\ Op(c).sum \in Nat /\ Op(c).base \in Nat
             /\ Op(c).expect \in Nat /\ client[c].version \in Nat
             /\ changed[c] \subseteq Threads
  <2>1. client[c] \in ClientShape /\ changed[c] \subseteq Threads
    BY DEF PolicyShapes
  <2>2. Op(c) \in UpdateShape /\ client[c].version \in Nat
    BY <2>1 DEF Op, ClientShape
  <2>. QED  BY <2>1, <2>2 DEF UpdateShape
<1>. QED  BY <1>1, <1>2, <1>3, <1>4, <1>5, <1>6

(* Only the call of one client moves.                                      *)
LEMMA StepFields ==
  ASSUME PolicyShapes, NEW c \in Clients, NEW op \in UpdateShape, Step(c, op)
  PROVE  /\ client' \in [Clients -> ClientShape]
         /\ Op(c)' = op /\ client'[c].op = op /\ client'[c].listed = client[c].listed
         /\ client'[c].version = client[c].version
         /\ \A d \in Clients \ {c} : client'[d] = client[d]
<1>1. client \in [Clients -> ClientShape]
  BY DEF PolicyShapes
<1>2. client' = [client EXCEPT ![c] = [client[c] EXCEPT !.op = op]]
  BY <1>1 DEF Step
<1>. DEFINE r == [client[c] EXCEPT !.op = op]
<1>3. /\ r \in ClientShape /\ r.op = op /\ r.listed = client[c].listed
      /\ r.version = client[c].version
  BY <1>1 DEF ClientShape
<1>4. client' = [client EXCEPT ![c] = r]
  BY <1>2
<1>. HIDE DEF r
<1>5. client'[c] = r /\ \A d \in Clients \ {c} : client'[d] = client[d]
  BY <1>1, <1>4
<1>6. client' \in [Clients -> ClientShape]
  BY <1>1, <1>3, <1>4
<1>. QED  BY <1>3, <1>5, <1>6 DEF Op

(* A write counts a revision: sums only grow, and who has listed sees the  *)
(* Thread as changed.                                                      *)
Grown ==
    /\ rev' \in [Threads -> Nat] /\ changed' \in [Clients -> SUBSET Threads]
    /\ \A t \in Threads : rev[t] <= rev'[t]
    /\ \A n \in 0..Len(Order) : SumTo(rev, n) <= SumTo(rev', n) /\ SumTo(rev', n) \in Nat
    /\ \A c \in Clients : \A t \in changed'[c] : t \in changed[c] \/ rev[t] < rev'[t]

LEMMA WriteGrows ==
  ASSUME PolicyShapes, NEW t \in Threads, Written(t)
  PROVE  Grown
<1>1. rev \in [Threads -> Nat] /\ changed \in [Clients -> SUBSET Threads]
  BY DEF PolicyShapes, PolicyTypeOK
<1>2. rev' \in [Threads -> Nat] /\ \A u \in Threads : rev[u] <= rev'[u]
  BY <1>1 DEF Written
<1>3. rev[t] < rev'[t]
  BY <1>1 DEF Written
<1>4. /\ changed' \in [Clients -> SUBSET Threads]
      /\ \A c \in Clients : \A u \in changed'[c] : u \in changed[c] \/ rev[u] < rev'[u]
  BY <1>1, <1>3 DEF Written
<1>5. \A n \in 0..Len(Order) : SumTo(rev, n) <= SumTo(rev', n) /\ SumTo(rev', n) \in Nat
  BY <1>1, <1>2, SumType, SumMonotonic
<1>. QED  BY <1>2, <1>4, <1>5 DEF Grown

LEMMA IdleGrows ==
  ASSUME PolicyShapes, UNCHANGED <<rev, changed>>
  PROVE  Grown
<1>1. rev \in [Threads -> Nat] /\ changed \in [Clients -> SUBSET Threads]
  BY DEF PolicyShapes, PolicyTypeOK
<1>2. \A n \in 0..Len(Order) : SumTo(rev, n) \in Nat
  BY <1>1, SumType
<1>. QED  BY <1>1, <1>2 DEF Grown

(* The revisions a client has listed stay below what has changed since.    *)
LEMMA AheadStays ==
  ASSUME PolicyShapes, Grown, NEW c \in Clients, NEW L \in [Threads -> Nat], Ahead(c, L)
  PROVE  Ahead(c, L)'
<1>1. ASSUME NEW t \in Threads
      PROVE  L[t] <= rev'[t] /\ (t \in changed'[c] => L[t] < rev'[t])
  <2>1. L[t] \in Nat /\ rev[t] \in Nat /\ rev'[t] \in Nat
    BY DEF PolicyShapes, PolicyTypeOK, Grown
  <2>2. L[t] <= rev[t] /\ (t \in changed[c] => L[t] < rev[t])
    BY DEF Ahead
  <2>3. rev[t] <= rev'[t] /\ (t \in changed'[c] => t \in changed[c] \/ rev[t] < rev'[t])
    BY DEF Grown
  <2>. QED  BY <2>1, <2>2, <2>3
<1>. QED  BY <1>1 DEF Ahead, Threads

(* A client that does nothing keeps what it knows, and an update its lock  *)
(* and its waiting request.                                                *)
LEMMA ClientStays ==
  ASSUME PolicyShapes, Grown, NEW c \in Clients, ClientSound(c), client'[c] = client[c],
         lock = c => /\ lock' = c
                     /\ \A r \in Requests : row[r].phase = "queued" => row'[r].phase = "queued"
  PROVE  ClientSound(c)'
<1>1. Op(c)' = Op(c)
  BY DEF Op
<1>2. HoldsLock(c)'
  BY <1>1 DEF ClientSound, HoldsLock
<1>3. SumBehind(c)'
  <2>. SUFFICES ASSUME Op(c).at \in Reading
                PROVE  Op(c).sum <= SumTo(rev', Op(c).next - 1)
    BY <1>1 DEF SumBehind, Reading
  <2>1. Op(c).next - 1 \in 0..Len(Order) /\ Op(c).sum \in Nat
    BY ShapeFacts, OrderFacts DEF ReadAll
  <2>2. Op(c).sum <= SumTo(rev, Op(c).next - 1)
    BY DEF ClientSound, SumBehind
  <2>3. /\ SumTo(rev, Op(c).next - 1) <= SumTo(rev', Op(c).next - 1)
        /\ SumTo(rev, Op(c).next - 1) \in Nat /\ SumTo(rev', Op(c).next - 1) \in Nat
    BY <2>1, ShapeFacts DEF Grown
  <2>. QED  BY <2>1, <2>2, <2>3
<1>4. ListSound(c)'
  <2>. SUFFICES ASSUME client[c].listed
                PROVE  \E L \in [Threads -> Nat] : Saw(c, L)'
    BY DEF ListSound, Threads
  <2>1. PICK L \in [Threads -> Nat] : Saw(c, L)
    BY DEF ClientSound, ListSound
  <2>2. Ahead(c, L)'
    BY <2>1, AheadStays DEF Saw
  <2>3. CheckAhead(c, L)'
    BY <1>1, <2>1 DEF Saw, CheckAhead
  <2>4. Saw(c, L)'
    BY <2>1, <2>2, <2>3 DEF Saw
  <2>. QED  BY <2>4
<1>. QED  BY <1>2, <1>3, <1>4 DEF ClientSound

(* Frames of the two state invariants.                                     *)
LEMMA VersionStays ==
  ASSUME PolicyShapes, Grown, VersionSound, UNCHANGED <<version, restore>>
  PROVE  VersionSound'
<1>1. Len(Order) \in 0..Len(Order) /\ restore.next - 1 \in 0..Len(Order)
  BY ShapeFacts, OrderFacts DEF ReadAll
<1>2. /\ SumTo(rev, Len(Order)) <= SumTo(rev', Len(Order))
      /\ SumTo(rev, restore.next - 1) <= SumTo(rev', restore.next - 1)
      /\ SumTo(rev, Len(Order)) \in Nat /\ SumTo(rev', Len(Order)) \in Nat
      /\ SumTo(rev, restore.next - 1) \in Nat /\ SumTo(rev', restore.next - 1) \in Nat
  BY <1>1, ShapeFacts DEF Grown
<1>3. version \in Nat /\ restore.sum \in Nat
  BY ShapeFacts
<1>. QED  BY <1>2, <1>3 DEF VersionSound, Total

-----------------------------------------------------------------------------
(* What happens to requests *)

LEMMA AdmitKeepsPending ==
  ASSUME PendingSound, NEW r \in Requests, Admit(r)
  PROVE  PendingSound'
<1>. USE DEF PendingSound
<1>1. Grown
  BY WriteGrows, OrderFacts DEF Admit
<1>2. PICK p \in Policies : row' = [row EXCEPT ![r] = [phase |-> "queued", policy |-> p]]
  BY DEF Admit
<1>3. row[r].phase = "absent"
  BY DEF Admit
<1>4. UNCHANGED <<mirror, left, early, version, lock, restore, client>> /\ fresh' \subseteq Requests
  BY DEF Admit, PolicyShapes, PolicyTypeOK
<1>5. \A q \in Requests : row[q].phase = "queued" => row'[q].phase = "queued"
  BY <1>2, <1>3 DEF PolicyShapes, PolicyTypeOK
<1>6. PolicyShapes'
  BY <1>1, <1>2, <1>4 DEF PolicyShapes, PolicyTypeOK, Grown, Threads, ClientShape, UpdateShape,
     RestoreShape, Reading, ReadAll, PolicyOf
<1>7. WaitingSound'
  BY <1>4, <1>5 DEF WaitingSound, Waits
<1>8. VersionSound'
  BY <1>1, <1>4, VersionStays
<1>9. ASSUME NEW c \in Clients
      PROVE  ClientSound(c)'
  BY <1>1, <1>4, <1>5, ClientStays
<1>. QED  BY <1>6, <1>7, <1>8, <1>9

(* A request stops waiting while nobody holds the lock: no update of it is *)
(* under way, and the mirror and the restore are told.                     *)
LEMMA LeavesKeepsPending ==
  ASSUME PendingSound, NEW r \in Requests, lock = "free", Grown,
         row' \in RowShape, \A q \in Requests \ {r} : row'[q] = row[q],
         mirror' \in [Requests -> PolicyOf],
         \A q \in Requests \ {r} : mirror'[q] = mirror[q],
         {left', fresh', early'} \subseteq SUBSET Requests,
         left \subseteq left', early \subseteq early',
         r \in early' \/ (mirror'[r] = "none" /\ r \in left'),
         UNCHANGED <<version, lock, restore, client>>
  PROVE  PendingSound'
<1>. USE DEF PendingSound
<1>1. PolicyShapes'
  BY DEF PolicyShapes, PolicyTypeOK, Grown, Threads, ClientShape, UpdateShape,
     RestoreShape, RowShape, Reading, ReadAll, PolicyOf
<1>2. WaitingSound'
  <2>1. \A q \in Requests \ {r} : Waits(q) => Waits(q)'
    BY DEF Waits
  <2>. QED  BY <2>1 DEF WaitingSound, Waits
<1>3. VersionSound'
  BY VersionStays
<1>4. ASSUME NEW c \in Clients
      PROVE  ClientSound(c)'
  <2>1. lock # c
    BY ClientAssumption
  <2>. QED  BY <2>1, ClientStays
<1>. QED  BY <1>1, <1>2, <1>3, <1>4

LEMMA DispatchKeepsPending ==
  ASSUME PendingSound, NEW r \in Requests, Dispatch(r)
  PROVE  PendingSound'
<1>1. Grown
  BY WriteGrows, OrderFacts DEF PendingSound, Dispatch
<1>2. /\ row' \in RowShape /\ \A q \in Requests \ {r} : row'[q] = row[q]
      /\ mirror' \in [Requests -> PolicyOf] /\ mirror'[r] = "none"
      /\ \A q \in Requests \ {r} : mirror'[q] = mirror[q]
      /\ {left', fresh', early'} \subseteq SUBSET Requests
  BY DEF PendingSound, PolicyShapes, PolicyTypeOK, RowShape, PolicyOf, Dispatch
<1>. QED  BY <1>1, <1>2, LeavesKeepsPending DEF Dispatch

LEMMA WithdrawKeepsPending ==
  ASSUME PendingSound, NEW r \in Requests, Withdraw(r)
  PROVE  PendingSound'
<1>1. Grown
  BY WriteGrows, IdleGrows, OrderFacts DEF PendingSound, Withdraw
<1>2. row' \in RowShape /\ \A q \in Requests \ {r} : row'[q] = row[q]
  BY DEF PendingSound, PolicyShapes, PolicyTypeOK, RowShape, PolicyOf, Withdraw
<1>3. /\ mirror' \in [Requests -> PolicyOf] /\ mirror'[r] = "none"
      /\ \A q \in Requests \ {r} : mirror'[q] = mirror[q]
      /\ {left', fresh', early'} \subseteq SUBSET Requests
  BY DEF PendingSound, PolicyShapes, PolicyTypeOK, PolicyOf, Withdraw
<1>. QED  BY <1>1, <1>2, <1>3, LeavesKeepsPending DEF Withdraw

(* A request that is closed early is an exception from here on, in the     *)
(* mirror and in a restore that has read it.                               *)
LEMMA CancelsEarlyKeepsPending ==
  ASSUME PendingSound, NEW r \in Requests, CancelsEarly(r)
  PROVE  PendingSound'
<1>1. Grown
  BY WriteGrows, OrderFacts DEF PendingSound, CancelsEarly
<1>2. /\ row' \in RowShape /\ \A q \in Requests \ {r} : row'[q] = row[q]
      /\ mirror' \in [Requests -> PolicyOf] /\ r \in early'
      /\ {left', fresh', early'} \subseteq SUBSET Requests
      /\ left \subseteq left' /\ early \subseteq early' /\ mirror' = mirror
  BY DEF PendingSound, PolicyShapes, PolicyTypeOK, RowShape, PolicyOf, CancelsEarly
<1>. QED  BY <1>1, <1>2, LeavesKeepsPending DEF CancelsEarly

-----------------------------------------------------------------------------
(* The restore *)

LEMMA RestoreKeepsPending ==
  ASSUME PendingSound, RestoreStep
  PROVE  PendingSound'
<1>. USE DEF PendingSound
<1>1. UNCHANGED <<row, rev, left, early, lock, client, changed>> /\ fresh' \in {fresh, {}}
  BY DEF RestoreStep, RestoreBegins, RestoreReads, RestoreInstalls, jobs
<1>2. Grown
  BY <1>1, IdleGrows
<1>3. ASSUME NEW c \in Clients
      PROVE  ClientSound(c)'
  BY <1>1, <1>2, ClientStays
<1>4. SumTo(rev, 0) = 0 /\ 1 \in 1..ReadAll /\ Len(Order) \in Nat
  BY SumUnfolds, OrderFacts DEF ReadAll
<1>5. NoRestore \in RestoreShape /\ \A r \in Requests : NoRestore.rows[r] = "none"
  BY <1>4 DEF NoRestore, RestoreShape, PolicyOf
<1>6. CASE RestoreBegins
  <2>1. UNCHANGED <<mirror, version>>
    BY <1>6 DEF RestoreBegins, jobs
  <2>2. restore' = [NoRestore EXCEPT !.at = "read"]
    BY <1>6 DEF RestoreBegins
  <2>3. /\ restore' \in RestoreShape /\ restore'.sum = 0 /\ restore'.next = 1
        /\ \A r \in Requests : restore'.rows[r] = "none"
    BY <1>4, <2>2 DEF NoRestore, RestoreShape, PolicyOf
  <2>4. PolicyShapes'
    BY <1>1, <2>1, <2>3 DEF PolicyShapes, PolicyTypeOK, Threads, ClientShape, UpdateShape,
       RestoreShape, Reading, ReadAll, PolicyOf
  <2>5. WaitingSound'
    BY <1>1, <2>1, <2>3 DEF WaitingSound, Waits
  <2>6. VersionSound'
    BY <1>1, <1>4, <2>1, <2>3 DEF VersionSound, Total
  <2>. QED  BY <1>3, <2>4, <2>5, <2>6
<1>7. CASE RestoreReads
  <2>. DEFINE n == restore.next
              t == Order[n]
              rows == [r \in Requests |->
                  IF Thread[r] = t /\ row[r].phase = "queued" THEN row[r].policy
                                                              ELSE restore.rows[r]]
  <2>1. n \in 1..Len(Order)
    BY <1>4, <1>7, ShapeFacts DEF RestoreReads, ReadAll
  <2>2. UNCHANGED <<mirror, version>>
    BY <1>7 DEF RestoreReads, jobs
  <2>3. restore' = [restore EXCEPT !.next = n + 1, !.sum = restore.sum + rev[t], !.rows = rows]
    BY <1>7 DEF RestoreReads, PolicyShapes, RestoreShape
  <2>4. /\ SumTo(rev, n) = SumTo(rev, n - 1) + rev[t]
        /\ SumTo(rev, n) \in Nat /\ SumTo(rev, n - 1) \in Nat /\ rev[t] \in Nat
    BY <2>1, SumStep, ShapeFacts
  <2>5. rows \in [Requests -> PolicyOf]
    BY ShapeFacts
  <2>6. /\ restore'.next = n + 1 /\ restore'.sum = restore.sum + rev[t] /\ restore'.rows = rows
        /\ restore' \in RestoreShape
    <3>0. n + 1 \in 1..ReadAll
      BY <1>4, <2>1 DEF ReadAll
    <3>1. restore.sum + rev[t] \in Nat
      BY <2>4, ShapeFacts
    <3>2. restore \in RestoreShape
      BY DEF PolicyShapes
    <3>. HIDE DEF rows, t, n
    <3>. QED  BY <2>3, <2>5, <3>0, <3>1, <3>2 DEF RestoreShape
  <2>7. PolicyShapes'
    BY <1>1, <2>2, <2>6 DEF PolicyShapes, PolicyTypeOK, Threads, ClientShape, UpdateShape,
       RestoreShape, Reading, ReadAll, PolicyOf
  <2>8. WaitingSound'
    <3>1. ASSUME NEW r \in Requests, rows[r] # "none", r \notin left
          PROVE  Waits(r)
      BY <3>1 DEF WaitingSound, Waits
    <3>. QED  BY <1>1, <2>2, <2>6, <3>1 DEF WaitingSound, Waits
  <2>9. VersionSound'
    <3>1. restore.sum <= SumTo(rev, n - 1) /\ restore.sum \in Nat /\ version <= Total(rev)
      BY ShapeFacts DEF VersionSound
    <3>2. restore'.next - 1 = n
      BY <2>1, <2>6
    <3>3. restore'.sum <= SumTo(rev, n)
      BY <2>4, <2>6, <3>1
    <3>. QED  BY <1>1, <2>2, <3>1, <3>2, <3>3 DEF VersionSound, Total
  <2>. QED  BY <1>3, <2>7, <2>8, <2>9
<1>8. CASE RestoreInstalls
  <2>1. /\ restore' = NoRestore
        /\ mirror' = [r \in Requests |-> IF r \in left THEN "none" ELSE restore.rows[r]]
        /\ version' = restore.sum \/ version' = 0
    BY <1>8 DEF RestoreInstalls
  <2>2. restore'.sum = 0 /\ restore'.next = 1
    BY <2>1 DEF NoRestore
  <2>3. mirror' \in [Requests -> Policies \cup {"none"}] /\ version' \in Nat
    BY <2>1, ShapeFacts DEF PolicyOf
  <2>4. PolicyShapes'
    BY <1>1, <1>5, <2>1, <2>3 DEF PolicyShapes, PolicyTypeOK, Threads, ClientShape, UpdateShape,
       RestoreShape, Reading, ReadAll, PolicyOf
  <2>5. WaitingSound'
    BY <1>1, <1>5, <2>1 DEF WaitingSound, Waits
  <2>6. VersionSound'
    <3>1. restore.next - 1 = Len(Order)
      BY <1>4, <1>8 DEF RestoreInstalls, ReadAll
    <3>2. restore.sum <= Total(rev) /\ Total(rev) \in Nat
      BY <3>1, ShapeFacts DEF VersionSound, Total
    <3>3. version' <= Total(rev)
      BY <2>1, <3>2
    <3>. QED  BY <1>1, <1>4, <2>2, <3>3 DEF VersionSound, Total
  <2>. QED  BY <1>3, <2>4, <2>5, <2>6
<1>. QED  BY <1>6, <1>7, <1>8 DEF RestoreStep

-----------------------------------------------------------------------------
(* Clients *)

(* What a step of one client leaves to the others and to the queue.        *)
LEMMA CallKeepsPending ==
  ASSUME PendingSound, NEW c \in Clients, ClientSound(c)', Grown,
         client' \in [Clients -> ClientShape], \A d \in Clients \ {c} : client'[d] = client[d],
         \A d \in Clients \ {c} : lock = d => lock' = d,
         UNCHANGED <<left, fresh, early, restore>>,
         row' \in RowShape, \A r \in Requests : row'[r].phase = row[r].phase,
         mirror' \in [Requests -> PolicyOf],
         \A r \in Requests : mirror'[r] # "none" => Waits(r),
         version' \in Nat, version' <= Total(rev), lock' \in Clients \cup {"free"}
  PROVE  PendingSound'
<1>. USE DEF PendingSound
<1>1. PolicyShapes'
  BY DEF PolicyShapes, PolicyTypeOK, Grown, Threads, ClientShape, UpdateShape, RestoreShape,
     RowShape, Reading, ReadAll, PolicyOf
<1>2. WaitingSound'
  BY DEF WaitingSound, Waits
<1>3. VersionSound'
  <2>1. Len(Order) \in 0..Len(Order) /\ restore.next - 1 \in 0..Len(Order)
    BY ShapeFacts, OrderFacts DEF ReadAll
  <2>2. /\ SumTo(rev, Len(Order)) <= SumTo(rev', Len(Order))
        /\ SumTo(rev, restore.next - 1) <= SumTo(rev', restore.next - 1)
        /\ SumTo(rev, Len(Order)) \in Nat /\ SumTo(rev', Len(Order)) \in Nat
        /\ SumTo(rev, restore.next - 1) \in Nat /\ SumTo(rev', restore.next - 1) \in Nat
    BY <2>1, ShapeFacts DEF Grown
  <2>3. restore.sum \in Nat /\ restore.sum <= SumTo(rev, restore.next - 1)
    BY ShapeFacts DEF VersionSound
  <2>. QED  BY <2>2, <2>3 DEF VersionSound, Total
<1>4. ASSUME NEW d \in Clients
      PROVE  ClientSound(d)'
  <2>1. CASE d = c
    BY <2>1
  <2>2. CASE d # c
    BY <2>2, ClientStays
  <2>. QED  BY <2>1, <2>2
<1>. QED  BY <1>1, <1>2, <1>3, <1>4

(* A client that has no call of its own under way is sound by its list.    *)
LEMMA RestIsSound ==
  ASSUME PendingSound, NEW c \in Clients, Grown, Op(c)'.at \in {"idle", "list"},
         client'[c].listed = client[c].listed, client'[c].version = client[c].version
  PROVE  ClientSound(c)'
<1>1. HoldsLock(c)' /\ SumBehind(c)'
  BY DEF HoldsLock, SumBehind, Reading
<1>2. ASSUME client[c].listed
      PROVE  \E L \in [Threads -> Nat] : Saw(c, L)'
  <2>1. PICK L \in [Threads -> Nat] : Saw(c, L)
    BY <1>2 DEF PendingSound, ClientSound, ListSound
  <2>2. Ahead(c, L)'
    BY <2>1, AheadStays DEF Saw, PendingSound
  <2>3. CheckAhead(c, L)'
    BY DEF CheckAhead
  <2>4. Saw(c, L)'
    BY <2>1, <2>2, <2>3 DEF Saw
  <2>. QED  BY <2>4
<1>3. ListSound(c)'
  BY <1>2 DEF ListSound, Threads
<1>. QED  BY <1>1, <1>3 DEF ClientSound

(* The queue is left as it is.                                             *)
LEMMA QueueStays ==
  ASSUME PendingSound
  PROVE  /\ row \in RowShape /\ mirror \in [Requests -> PolicyOf]
         /\ \A r \in Requests : mirror[r] # "none" => Waits(r)
         /\ version \in Nat /\ version <= Total(rev) /\ lock \in Clients \cup {"free"}
         /\ client \in [Clients -> ClientShape]
BY DEF PendingSound, PolicyShapes, PolicyTypeOK, WaitingSound, VersionSound, RowShape, PolicyOf

(* A Thread more is read: the sum stays behind the revisions, and ahead of *)
(* the ones the client has seen.                                           *)
LEMMA ReadsKeepsPending ==
  ASSUME PendingSound, NEW c \in Clients, Reads(c)
  PROVE  PendingSound'
<1>. DEFINE op == Op(c)
            n == op.next
            t == Order[n]
            T == Thread[op.target]
            base == IF op.target # NoRequest /\ T = t THEN rev[t] ELSE op.base
            read == [op EXCEPT !.next = n + 1, !.sum = op.sum + rev[t], !.base = base]
<1>1. PolicyShapes /\ ClientSound(c) /\ op \in UpdateShape
  BY ShapeFacts DEF PendingSound
<1>2. /\ UNCHANGED <<row, rev, mirror, left, fresh, early, version, lock, restore, changed>>
      /\ Step(c, read)
  BY <1>1 DEF Reads, UpdateShape, jobs
<1>3. Grown
  BY <1>1, <1>2, IdleGrows
<1>4. op.at \in Reading /\ n \in 1..Len(Order)
  BY <1>1, ShapeFacts, OrderFacts DEF Reads, ReadAll
<1>5. /\ SumTo(rev, n) = SumTo(rev, n - 1) + rev[t]
      /\ SumTo(rev, n) \in Nat /\ SumTo(rev, n - 1) \in Nat /\ rev[t] \in Nat /\ t \in Threads
  BY <1>1, <1>4, SumStep, ShapeFacts, OrderFacts
<1>6. op.sum \in Nat /\ op.base \in Nat /\ op.expect \in Nat
  BY <1>1, ShapeFacts
<1>7. base \in Nat
  BY <1>5, <1>6
<1>8. n + 1 \in 1..ReadAll /\ op.sum + rev[t] \in Nat
  <2>1. n + 1 \in 1..ReadAll
    BY <1>4, OrderFacts DEF ReadAll
  <2>. QED  BY <2>1, <1>5, <1>6
<1>9. /\ read \in UpdateShape /\ read.at = op.at /\ read.next = n + 1
      /\ read.sum = op.sum + rev[t] /\ read.base = base
      /\ read.target = op.target /\ read.expect = op.expect
  <2>. HIDE DEF base, t, n, T, op
  <2>. QED  BY <1>1, <1>7, <1>8 DEF UpdateShape
<1>. HIDE DEF read
<1>10. /\ client' \in [Clients -> ClientShape] /\ Op(c)' = read
       /\ client'[c].listed = client[c].listed /\ client'[c].version = client[c].version
       /\ \A d \in Clients \ {c} : client'[d] = client[d]
  BY <1>1, <1>2, <1>9, StepFields
<1>11. HoldsLock(c)'
  BY <1>1, <1>2, <1>9, <1>10 DEF ClientSound, HoldsLock
<1>12. SumBehind(c)'
  <2>1. op.sum <= SumTo(rev, n - 1)
    BY <1>1, <1>4 DEF ClientSound, SumBehind
  <2>2. read.next - 1 = n
    BY <1>4, <1>9
  <2>3. read.sum <= SumTo(rev, n)
    <3>. HIDE DEF t, n, op
    <3>. QED  BY <1>5, <1>6, <1>9, <2>1
  <2>. QED  BY <1>2, <1>10, <2>2, <2>3 DEF SumBehind
<1>13. ListSound(c)'
  <2>. SUFFICES ASSUME client[c].listed
                PROVE  \E L \in [Threads -> Nat] : Saw(c, L)'
    BY <1>10 DEF ListSound, Threads
  <2>1. PICK L \in [Threads -> Nat] : Saw(c, L)
    BY <1>1 DEF ClientSound, ListSound
  <2>2. Ahead(c, L)'
    BY <1>1, <1>3, <2>1, AheadStays DEF Saw
  <2>3. CheckAhead(c, L)'
    <3>. SUFFICES ASSUME op.at = "check"
                  PROVE  /\ op.expect <= Total(L) /\ SumTo(L, n) <= op.sum + rev[t]
                         /\ (\E i \in 1..n : Order[i] = T) =>
                                SumTo(L, n) + base <= op.sum + rev[t] + L[T]
      <4>1. read.next - 1 = n
        BY <1>4, <1>9
      <4>. QED  BY <1>9, <1>10, <4>1 DEF CheckAhead
    <3>1. /\ op.expect <= Total(L) /\ SumTo(L, n - 1) <= op.sum
          /\ (\E i \in 1..(n - 1) : Order[i] = T) => SumTo(L, n - 1) + op.base <= op.sum + L[T]
      BY <2>1 DEF Saw, CheckAhead
    <3>2. /\ SumTo(L, n) = SumTo(L, n - 1) + L[t]
          /\ SumTo(L, n) \in Nat /\ SumTo(L, n - 1) \in Nat /\ L[t] \in Nat
      BY <1>4, SumStep
    <3>3. L[t] <= rev[t]
      BY <1>5, <2>1 DEF Saw, Ahead
    <3>4. op.target \in Requests /\ op.target # NoRequest
      BY <1>1, RequestAssumption DEF ClientSound, HoldsLock, NoRequest
    <3>5. T \in Threads /\ L[T] \in Nat
      BY <3>4, OrderFacts
    <3>6. ASSUME NEW i \in 1..n, Order[i] = T
          PROVE  SumTo(L, n) + base <= op.sum + rev[t] + L[T]
      <4>1. CASE T = t
        <5>1. base = rev[t]
          BY <3>4, <4>1
        <5>. QED  BY <1>5, <1>6, <3>1, <3>2, <4>1, <5>1
      <4>2. CASE T # t
        <5>1. base = op.base /\ i # n
          BY <3>6, <4>2
        <5>2. i \in 1..(n - 1)
          BY <1>4, <5>1
        <5>3. SumTo(L, n - 1) + op.base <= op.sum + L[T]
          BY <3>1, <3>6, <5>2
        <5>. HIDE DEF base, t, n, T, op
        <5>. QED  BY <1>5, <1>6, <3>2, <3>3, <3>5, <5>1, <5>3
      <4>. QED  BY <4>1, <4>2
    <3>7. SumTo(L, n) <= op.sum + rev[t]
      BY <1>5, <1>6, <3>1, <3>2, <3>3
    <3>. QED  BY <3>1, <3>6, <3>7
  <2>4. Saw(c, L)'
    BY <1>10, <2>1, <2>2, <2>3 DEF Saw
  <2>. QED  BY <2>4
<1>14. ClientSound(c)'
  BY <1>11, <1>12, <1>13 DEF ClientSound
<1>. QED  BY <1>2, <1>3, <1>10, <1>14, QueueStays, CallKeepsPending

LEMMA IdleFacts ==
  /\ Idle \in UpdateShape /\ Idle.at = "idle" /\ Idle.next = 1 /\ Idle.sum = 0
  /\ SumTo(rev, 0) = 0
BY OrderFacts, SumUnfolds DEF Idle, UpdateShape, PolicyOf, ReadAll

LEMMA ListBeginsKeepsPending ==
  ASSUME PendingSound, NEW c \in Clients, ListBegins(c)
  PROVE  PendingSound'
<1>. DEFINE op == [Idle EXCEPT !.at = "refresh"]
<1>1. PolicyShapes /\ ClientSound(c)
  BY DEF PendingSound
<1>2. /\ UNCHANGED <<row, rev, mirror, left, fresh, early, version, lock, restore, changed>>
      /\ Step(c, op)
  BY DEF ListBegins, jobs
<1>3. Grown
  BY <1>1, <1>2, IdleGrows
<1>4. op \in UpdateShape /\ op.at = "refresh" /\ op.next = 1 /\ op.sum = 0
  BY IdleFacts DEF Idle, UpdateShape, Reading
<1>. HIDE DEF op
<1>5. /\ client' \in [Clients -> ClientShape] /\ Op(c)' = op
      /\ client'[c].listed = client[c].listed /\ client'[c].version = client[c].version
      /\ \A d \in Clients \ {c} : client'[d] = client[d]
  BY <1>1, <1>2, <1>4, StepFields
<1>6. HoldsLock(c)' /\ SumBehind(c)'
  BY <1>2, <1>4, <1>5, IdleFacts DEF HoldsLock, SumBehind
<1>7. ListSound(c)'
  <2>. SUFFICES ASSUME client[c].listed
                PROVE  \E L \in [Threads -> Nat] : Saw(c, L)'
    BY <1>5 DEF ListSound, Threads
  <2>1. PICK L \in [Threads -> Nat] : Saw(c, L)
    BY <1>1 DEF ClientSound, ListSound
  <2>2. Ahead(c, L)'
    BY <1>1, <1>3, <2>1, AheadStays DEF Saw
  <2>3. CheckAhead(c, L)'
    BY <1>4, <1>5 DEF CheckAhead
  <2>4. Saw(c, L)'
    BY <1>5, <2>1, <2>2, <2>3 DEF Saw
  <2>. QED  BY <2>4
<1>8. ClientSound(c)'
  BY <1>6, <1>7 DEF ClientSound
<1>. QED  BY <1>2, <1>3, <1>5, <1>8, QueueStays, CallKeepsPending

(* The version that is set is the sum of a full reading.                   *)
LEMMA FullReading ==
  ASSUME PendingSound, NEW c \in Clients, Op(c).at \in Reading, Op(c).next = ReadAll
  PROVE  Op(c).sum \in Nat /\ Op(c).sum <= Total(rev)
<1>1. Op(c).next - 1 = Len(Order)
  BY OrderFacts DEF ReadAll
<1>2. Op(c).sum <= SumTo(rev, Op(c).next - 1)
  BY DEF PendingSound, ClientSound, SumBehind
<1>3. Op(c).sum \in Nat
  BY ShapeFacts DEF PendingSound
<1>. QED  BY <1>1, <1>2, <1>3 DEF Total

LEMMA VersionIsSetKeepsPending ==
  ASSUME PendingSound, NEW c \in Clients, VersionIsSet(c)
  PROVE  PendingSound'
<1>. DEFINE op == [Op(c) EXCEPT !.at = "list"]
<1>1. PolicyShapes
  BY DEF PendingSound
<1>2. /\ UNCHANGED <<row, rev, mirror, left, fresh, early, lock, restore, changed>>
      /\ Step(c, op)
      /\ version' = Op(c).sum
  BY DEF VersionIsSet, jobs
<1>3. Grown
  BY <1>1, <1>2, IdleGrows
<1>4. op \in UpdateShape /\ op.at = "list"
  BY <1>1, ShapeFacts DEF UpdateShape
<1>. HIDE DEF op
<1>5. /\ client' \in [Clients -> ClientShape] /\ Op(c)' = op
      /\ client'[c].listed = client[c].listed /\ client'[c].version = client[c].version
      /\ \A d \in Clients \ {c} : client'[d] = client[d]
  BY <1>1, <1>2, <1>4, StepFields
<1>6. ClientSound(c)'
  BY <1>3, <1>4, <1>5, RestIsSound
<1>7. version' \in Nat /\ version' <= Total(rev)
  BY <1>2, FullReading DEF VersionIsSet, Reading
<1>. QED  BY <1>2, <1>3, <1>5, <1>6, <1>7, QueueStays, CallKeepsPending

(* From here on the client knows the revisions as they are now.            *)
LEMMA ListsKeepsPending ==
  ASSUME PendingSound, NEW c \in Clients, Lists(c)
  PROVE  PendingSound'
<1>1. PolicyShapes /\ client \in [Clients -> ClientShape]
  BY DEF PendingSound, PolicyShapes
<1>2. /\ UNCHANGED <<row, rev, mirror, left, fresh, early, version, lock, restore>>
      /\ client' = [client EXCEPT ![c] = [op |-> Idle, listed |-> TRUE, version |-> version]]
      /\ changed' = [changed EXCEPT ![c] = {}]
  BY DEF Lists, jobs
<1>3. Grown
  <2>1. /\ rev \in [Threads -> Nat] /\ changed \in [Clients -> SUBSET Threads]
        /\ \A n \in 0..Len(Order) : SumTo(rev, n) \in Nat
    BY <1>1, ShapeFacts DEF PolicyShapes
  <2>. QED  BY <1>2, <2>1 DEF Grown
<1>4. /\ Op(c)' = Idle /\ client'[c].listed = TRUE /\ client'[c].version = version
      /\ \A d \in Clients \ {c} : client'[d] = client[d]
  BY <1>1, <1>2 DEF Op
<1>5. client' \in [Clients -> ClientShape]
  BY <1>1, <1>2, IdleFacts, QueueStays DEF ClientShape
<1>6. HoldsLock(c)' /\ SumBehind(c)'
  BY <1>4, IdleFacts DEF HoldsLock, SumBehind, Reading
<1>7. Saw(c, rev)'
  <2>1. rev \in [Threads -> Nat] /\ changed'[c] = {}
    BY <1>1, <1>2 DEF PolicyShapes, PolicyTypeOK
  <2>2. Ahead(c, rev)'
    BY <1>2, <2>1 DEF Ahead, Threads
  <2>3. CheckAhead(c, rev)'
    BY <1>4, IdleFacts DEF CheckAhead
  <2>4. client'[c].version <= Total(rev)
    BY <1>4, QueueStays
  <2>. QED  BY <1>2, <2>2, <2>3, <2>4 DEF Saw, Total
<1>8. ListSound(c)'
  BY <1>3, <1>7 DEF ListSound, Grown, Threads
<1>9. ClientSound(c)'
  BY <1>6, <1>8 DEF ClientSound
<1>. QED  BY <1>2, <1>3, <1>4, <1>5, <1>9, QueueStays, CallKeepsPending

LEMMA UpdateBeginsKeepsPending ==
  ASSUME PendingSound, NEW c \in Clients, NEW r \in Requests, NEW p \in Policies,
         UpdateBegins(c, r, p)
  PROVE  PendingSound'
<1>. DEFINE op == [Idle EXCEPT !.at = "check", !.target = r, !.policy = p,
                               !.expect = client[c].version]
<1>1. PolicyShapes /\ ClientSound(c) /\ client[c].version \in Nat
  BY ShapeFacts DEF PendingSound
<1>2. /\ UNCHANGED <<row, rev, mirror, left, fresh, early, version, restore, changed>>
      /\ Step(c, op) /\ lock' = c
  BY DEF UpdateBegins, jobs
<1>3. Grown
  BY <1>1, <1>2, IdleGrows
<1>4. /\ op \in UpdateShape /\ op.at = "check" /\ op.next = 1 /\ op.sum = 0
      /\ op.target = r /\ op.expect = client[c].version
  BY <1>1, IdleFacts DEF Idle, UpdateShape, Reading, PolicyOf
<1>. HIDE DEF op
<1>5. /\ client' \in [Clients -> ClientShape] /\ Op(c)' = op
      /\ client'[c].listed = client[c].listed /\ client'[c].version = client[c].version
      /\ \A d \in Clients \ {c} : client'[d] = client[d]
  BY <1>1, <1>2, <1>4, StepFields
<1>6. client[c].listed /\ mirror[r] # "none" /\ lock = "free"
  BY DEF UpdateBegins
<1>8. HoldsLock(c)' /\ SumBehind(c)'
  BY <1>2, <1>4, <1>5, <1>6, IdleFacts DEF HoldsLock, SumBehind
<1>9. PICK L \in [Threads -> Nat] : Saw(c, L)
  BY <1>1, <1>6 DEF ClientSound, ListSound
<1>10. Ahead(c, L)'
  BY <1>1, <1>3, <1>9, AheadStays DEF Saw
<1>11. CheckAhead(c, L)'
  <2>1. SumTo(L, 0) = 0 /\ 0 <= 0
    BY SumUnfolds
  <2>2. client[c].version <= Total(L)
    BY <1>9 DEF Saw
  <2>3. 1..0 = {} /\ 1 - 1 = 0
    OBVIOUS
  <2>. QED  BY <1>4, <1>5, <2>1, <2>2, <2>3 DEF CheckAhead
<1>12. ListSound(c)'
  <2>1. Saw(c, L)'
    BY <1>5, <1>9, <1>10, <1>11 DEF Saw
  <2>. QED  BY <2>1 DEF ListSound, Threads
<1>13. ClientSound(c)'
  BY <1>8, <1>12 DEF ClientSound
<1>14. \A d \in Clients \ {c} : lock = d => lock' = d
  BY <1>6, ClientAssumption
<1>. QED  BY <1>2, <1>3, <1>5, <1>13, <1>14, QueueStays, CallKeepsPending

(* An update that ends, refused or not, gives the lock back.               *)
LEMMA CallEnds ==
  ASSUME PendingSound, NEW c \in Clients, Op(c).at \in {"check", "after"},
         lock' = "free", Step(c, Idle),
         UNCHANGED <<row, rev, left, fresh, early, restore, changed>>,
         mirror' \in [Requests -> PolicyOf],
         \A r \in Requests : mirror'[r] # "none" => Waits(r),
         version' \in Nat, version' <= Total(rev)
  PROVE  PendingSound'
<1>1. PolicyShapes /\ lock = c
  BY DEF PendingSound, ClientSound, HoldsLock
<1>2. Grown
  BY <1>1, IdleGrows
<1>3. /\ client' \in [Clients -> ClientShape] /\ Op(c)' = Idle
      /\ client'[c].listed = client[c].listed /\ client'[c].version = client[c].version
      /\ \A d \in Clients \ {c} : client'[d] = client[d]
  BY <1>1, IdleFacts, StepFields
<1>4. ClientSound(c)'
  BY <1>2, <1>3, IdleFacts, RestIsSound
<1>. QED  BY <1>1, <1>2, <1>3, <1>4, QueueStays, CallKeepsPending

LEMMA CommitsKeepsPending ==
  ASSUME PendingSound, NEW c \in Clients, Commits(c)
  PROVE  PendingSound'
<1>. DEFINE r == Op(c).target
            op == [Op(c) EXCEPT !.at = "after", !.next = 1, !.sum = 0]
<1>1. /\ PolicyShapes /\ ClientSound(c) /\ Op(c).at = "check" /\ Op(c) \in UpdateShape
      /\ r \in Requests /\ lock = c /\ client[c].listed
  BY ShapeFacts DEF PendingSound, ClientSound, HoldsLock, Commits
<1>2. CASE Refused(c)
  BY <1>1, <1>2, CallEnds, QueueStays DEF Refused, jobs
<1>3. CASE /\ row[r].phase = "queued" /\ Written(Thread[r])
           /\ row' = [row EXCEPT ![r].policy = Op(c).policy]
           /\ Step(c, op) /\ UNCHANGED <<mirror, left, fresh, early, version, lock, restore>>
  <2>1. Grown
    BY <1>1, <1>3, WriteGrows, OrderFacts
  <2>2. op \in UpdateShape /\ op.at = "after" /\ op.next = 1 /\ op.sum = 0 /\ op.target = r
    <3>1. 1 \in 1..ReadAll
      BY OrderFacts
    <3>. QED  BY <1>1, <3>1 DEF UpdateShape, Reading
  <2>. HIDE DEF op
  <2>3. /\ client' \in [Clients -> ClientShape] /\ Op(c)' = op
        /\ client'[c].listed = client[c].listed /\ client'[c].version = client[c].version
        /\ \A d \in Clients \ {c} : client'[d] = client[d]
    BY <1>1, <1>3, <2>2, StepFields
  <2>4. row' \in RowShape /\ \A q \in Requests : row'[q].phase = row[q].phase
    <3>1. Op(c).policy \in PolicyOf
      BY <1>1 DEF UpdateShape
    <3>. QED  BY <1>1, <1>3, <3>1, QueueStays DEF RowShape
  <2>5. HoldsLock(c)'
    BY <1>1, <1>3, <2>2, <2>3, <2>4 DEF HoldsLock
  <2>6. SumBehind(c)'
    <3>1. SumTo(rev', 0) = 0
      BY SumUnfolds
    <3>. QED  BY <2>2, <2>3, <3>1 DEF SumBehind
  <2>7. PICK L \in [Threads -> Nat] : Saw(c, L)
    BY <1>1 DEF ClientSound, ListSound
  <2>8. Saw(c, L)'
    <3>1. Ahead(c, L)'
      BY <1>1, <2>1, <2>7, AheadStays DEF Saw
    <3>2. CheckAhead(c, L)'
      BY <2>2, <2>3 DEF CheckAhead
    <3>. QED  BY <2>3, <2>7, <3>1, <3>2 DEF Saw
  <2>9. ClientSound(c)'
    BY <2>5, <2>6, <2>8 DEF ClientSound, ListSound, Threads
  <2>. QED  BY <1>3, <2>1, <2>3, <2>4, <2>9, QueueStays, CallKeepsPending
<1>. QED  BY <1>2, <1>3 DEF Commits, jobs

LEMMA UpdateEndsKeepsPending ==
  ASSUME PendingSound, NEW c \in Clients, UpdateEnds(c)
  PROVE  PendingSound'
<1>1. /\ Op(c).at = "after" /\ Op(c) \in UpdateShape
      /\ Op(c).target \in Requests /\ row[Op(c).target].phase = "queued"
  BY ShapeFacts DEF PendingSound, ClientSound, HoldsLock, UpdateEnds
<1>2. version' \in Nat /\ version' <= Total(rev)
  BY FullReading DEF UpdateEnds, Reading
<1>3. mirror' = [mirror EXCEPT ![Op(c).target] = Op(c).policy]
  BY DEF UpdateEnds
<1>4. /\ mirror' \in [Requests -> PolicyOf]
      /\ \A r \in Requests : mirror'[r] # "none" => Waits(r)
  <2>1. Op(c).policy \in PolicyOf
    BY <1>1 DEF UpdateShape
  <2>. QED  BY <1>1, <1>3, <2>1, QueueStays DEF Waits
<1>. QED  BY <1>1, <1>2, <1>4, CallEnds DEF UpdateEnds

(* A restart empties memory: the queue and what clients know stay.         *)
LEMMA RestartKeepsPending ==
  ASSUME PendingSound, Restart
  PROVE  PendingSound'
<1>1. /\ UNCHANGED <<row, rev, early, changed>> /\ version' = 0 /\ lock' = "free"
      /\ left' = {} /\ fresh' = {} /\ restore' = NoRestore /\ mirror' = [r \in Requests |-> "none"]
      /\ client' = [c \in Clients |-> [client[c] EXCEPT !.op = Idle]]
  BY DEF Restart
<1>2. PolicyShapes /\ client \in [Clients -> ClientShape]
  BY DEF PendingSound, PolicyShapes
<1>3. Grown
  BY <1>1, <1>2, IdleGrows
<1>4. /\ NoRestore \in RestoreShape /\ NoRestore.sum = 0 /\ NoRestore.next = 1
      /\ \A r \in Requests : NoRestore.rows[r] = "none"
  BY OrderFacts DEF NoRestore, RestoreShape, PolicyOf, ReadAll
<1>5. ASSUME NEW c \in Clients
      PROVE  /\ client'[c] \in ClientShape /\ client'[c].op = Idle
             /\ client'[c].listed = client[c].listed /\ client'[c].version = client[c].version
  <2>1. client[c] \in ClientShape /\ client'[c] = [client[c] EXCEPT !.op = Idle]
    BY <1>1, <1>2
  <2>. QED  BY <2>1, IdleFacts DEF ClientShape
<1>6. client' \in [Clients -> ClientShape]
  BY <1>1, <1>5
<1>7. PolicyShapes'
  BY <1>1, <1>2, <1>4, <1>6 DEF PolicyShapes, PolicyTypeOK, Threads, ClientShape, UpdateShape,
     RestoreShape, Reading, ReadAll, PolicyOf
<1>8. WaitingSound'
  BY <1>1, <1>4 DEF WaitingSound
<1>9. VersionSound'
  <2>1. SumTo(rev, 0) = 0 /\ Total(rev) \in Nat
    BY <1>2, IdleFacts, ShapeFacts
  <2>. QED  BY <1>1, <1>4, <2>1 DEF VersionSound, Total
<1>10. ASSUME NEW c \in Clients
       PROVE  ClientSound(c)'
  <2>1. Op(c)' = Idle
    BY <1>5 DEF Op
  <2>. QED  BY <1>3, <1>5, <2>1, IdleFacts, RestIsSound
<1>. QED  BY <1>7, <1>8, <1>9, <1>10 DEF PendingSound

-----------------------------------------------------------------------------
(* The theorems *)

LEMMA PendingInit == PolicyInit => PendingSound
<1>. SUFFICES ASSUME PolicyInit
              PROVE  PendingSound
  OBVIOUS
<1>. USE DEF PolicyInit
<1>1. /\ NoRestore \in RestoreShape /\ NoRestore.sum = 0 /\ NoRestore.next = 1
      /\ \A r \in Requests : NoRestore.rows[r] = "none"
  BY OrderFacts DEF NoRestore, RestoreShape, PolicyOf, ReadAll
<1>2. ASSUME NEW c \in Clients
      PROVE  client[c] \in ClientShape /\ Op(c) = Idle /\ client[c].listed = FALSE
  BY IdleFacts DEF Op, ClientShape
<1>3. PolicyShapes
  BY <1>1, <1>2 DEF PolicyShapes, PolicyTypeOK
<1>4. WaitingSound
  BY <1>1 DEF WaitingSound
<1>5. VersionSound
  <2>1. SumTo(rev, 0) = 0 /\ Total(rev) \in Nat
    BY <1>3, IdleFacts, ShapeFacts
  <2>. QED  BY <1>1, <2>1 DEF VersionSound
<1>6. \A c \in Clients : ClientSound(c)
  BY <1>2, IdleFacts DEF ClientSound, HoldsLock, SumBehind, ListSound, Reading
<1>. QED  BY <1>3, <1>4, <1>5, <1>6 DEF PendingSound

LEMMA PendingStep == PendingSound /\ [PolicyNext]_policyVars => PendingSound'
<1>. SUFFICES ASSUME PendingSound, [PolicyNext]_policyVars
              PROVE  PendingSound'
  OBVIOUS
<1>1. ASSUME NEW r \in Requests, Admit(r)
      PROVE  PendingSound'
  BY <1>1, AdmitKeepsPending
<1>2. ASSUME NEW r \in Requests, Dispatch(r) \/ Withdraw(r) \/ CancelsEarly(r)
      PROVE  PendingSound'
  BY <1>2, DispatchKeepsPending, WithdrawKeepsPending, CancelsEarlyKeepsPending
<1>4. CASE RestoreStep
  BY <1>4, RestoreKeepsPending
<1>5. ASSUME NEW c \in Clients, ClientStep(c)
      PROVE  PendingSound'
  BY <1>5, ReadsKeepsPending, ListBeginsKeepsPending, VersionIsSetKeepsPending,
     ListsKeepsPending, CommitsKeepsPending, UpdateEndsKeepsPending DEF ClientStep
<1>6. ASSUME NEW c \in Clients, NEW r \in Requests, NEW p \in Policies, UpdateBegins(c, r, p)
      PROVE  PendingSound'
  BY <1>6, UpdateBeginsKeepsPending
<1>7. CASE Restart
  BY <1>7, RestartKeepsPending
<1>8. CASE UNCHANGED policyVars
  BY <1>8 DEF policyVars, jobs, PendingSound, PolicyShapes, PolicyTypeOK, WaitingSound, Waits,
     VersionSound, ClientSound, HoldsLock, SumBehind, ListSound, Saw, Ahead, CheckAhead, Op,
     Total, Threads,
     ClientShape, UpdateShape, RestoreShape, Reading, ReadAll, PolicyOf
<1>. QED  BY <1>1, <1>2, <1>4, <1>5, <1>6, <1>7, <1>8 DEF PolicyNext

(* The inductive invariant holds, of any requests, Threads and clients.    *)
THEOREM PendingIsSound == PolicySpec => []PendingSound
BY PendingInit, PendingStep, PTL DEF PolicySpec

(* The cached version never runs ahead of the revisions, and the mirror    *)
(* offers only requests that wait in the queue, or that a client has       *)
(* closed before the mirror had them (_load_pending_records,               *)
(* update_policy, control).                                                *)
THEOREM PolicySafety == PolicySpec => []PolicyInv
<1>1. PendingSound => PolicyInv
  BY DEF PendingSound, PolicyShapes, WaitingSound, Waits, VersionSound, PolicyInv,
     VersionNotAhead, MirrorWaits
<1>. QED  BY <1>1, PendingIsSound, PTL

(* At the end of a check that goes well the Thread of the request has the  *)
(* revision it had when the client listed.                                 *)
LEMMA CommitIsFresh ==
  ASSUME PendingSound, NEW c \in Clients, Commits(c), ~Refused(c)
  PROVE  Thread[Op(c).target] \notin changed[c]
<1>. DEFINE op == Op(c)
            T == Thread[op.target]
<1>1. /\ op.at = "check" /\ op.next = ReadAll
      /\ op.sum = op.expect /\ rev[T] = op.base
  BY DEF Commits
<1>2. client[c].listed /\ op.target \in Requests /\ T \in Threads
  BY <1>1, OrderFacts DEF PendingSound, ClientSound, HoldsLock
<1>3. PICK L \in [Threads -> Nat] : Saw(c, L)
  BY <1>2 DEF PendingSound, ClientSound, ListSound
<1>4. op.next - 1 = Len(Order) /\ \E i \in 1..(op.next - 1) : Order[i] = T
  <2>1. op.next - 1 = Len(Order)
    BY <1>1, OrderFacts DEF ReadAll
  <2>2. \E i \in 1..Len(Order) : Order[i] = T
    BY <1>2, OrderFacts
  <2>. QED  BY <2>1, <2>2
<1>5. op.expect <= Total(L) /\ Total(L) + op.base <= op.sum + L[T]
  BY <1>1, <1>3, <1>4 DEF Saw, CheckAhead, Total
<1>6. Total(L) \in Nat /\ L[T] \in Nat /\ op.sum \in Nat /\ op.base \in Nat
  <2>1. Total(L) \in Nat
    BY SumType, OrderFacts DEF Total
  <2>. QED  BY <1>2, <2>1, ShapeFacts DEF PendingSound
<1>7. rev[T] <= L[T]
  BY <1>1, <1>5, <1>6
<1>8. T \in changed[c] => L[T] < rev[T]
  BY <1>2, <1>3 DEF Saw, Ahead
<1>9. rev[T] \in Nat
  BY <1>1, <1>6
<1>. QED  BY <1>6, <1>7, <1>8, <1>9

(* No update commits over a change of its Thread that its client has not   *)
(* seen: two equal sums, read at different times, never hide one           *)
(* (update_policy, update_execution_queue_policy).                         *)
THEOREM UpdatesAreFresh == PolicySpec => UpdateIsFresh
<1>1. ASSUME PendingSound, PolicyNext, NEW c \in Clients, Op(c).at = "check", Op(c)'.at = "after"
      PROVE  Thread[Op(c).target] \notin changed[c]
  <2>1. client \in [Clients -> ClientShape] /\ client'[c] # client[c]
    BY <1>1 DEF PendingSound, PolicyShapes, Op
  <2>2. CASE \E r \in Requests : Admit(r) \/ Dispatch(r) \/ Withdraw(r) \/ CancelsEarly(r)
    BY <2>1, <2>2 DEF Admit, Dispatch, Withdraw, CancelsEarly
  <2>3. CASE RestoreStep
    BY <2>1, <2>3 DEF RestoreStep, RestoreBegins, RestoreReads, RestoreInstalls
  <2>4. ASSUME NEW d \in Clients, ClientStep(d), d # c
        PROVE  FALSE
    BY <2>1, <2>4 DEF ClientStep, Reads, ListBegins, VersionIsSet, Lists, Commits, Refused,
       UpdateEnds, Step
  <2>5. CASE ClientStep(c)
    <3>1. CASE Commits(c)
      <4>1. ~Refused(c)
        <5>1. Refused(c) => Op(c)' = Idle
          BY <2>1 DEF Refused, Step, Op
        <5>. QED  BY <1>1, <5>1, IdleFacts
      <4>. QED  BY <1>1, <3>1, <4>1, CommitIsFresh
    <3>2. CASE Reads(c)
      <4>1. \E n, s, b : Step(c, [Op(c) EXCEPT !.next = n, !.sum = s, !.base = b])
        BY <3>2 DEF Reads
      <4>2. Op(c)'.at = Op(c).at
        BY <1>1, <2>1, <4>1, ShapeFacts DEF PendingSound, Step, Op, UpdateShape
      <4>. QED  BY <1>1, <4>2
    <3>3. ~(ListBegins(c) \/ VersionIsSet(c) \/ Lists(c) \/ UpdateEnds(c))
      BY <1>1 DEF ListBegins, VersionIsSet, Lists, UpdateEnds
    <3>. QED  BY <2>5, <3>1, <3>2, <3>3 DEF ClientStep
  <2>6. ASSUME NEW d \in Clients, NEW r \in Requests, NEW p \in Policies, UpdateBegins(d, r, p)
        PROVE  FALSE
    <3>1. d # c
      BY <1>1, <2>6 DEF UpdateBegins
    <3>. QED  BY <2>1, <2>6, <3>1 DEF UpdateBegins, Step
  <2>7. CASE Restart
    <3>1. Op(c)' = Idle
      BY <2>1, <2>7 DEF Restart, Op, ClientShape
    <3>. QED  BY <1>1, <3>1, IdleFacts
  <2>. QED  BY <1>1, <2>2, <2>3, <2>4, <2>5, <2>6, <2>7 DEF PolicyNext
<1>2. PendingSound /\ [PolicyNext]_policyVars =>
          [\A c \in Clients : Op(c).at = "check" /\ Op(c)'.at = "after" =>
              Thread[Op(c).target] \notin changed[c]]_policyVars
  BY <1>1
<1>. QED  BY <1>2, PendingIsSound, PTL DEF PolicySpec, UpdateIsFresh
=============================================================================
