---------------------------- MODULE ThreadQueue -----------------------------
(***************************************************************************)
(* What the execution queue of one Thread promises, without processes,     *)
(* claims, holders, memory or crashes: rows are admitted in an order, only *)
(* the first unsettled row is taken and started, a settled row stays       *)
(* settled.  A row may be taken again (a restart claims it anew), but only *)
(* while it has no outcome.                                                *)
(***************************************************************************)
EXTENDS Naturals, ExecutionOutcome

CONSTANT Jobs

VARIABLES phase, outcome, cursor

vars == <<phase, outcome, cursor>>

Open(j) == phase[j] \notin {"absent", "terminal"}

First(j) == Open(j) /\ \A k \in Jobs : Open(k) => cursor[j] <= cursor[k]

Init ==
    /\ phase = [j \in Jobs |-> "absent"]
    /\ outcome = [j \in Jobs |-> "unknown"]
    /\ cursor = [j \in Jobs |-> 0]

\* The admission commit is later than every commit before it.
Admit(j) ==
    /\ phase[j] = "absent"
    /\ phase' = [phase EXCEPT ![j] = "queued"]
    /\ cursor' = [cursor EXCEPT ![j] = cursor'[j]]
    /\ \A k \in Jobs : cursor[k] < cursor'[j]
    /\ UNCHANGED outcome

Take(j) ==
    /\ First(j)
    /\ phase' = [phase EXCEPT ![j] = "claimed"]
    /\ UNCHANGED <<outcome, cursor>>

Start(j) ==
    /\ First(j)
    /\ phase[j] \in {"claimed", "started"}
    /\ phase' = [phase EXCEPT ![j] = "started"]
    /\ UNCHANGED <<outcome, cursor>>

Settle(j, result) ==
    /\ Open(j)
    /\ result # "unknown"
    /\ phase' = [phase EXCEPT ![j] = "terminal"]
    /\ outcome' = [outcome EXCEPT ![j] = result]
    /\ UNCHANGED cursor

\* A user's cancellation or a timeout may still explain a lost execution.
Correct(j, result) ==
    /\ outcome[j] = "execution_lost"
    /\ result \in {"cancelled", "interrupted"}
    /\ outcome' = [outcome EXCEPT ![j] = result]
    /\ UNCHANGED <<phase, cursor>>

Next ==
    \E j \in Jobs :
        \/ Admit(j) \/ Take(j) \/ Start(j)
        \/ \E result \in Outcomes : Settle(j, result) \/ Correct(j, result)

Spec == Init /\ [][Next]_vars
=============================================================================
