---------------------------- MODULE MCJobService ----------------------------
(* Small instances of JobService for TLC.  Without follow-ups and with one  *)
(* policy the two jobs are interchangeable: only the order of their         *)
(* admission tells them apart.                                              *)
EXTENDS JobService, TLC

CONSTANTS j1, j2

TwoJobs == {j1, j2}
NoFollowUps == {}
OneJob == {j1}
OneFollowUp == {j2}
AfterTurn == [j \in TwoJobs |-> "after_turn"]
MixedPolicies == [j \in TwoJobs |-> IF j = j1 THEN "after_tool_result" ELSE "after_interrupt"]
TwoSymmetry == Permutations(TwoJobs)

\* Two views of a state.  What they leave out can neither enable nor change a
\* later step, and no property of their runs depends on it: observations, and
\* the abandoned executors of a settled execution, which publish or end.
\* ControlView, for the one policy after_turn, also leaves out the value of a
\* known outcome, because its row is closed, and the boundaries, because the
\* policy allows every one that a caller names.
ControlView ==
    LET open == {j \in Jobs : outcome[j] = "unknown"}
        matters(j) == [job[j] EXCEPT !.boundary = "none",
                                     !.abandoned = IF j \in open THEN @ ELSE {}]
    IN <<admission, row, open, [j \in Jobs |-> matters(j)], slot, waiting, dispatch, up, bounds>>

CrashView ==
    LET tells(j) == [job[j] EXCEPT !.abandoned = IF outcome[j] = "unknown" THEN @ ELSE {}]
        cancelled == [j \in Jobs |-> Len(SelectSeq(events[j], LAMBDA e : e = "cancelled"))]
    IN <<durable, [j \in Jobs |-> tells(j)], slot, waiting, dispatch, up, cancelled, bounds>>

\* One thing goes wrong: a crash, a failed write or an interrupt request.
OneDisturbance == crashes + faults + requests <= 1
=============================================================================
