-------------------------- MODULE ExecutionOutcome --------------------------
(***************************************************************************)
(* executions.outcome, and what a terminal status written by the job       *)
(* service makes of it.                                                    *)
(***************************************************************************)

\* ControlOutcome; completed_empty is a completion.
Outcomes == {"unknown", "completed", "failed", "interrupted", "cancelled", "execution_lost"}

\* The statuses mark_job_terminal_status accepts.
TerminalMarks == {"failed", "cancelled", "timed_out", "execution_lost"}

OutcomeOf(mark) ==
    CASE mark = "failed" -> "failed"
      [] mark = "cancelled" -> "cancelled"
      [] mark = "timed_out" -> "interrupted"
      [] mark = "execution_lost" -> "execution_lost"

\* Mutant: a late mark overwrites a settled outcome.
MarkOverwrites(current, mark) == OutcomeOf(mark)

\* _mark_admission_terminal_status with preserve_recovery: a settled outcome
\* absorbs the mark, and the business status "failed" never touches an
\* execution that is unknown or lost.
MarkedOutcome(current, mark) ==
    IF current \notin {"unknown", "execution_lost"} \/ mark = "failed"
    THEN current
    ELSE OutcomeOf(mark)

\* The trigger execution_queue_terminal closes the row of a settled execution.
RowPhaseAfter(phase, result) ==
    IF result # "unknown" THEN "terminal" ELSE phase
=============================================================================
