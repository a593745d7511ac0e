---------------------------- MODULE JobLifecycle ----------------------------
(***************************************************************************)
(* The status machine of a Job: the status classes and the transition      *)
(* table that transition_job_status enforces.                              *)
(***************************************************************************)

TerminalStatus == {"completed", "succeeded", "failed", "cancelled", "timed_out"}

\* A failed parent discards its queued terminal follow-ups.
FailedStatus == {"failed", "timed_out"}

ActiveStatus == {"running", "streaming", "waiting_input", "interrupt_pending"}

PausableStatus == {"running", "streaming", "waiting_input"}

JobStatus ==
    {"accepted", "queued", "paused", "cancelling"} \cup ActiveStatus \cup TerminalStatus

\* _ALLOWED_TRANSITIONS.
AllowedTargets(status) ==
    CASE status = "accepted" -> {"queued", "running", "failed", "cancelled"}
      [] status = "queued" -> {"running", "failed", "cancelled"}
      [] status = "running" ->
            {"streaming", "waiting_input", "paused", "interrupt_pending", "cancelling"}
            \cup TerminalStatus
      [] status = "streaming" ->
            {"running", "waiting_input", "paused", "interrupt_pending", "cancelling"}
            \cup TerminalStatus
      [] status = "waiting_input" ->
            {"running", "paused", "interrupt_pending", "cancelling"} \cup TerminalStatus
      [] status = "paused" -> {"running", "cancelling", "cancelled"}
      [] status = "interrupt_pending" -> {"running", "cancelling", "failed", "cancelled"}
      [] status = "cancelling" -> TerminalStatus
      [] status \in TerminalStatus -> {}

\* transition_job_status succeeds: the same status is a no-op, anything else
\* must be in the table; otherwise InvalidJobStatusTransitionError is raised.
MayTransition(status, target) ==
    status = target \/ target \in AllowedTargets(status)
=============================================================================
