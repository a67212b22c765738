-------------------------- MODULE MCScheduledRuns --------------------------
(* ScheduledRuns with two runs and a task that two failures switch off. *)
EXTENDS ScheduledRuns

=============================================================================
