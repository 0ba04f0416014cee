----------------------- MODULE MCSchedulerLeadership -----------------------
(* A leader and a standby; with four faults a successor can be disturbed by
   the one it succeeded and fail itself. *)
EXTENDS SchedulerLeadership
=============================================================================
