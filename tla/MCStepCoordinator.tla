------------------------- MODULE MCStepCoordinator -------------------------
(* The step coordinator over the kinds of step that differ in their calls: no
   call, one chat call whose answer may be rejected for the first or for the
   second time, and the four calls of a policy search. *)
EXTENDS StepCoordinator

MCKinds == {"read_ticket", "model_decision", "search_policy"}
=============================================================================
