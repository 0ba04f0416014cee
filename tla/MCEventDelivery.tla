-------------------------- MODULE MCEventDelivery --------------------------
(* Finite instances of EventDelivery. *)
EXTENDS EventDelivery

CONSTANTS p1, p2, c1, c2

Emitted == {e \in Events : rows[e] # "absent"}

(* As long as there are two events for two consumers, the one fault is that a
   consumer which is not steady stops.  Faults, emitting an event and starting such
   a consumer are never obliged, so that nothing fair is held back. *)
SharedUntilFault ==
  Cardinality(Emitted) > 1 /\ (\E c \in Consumers \ Steady : at[c] # "start") => faults = 0

MCFairSpec == Init /\ [][Next /\ SharedUntilFault']_vars /\ Fairness
=============================================================================
