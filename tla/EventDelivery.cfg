\* An event that may be rejected, two publishers that may overlap on a lapsed
\* claim, two consumers that may overlap on an idle entry, and one fault anywhere;
\* with a second event two consumers share the stream until the fault.
CONSTANTS
  p1 = p1
  p2 = p2
  c1 = c1
  c2 = c2
  Events = {1, 2}
  Rejectable = {1}
  Publishers = {p1, p2}
  Consumers = {c1, c2}
  Steady = {c1}
  BatchSize = 2
  MaxDeliveries = 3
  MaxFaults = 1
SPECIFICATION MCFairSpec
CHECK_DEADLOCK FALSE
INVARIANTS
  EffectOnce
  AckedHasOutcome
PROPERTIES
  EveryEventSettles
