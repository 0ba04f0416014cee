\* Two instances, four faults in any order.
CONSTANTS
  Instances = {s1, s2}
  NoLeader = NoLeader
  MaxFaults = 4
SPECIFICATION Spec
INVARIANTS
  EpochsAreUnique
  HeldIsLocked
PROPERTY HealthyStandbyTakesOver
CHECK_DEADLOCK FALSE
