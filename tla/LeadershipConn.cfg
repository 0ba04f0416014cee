\* Two instances, two faults in any order.
CONSTANTS
  Instances = {s1, s2}
  NoLeader = NoLeader
  MaxFaults = 2
SPECIFICATION Spec
PROPERTY StandbyTakesOver
CHECK_DEADLOCK FALSE
