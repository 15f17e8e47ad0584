SPECIFICATION GovFairSpec
CONSTANTS
  Actors = {a1, a2}
  Officers = {o1, o2}
  MaxThreshold = 2
  MaxChanges = 2
  MaxFaults = 1
PROPERTIES
  ThresholdSettles
CHECK_DEADLOCK FALSE
