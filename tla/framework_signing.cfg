SPECIFICATION Spec
CONSTANTS
  Actors = {a1, a2, a3, a4}
  Officers = {o1, o2, o3, o4}
  Nobody = nobody
  Threshold = 2
  MaxFailures = 2
  MaxLost = 1
  MaxCrashes = 1
SYMMETRY Symmetry
INVARIANTS
  AppliedOnce
  QuorumBehindChange
  QuorumIsNoticed
  ExecutedIsApplied
PROPERTIES
  RejectBlocksSigning
CHECK_DEADLOCK FALSE
