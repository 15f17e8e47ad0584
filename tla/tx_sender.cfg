SPECIFICATION FairSpec
CONSTANTS
  Instances = {i1, i2}
  Calls = {c1, c2, c3}
  MaxAttempts = 2
  TxLifetime = 1
  Patience = 2
  MaxFaults = 1
INVARIANTS
  AppliedAtMostOnce
  TruthfulOutcome
  AppliedInOrder
PROPERTIES
  CallsSettle
CHECK_DEADLOCK FALSE
