SPECIFICATION FairSpec
CONSTANTS
  Kinds = {"company", "officer", "regulator"}
  Profiles = {p1, p2}
  Actors = {a1, a2}
  Nobody = nobody
  MaxRows = 2
  MaxAttempts = 2
  MaxOps = 1
  MaxFaults = 2
  MaxBoth = 3
INVARIANTS
  ActiveIsListed
  ProfileHasLogin
PROPERTIES
  ApprovalArrives
CHECK_DEADLOCK FALSE
