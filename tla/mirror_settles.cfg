SPECIFICATION FairSpec
CONSTANTS
  Actors = {a1, a2}
  Officers = {}
  MainAdmin = m
  Opinions <- MCApproval
  MaxTime = 2
  MaxExpiry = 1
  MaxReviews = 1
  MaxRevocations = 0
  MaxFaults = 1
  MaxAttempts = 2
  PassLimit = 2
  Others = 1
INVARIANTS
  DoneRowsAreMirrored
PROPERTIES
  CertificateSettles
  RowsDrain
