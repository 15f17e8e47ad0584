SPECIFICATION Spec
CONSTANTS
  Actors = {a1, a2}
  Officers = {o1}
  MainAdmin = m
  Opinions <- MCOpinions
  MaxTime = 1
  MaxExpiry = 1
  MaxReviews = 2
  MaxRevocations = 1
  MaxFaults = 0
  MaxAttempts = 2
  PassLimit = 2
  Others = 1
SYMMETRY Symmetry
INVARIANTS
  NeverAhead
  OneEntryPerReviewer
  NoReviewDropped
  EntriesAreAnchored
  IssuedAfterApproval
PROPERTIES
  ImplementsHistory
  FileStays
