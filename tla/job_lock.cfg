SPECIFICATION FairSpec
CONSTANTS
  p1 = p1
  p2 = p2
  NoOwner = NoOwner
  r1 = r1
  r2 = r2
  r3 = r3
  Processes <- MCProcesses
  Runs <- MCRuns
  Owner <- MCOwner
  Lease = 4
  MaxDelay = 1
  MaxRun = 2
INVARIANTS
  AtMostOneRun
PROPERTIES
  NeverWedged
