SPECIFICATION FairSpec
CONSTANTS
  Actors = {a1, a2}
  Officers = {o1, o2}
  Nobody = nobody
  Kinds = {"revocation", "governance_rule", "contract_upgrade"}
  Crowds <- OneCrowded
  RuleValue = 2
  MaxThreshold = 2
  MaxChanges = 0
  MaxFaults = 1
INVARIANTS
  NeverAhead
PROPERTIES
  ImplementsBallot
  ExecutionIsSeen
  RevocationArrives
CHECK_DEADLOCK FALSE
