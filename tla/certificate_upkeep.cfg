SPECIFICATION Spec
CONSTANTS
  Actors = {a1, a2}
  Paths = {p1, p2, p3}
  NoPath = noPath
  Contents = {x, y}
  Original = x
  MaxResolved = 1
  MaxFaults = 1
SYMMETRY Symmetry
INVARIANTS
  FileBehindRow
  NothingLeftBehind
  AlertsFollowExpiry
CHECK_DEADLOCK FALSE
