SPECIFICATION MCSpec
CONSTANTS
  Authors = {r1, r2, r3}
  Dates = {1, 2}
  Scores = {20, 90}
INVARIANTS
  LatestIsReduce
  GateMatchesStatus
  SpellingDoesNotMatter
  AdaptersAgree
  StartsConfigured
CHECK_DEADLOCK FALSE
