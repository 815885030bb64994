SPECIFICATION SpiderFairSpec
CONSTANTS
  NUrl = 3
  MaxRuns = 2
  Webs <- AllWebs
INVARIANTS
  VisitedPagesKept
  VisitedOnce
  NothingOverlooked
PROPERTY
  RunEnds
CHECK_DEADLOCK FALSE
