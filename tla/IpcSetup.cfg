SPECIFICATION FairSpec
CONSTANTS
  Procs = {transfer, read_proc}
  MaxId = 4
  MaxRuns = 4
  Firsts = {0, 1}
  Scenarios <- MCScenarios
INVARIANTS
  ShareMemoryAndLocks
  NoWildCopy
  OneOfEach
PROPERTY
  AttachesUnlessIdIsZero
CHECK_DEADLOCK FALSE
