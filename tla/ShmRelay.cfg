SPECIFICATION FairSpec
CONSTANTS
  NBLK = 3
  NPROC = 2
  MaxPkt = 4
  Scenarios <- MCScenarios
  NULL = NULL
INVARIANTS
  TypeOK
  BlocksGuarded
  NeverStale
  ExactlyOnce
PROPERTIES
  RelayGoesOn
