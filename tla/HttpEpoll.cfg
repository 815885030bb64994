SPECIFICATION FairSpec
CONSTANTS
  Conns = {c1, c2, c3}
  c1 = c1
  c2 = c2
  c3 = c3
  Files = {index, absent, big}
  index = index
  absent = absent
  big = big
  Asks <- MCAsks
  Content <- MCContent
  MaxListen = 2
  Listen = Listen
  NULL = NULL
INVARIANTS
  AnswersMatch
  SerialNotMixed
PROPERTIES
  AcceptedAreAnswered
  NoDescriptorLeft
  SerialAreAccepted
CHECK_DEADLOCK FALSE
