SPECIFICATION ConnSpec
CONSTANTS
  c1 = c1
  c2 = c2
  Clients = {c1, c2}
  Payloads <- MCPayloads
  MSG_HEADER_LEN = 3
  PACKAGE_SIZE = 8
  Cuts = {2, 3, 6, 7, 10, 14}
  OtherLens = {0, 2, 9}
  NONE = NONE
INVARIANTS
  InStep
PROPERTY
  EveryClientIsServed
CHECK_DEADLOCK FALSE
