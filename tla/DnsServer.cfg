SPECIFICATION FairSpec
CONSTANTS
  Clients = {w_client, nslookup}
  w_client = w_client
  nslookup = nslookup
  Asks <- MCAsks
  ARecords <- MCARecords
  PtrRecords <- MCPtrRecords
  QueueSize = 2
  MaxRepeats = 1
  NULL = NULL
INVARIANTS
  NoLostEvent
  ReadsFindRequests
  AnswersMatch
PROPERTIES
  ImplementsAnswerService
  EveryRequestIsAnswered
CHECK_DEADLOCK FALSE
