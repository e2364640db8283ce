\* Two clients, a table of two slots, buffers of two strings, every fault,
\* under fairness.
CONSTANTS
  Clients = {c1, c2}
  Commands = {"LIST_USERS", "LIST_CONTENT", "GET_FILE", "CHANGE"}
  NumUsers = 2
  Endpoints = {e1}
  Files = {f}
  MaxFiles = 1
  Capacity = 2
  Faults = {"stalled", "killed"}
  Target = 1
  None = None
SPECIFICATION FairSpec
CHECK_DEADLOCK FALSE
INVARIANTS TypeOK OneInstant EndedByDeserter
PROPERTY EveryoneAnswered
