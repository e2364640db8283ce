\* Buffers of four bytes for those of 256, arguments from none to longer than
\* a buffer, the three parts, under fairness.
CONSTANTS
  Parts = {1, 2, 3}
  Ops = {"REGISTER", "UNREGISTER", "CONNECT", "DISCONNECT", "PUBLISH", "DELETE", "LIST_USERS", "LIST_CONTENT"}
  Lengths = {0, 1, 2, 3, 4, 5, 7}
  MaxString = 4
  NUL = NUL
SPECIFICATION FairSpec
CHECK_DEADLOCK FALSE
INVARIANTS TypeOK PerformedIsTyped FailChangesNothing
PROPERTY CommandReturns
