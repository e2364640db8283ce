\* Three versions of a file in blocks of two, every fault, under fairness.
CONSTANTS
  Length <- Versions
  Before <- OldCopy
  Block = 2
  Capacity = 3
  Faults = {"partial", "cut", "vanished", "write"}
  Absent = Absent
SPECIFICATION FairSpec
CHECK_DEADLOCK FALSE
INVARIANTS TypeOK KeptIsWhole FailLeavesNothing
PROPERTY Returns
