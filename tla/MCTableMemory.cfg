\* Arrays that start with one slot and one file, three blocks, every event.
CONSTANTS
  MAX_USERS = 1
  INITIAL_FILES = 1
  UserBound = 3
  FileBound = 2
  Blocks = {b1, b2, b3}
  NULL = NULL
  Events = {"calloc", "realloc", "SIGINT"}
SPECIFICATION Spec
SYMMETRY Symmetry
CHECK_DEADLOCK FALSE
INVARIANTS TypeOK BlocksOwned WildHasCause
