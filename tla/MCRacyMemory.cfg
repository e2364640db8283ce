\* Two handlers, an array of one slot that has to grow.
CONSTANTS
  t1 = t1 t2 = t2 alice = alice bob = bob
  Threads = {t1, t2}
  Names = {alice, bob}
  Ops <- AllOps
  MAX_USERS = 1
  AllocFails = FALSE
  Capacity = 2
  Garbage = Garbage
  Nobody = Nobody
SPECIFICATION Spec
CHECK_DEADLOCK FALSE
INVARIANT NoWildAccess
