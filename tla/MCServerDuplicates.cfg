\* A duplicate PUBLISH.
CONSTANTS
  t1 = t1 t2 = t2
  alice = alice bob = bob f1 = f1 e1 = e1 e2 = e2 none = none
  Threads = {t1, t2}
  Names = {alice, bob}
  Files = {f1}
  Endpoints = {e1}
  Anonymous = none
  Nobody = Nobody
  Offline = Offline
  Ops <- AllOps
  AllocFails = FALSE
  LogFails = FALSE
  MaxFiles = 2
SPECIFICATION Spec
SYMMETRY Symmetry
INVARIANT PublishedOnce
