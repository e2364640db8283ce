\* Two handlers under fairness, a user and "__NONE__", a log service that may
\* fail, every operation but those that only remove.
CONSTANTS
  t1 = t1 t2 = t2
  alice = alice bob = bob f1 = f1 e1 = e1 e2 = e2 none = none
  Threads = {t1, t2}
  Names = {alice, none}
  Files = {f1}
  Endpoints = {e1}
  Anonymous = none
  Nobody = Nobody
  Offline = Offline
  Ops <- LiveOps
  AllocFails = FALSE
  LogFails = TRUE
  MaxFiles = 1
SPECIFICATION FairSpec
PROPERTIES MutexAlwaysFreed EveryoneServed
