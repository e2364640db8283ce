\* Two clients that fetch from each other, three ports; listeners may fail to start.
CONSTANTS
  p1 = p1 p2 = p2 c1 = c1 c2 = c2
  alice = alice bob = bob f1 = f1 f2 = f2 e1 = e1 e2 = e2 e3 = e3 none = none
  Anonymous = none
  Offline = Offline
  None = None
  Conns = {c1, c2}
  Types <- OneEach
  Names = {alice, bob}
  Files = {f1}
  Endpoints = {e1, e2, e3}
  Peers = {p1, p2}
  Commands <- FetchCommands
  Faults = {"threads"}
  MayLose = TRUE
  Downloads = {f1}
  MaxCopies = 0
SPECIFICATION Spec
SYMMETRY Symmetry
INVARIANT OnlineReachable
