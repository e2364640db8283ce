\* One client, every command but the listings, every fault: two requests at the server, one
\* of them abandoned.
CONSTANTS
  p1 = p1 p2 = p2 c1 = c1 c2 = c2
  alice = alice bob = bob f1 = f1 f2 = f2 e1 = e1 e2 = e2 e3 = e3 none = none
  Anonymous = none
  Offline = Offline
  None = None
  Conns = {c1, c2}
  Types <- OneEach
  Names = {alice}
  Files = {f1}
  Endpoints = {e1, e2}
  Peers = {p1}
  Commands <- FaultCommands
  Faults = {"refused", "unanswered", "broken", "killed", "disk", "threads"}
  MayLose = TRUE
  Downloads = {f1}
  MaxCopies = 2
SPECIFICATION Spec
SYMMETRY Symmetry
INVARIANTS TypeOK ConnectedListens ListedIsOnDisk NothingOfNobody
