\* Two clients, each with its user; connections refused
\* or closed unanswered.
CONSTANTS
  p1 = p1 p2 = p2 c1 = c1 c2 = c2
  alice = alice bob = bob f1 = f1 f2 = f2 e1 = e1 e2 = e2 e3 = e3 none = none
  Anonymous = none
  Offline = Offline
  None = None
  Conns = {c1, c2}
  Types <- OneEach
  Names = {alice, bob}
  Files = {f1}
  Endpoints = {e1, e2, e3}
  Peers = {p1, p2}
  Commands <- SessionCommands
  Faults = {"refused", "unanswered"}
  MayLose = TRUE
  Downloads = {f2}
  MaxCopies = 0
SPECIFICATION Spec
SYMMETRY Symmetry
INVARIANT BelievedOnline
