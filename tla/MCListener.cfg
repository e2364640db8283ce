\* Three sockets, three threads, two connections, under fairness; accept and the start of
\* threads may fail.
CONSTANTS
  Socks = {s1, s2, s3}
  Threads = {t1, t2, t3}
  Dials = {d1, d2}
  None = None
  Unstarted = Unstarted
  MayFail = TRUE
SPECIFICATION FairSpec
INVARIANTS TypeOK KeepsAccepting PortsAreHeld
PROPERTY DialEnds
