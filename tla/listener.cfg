SPECIFICATION Spec

CONSTANTS
  c1 = c1
  c2 = c2
  c3 = c3
  Client = {c1, c2, c3}
  None = None
  Sockets = 2
  maxConsecErrs = 3

INVARIANTS
  TypeOK
  BurstIsNoWedge

PROPERTIES
  ListenerHeals
  NobodyWaitsForever

\* After a panic nothing runs any more.
CHECK_DEADLOCK FALSE
