\* The hub may stop when it is closed.
CONSTANTS
  s1 = s1
  s2 = s2
  s3 = s3
  chA = chA
  chB = chB
  None = None
  Subs = {s1, s2, s3}
  Channels = {chA, chB}
  MaxConns = 3
  MaxFaults = 2
  Relisten = FALSE
  ListenMayFail = FALSE
SPECIFICATION FairSpec
INVARIANTS
  ConnectionsAreOwned
  ClosedHubIsInert
  ConnectedMeansListening
PROPERTIES
  Reconnects
CHECK_DEADLOCK FALSE
