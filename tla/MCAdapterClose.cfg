\* Every call settles and close() ends, so the system may stop.
CONSTANTS
  c1 = c1
  c2 = c2
  dflt = dflt
  lane1 = lane1
  None = None
  NoClient = NoClient
  Closer = Closer
  Requests = {1, 2, 3}
  Borrows = {1, 2, 3}
  Clients = {c1}
  Faulty = {}
  Throwing = {1}
  Lanes = {dflt, lane1}
  DefaultLane = dflt
  Calls <- OpenCalls
  OverlappingEnds = TRUE
SPECIFICATION FairSpec
PROPERTIES
  CloseTerminates
CHECK_DEADLOCK FALSE
