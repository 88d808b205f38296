\* Every call settles and close() ends, so the system may stop.
CONSTANTS
  c1 = c1
  c2 = c2
  dflt = dflt
  lane1 = lane1
  None = None
  NoClient = NoClient
  Closer = Closer
  Requests = {1, 2, 3}
  Borrows = {1, 2, 3}
  Clients = {c1, c2}
  Faulty = {1}
  Throwing = {1}
  Lanes = {dflt, lane1}
  DefaultLane = dflt
  Calls <- AllCalls
  OverlappingEnds = FALSE
SPECIFICATION Spec
INVARIANTS
  EveryClientHasAnOwner
  PinsHoldTheirClient
  SessionsAreIsolated
  NoAutocommitInTransaction
  RollbackComesLast
  ClosedMeansReturned
PROPERTIES
  NoPinAfterDrain
CHECK_DEADLOCK FALSE
SYMMETRY SwapClients
