\* Every borrow ends, so the system may stop.
CONSTANTS
  b1 = b1
  b2 = b2
  b3 = b3
  c1 = c1
  c2 = c2
  NoClient = NoClient
  Borrows = {b1, b2, b3}
  Clients = {c1, c2}
  Faulty <- MCFaulty
  Throwing <- MCThrowing
SPECIFICATION FairPoolSpec
INVARIANTS
  TypeOK
  ChargeIsExact
  SlotsAreOwned
  BrokenNeverIdle
PROPERTIES
  SealedAdmission
  EndSettles
  ImplementsDrainedPool
CHECK_DEADLOCK FALSE
