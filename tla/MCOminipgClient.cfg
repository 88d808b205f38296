CONSTANTS
  c1 = c1
  c2 = c2
  Calls = {c1, c2}
  Programs <- AllClients
  Statements <- TwoStatements
  None = None
  Close = Close
  MaxTimeouts = 1
SPECIFICATION FairClient
INVARIANTS
  AllOrNothing
  FailureRollsBack
  NothingLeftOpen
PROPERTIES
  KeepsTransactionLedger
  EveryCallSettles
