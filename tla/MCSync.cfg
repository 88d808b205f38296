\* A copy at rest may stop.
CONSTANTS
  None = None
  k1 = k1
  k2 = k2
  p1 = p1
  p2 = p2
  Keys = {k1}
  Pushers = {p1, p2}
  Scenarios <- AllScenarios
  TextRank <- ThousandRanks
  MaxValue = 2
  MaxChanges = 2
  MaxWal = 6
  MaxFaults = 1
SPECIFICATION FairSpec
INVARIANTS
  NoChangeLost
  RecordsOwnChanges
PROPERTIES
  KeepsReplicas
  
CHECK_DEADLOCK FALSE
