\* A write of the application while a change from the remote is applied.
CONSTANTS
  None = None
  k1 = k1
  k2 = k2
  p1 = p1
  p2 = p2
  Keys = {k1, k2}
  Pushers = {p1}
  Scenarios <- WritingMeanwhile
  TextRank <- ThousandRanks
  MaxValue = 2
  MaxChanges = 2
  MaxWal = 4
  MaxFaults = 0
SPECIFICATION Spec
INVARIANTS
  NoChangeLost
CHECK_DEADLOCK FALSE
