\* A closed engine may stop, and so may an idle one.
CONSTANTS
  l1 = l1
  l2 = l2
  id1 = id1
  id2 = id2
  Lanes = {l1, l2}
  Ids = {id1, id2}
  PoolMax = 3
  MaxFaults = 2
  AbortsInit = FALSE
SPECIFICATION FairSpec
INVARIANTS
  NothingLeaks
  HubBeforePool
PROPERTIES
  EngineCloseTerminates
CHECK_DEADLOCK FALSE
