\* A session may stop when it is closed or idle.
CONSTANTS
  l1 = l1
  s1 = s1
  None = None
  Close = Close
  Requests = {1, 2, 3, 4}
  Programs <- AllPrograms
  BufferCap = 1
  MaxTimeouts = 2
SPECIFICATION FairSpec
INVARIANTS
  LaneOrder
  UnlistenIsFinal
  CloseDrains
PROPERTIES
  DrainsBeforeNext
  KeepsLedger
  EverythingSettles
CHECK_DEADLOCK FALSE
