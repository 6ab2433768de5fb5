SPECIFICATION FairSpec
CONSTANTS
  p1 = p1
  p2 = p2
  Providers = {p1, p2}
  Threshold = 2
  MaxHeads = 2
  MaxFaults = 1
CHECK_DEADLOCK FALSE
INVARIANTS TypeOK DeliveredBacked DiskLoads EveryHeadQueued IndexStable
PROPERTIES ReceiptsKept QueuedDelivered
