SPECIFICATION Spec
CONSTANTS
  a = a
  b = b
  d1 = d1
  d2 = d2
  p1 = p1
  p2 = p2
  NoEvent = NoEvent
  NoId = NoId
  Ids <- MCIds
  Digests <- MCDigests
  Deliveries <- MCDeliveries
  Parts <- MCParts
  PartOf <- MCPartOf
  Capacity = 2
  RecentReceipts = 1
  MaxAttempts = 2
  MaxFaults = 1
  MaxCrashes = 1
INVARIANTS InboxSound PartitionOrder NeverWedged
PROPERTIES ImplementsEventOnce
CHECK_DEADLOCK TRUE
