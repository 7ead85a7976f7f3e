SPECIFICATION MCSpec
CONSTANTS
  e1 = e1
  e2 = e2
  p1 = p1
  NoWork = NoWork
  NoJob = NoJob
  Works <- MCWorks
  Parts <- MCParts
  PartOf <- MCPartOf
  Buffer = 1
  MaxAttempts = 2
  MaxReviews = 1
  MaxFaults = 1
  MaxCrashes = 1
  a = a
  b = b
  d1 = d1
  NoEvent = NoEvent
  NoId = NoId
INVARIANTS DeliverySound NothingIsLost OneJobPerWork
PROPERTIES AckedSettles
CHECK_DEADLOCK TRUE
