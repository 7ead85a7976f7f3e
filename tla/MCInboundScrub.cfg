SPECIFICATION OneWorkSpec
CONSTANTS
  e1 = e1
  e2 = e2
  p1 = p1
  NoWork = NoWork
  NoJob = NoJob
  Works <- MCWorks
  Parts <- MCParts
  PartOf <- MCPartOf
  Buffer = 1
  MaxAttempts = 2
  MaxReviews = 0
  MaxFaults = 0
  MaxCrashes = 0
  a = a
  b = b
  d1 = d1
  NoEvent = NoEvent
  NoId = NoId
PROPERTIES
  TerminalWorkStaysScrubbed
CHECK_DEADLOCK TRUE
