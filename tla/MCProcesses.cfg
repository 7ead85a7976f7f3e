SPECIFICATION MCSpec
CONSTANTS
  c1 = c1
  c2 = c2
  NoOp = NoOp
  NoLedger = NoLedger
  NoCall = NoCall
  Callers <- MCCallers
  MaxRestarts = 1
  RestartWindow = 1
  HealthyReset = 1
  ConflictWindow = 1
  MaxCalls = 2
  MaxCrashes = 2
  MaxFaults = 1
  PeerCalls = {"a", "b"}
  PeerOf <- FromCore
  PeerPending = 2
  PeerHandlers = 1
  PeerWrites = 1
  PeerWire = 1
  PeerFaults = 1
  HostRequests <- MCHostRequests
  Platforms = {"macos", "windows"}
  MaxCores = 3
  HostQueue = 1
  HostBudgets <- MCHostBudgets
INVARIANTS ProcessesSound StopHolds OneCore
PROPERTIES SupervisionEnds OthersEnd
\* Calls end, and hosts leave.
CHECK_DEADLOCK FALSE
