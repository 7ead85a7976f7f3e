SPECIFICATION MCSpec
CONSTANTS
  m1 = m1
  c1 = c1
  t1 = t1
  Keys <- MessageAndEdit
  Edits <- TheEdit
  Targets <- TheChat
  TargetOf <- OneChat
  Slots = 4
  MaxOps = 2
  MaxCalls = 2
  MaxPolicies = 0
  MaxFaults = 0
  MaxCrashes = 0
  NoOp = NoOp
  NoLedger = NoLedger
  NoCall = NoCall
  CodexCallers = {"a", "b"}
  Processes = {1, 2}
  Answerers = {1, 2}
  MaxRequests = 1
  CodexBudgets <- MCCodexBudgets
  Observers = {"a", "b"}
  Owners = {"o1", "o2"}
  DesktopConnections = {1, 2}
  MaxFrames = 2
  DesktopBudgets <- MCDesktopBudgets
  MaxReads = 1
  PushSlots = {1}
  MaxChildren = 2
  SnapshotsBudgets <- MCSnapshotsBudgets
  Clients = {"a", "b"}
  MaxClients = 2
  MaxTransfers = 2
  MaxBytes = 9
  Cost = 4
  Scratch = 1
  Decoders = 2
  Chunks = 2
  UploadsBudgets <- MCUploadsBudgets
INVARIANTS MessagesSound WrittenOnce VerdictsAreTrue ConnectionsSound OneProcess SeesWhatWoke OldNeverLands RunsAreTrue
\* Calls end.
CHECK_DEADLOCK FALSE
