SPECIFICATION MCSpec
CONSTANTS
  Calls = {c1, c2, c3}
  Keys = {1, 2}
  Mutexes = {m1, m2, m3}
  Writers = {"w1", "w2"}
  WorkAge = 1
  LongAge = 2
  AuditAge = 3
  WorkCount = 2
  OperationCount = 2
  AuditBytes = 2
  MaxClock = 3
  MaxHistory = 3
  MaxRecords = 2
  MaxKeys = 2
  ReportNames <- MCReportNames
  TaskOf <- MCTaskOf
  EventOf <- MCEventOf
  ExpectedOf <- MCExpectedOf
  ReceiptOf <- MCReceiptOf
  ReportBudgets <- MCReportBudgets
  Handlers = {"a", "b"}
  RegistrationBudgets <- MCRegistrationBudgets
  OpIds = {1, 2}
  OpCalls = {1, 2, 3}
  OpScenarios <- MCOperationScenarios
  Threads = {1, 2, 3}
  Projects = {"p"}
  MaxInstant = 3
INVARIANTS FilesSound LocksExclude LocksAdvance LogoutIsFinal
PROPERTIES KeptLongEnough ImplementsTaskLog
CHECK_DEADLOCK FALSE
