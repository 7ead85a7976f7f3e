----------------------------- MODULE StoredState -----------------------------
(* The application the child is connected with, the store of the reports of KSF tasks and    *)
(* the governed operations of the child's capabilities, as instances that share no state, and *)
(* what they promise.                                                                        *)
CONSTANTS
  Handlers, RegistrationBudgets,                          \* of AppRegistration
  ReportNames, TaskOf(_), EventOf(_), ExpectedOf(_), ReceiptOf(_), MaxHistory, MaxRecords,
  MaxKeys, ReportBudgets,                                 \* of TaskReports
  OpIds, OpCalls, OpScenarios                             \* of Capabilities

VARIABLES
  handler, mutex, item, session, sessions, credentials, secret, operator, journal, forgotten,
  running, registrationLeft,
  key, keys, records, fileLocks, reporter, workspace, time, told, reportsLeft,
  class, policy, scopes, target, writes, flying, record, late, work, asked, worker, rereading,
  stage, todo, operationsLeft

A == INSTANCE AppRegistration WITH Budgets <- RegistrationBudgets, left <- registrationLeft

\* AppRegistration's: what a logout has ended is connected by nobody afterwards.
LogoutIsFinal == A!LogoutIsFinal

RS == INSTANCE TaskReports WITH
       Requests <- ReportNames, Task <- TaskOf, Event <- EventOf, Expected <- ExpectedOf,
       Receipt <- ReceiptOf, Budgets <- ReportBudgets, locks <- fileLocks, clock <- time,
       left <- reportsLeft

\* TaskReports's: the store is a log per task.
ImplementsTaskLog == RS!ImplementsTaskLog

K == INSTANCE Capabilities WITH
       Ops <- OpIds, Calls <- OpCalls, Scenarios <- OpScenarios,
       item <- work, call <- asked, left <- operationsLeft
==============================================================================
