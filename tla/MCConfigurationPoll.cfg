SPECIFICATION PageSpec
CONSTANTS
  Requests <- MCRequests
  Action <- MCAction
  Budgets <- MCBudgets
  Desks = {"windows"}
  PageBudgets <- MeetBudgets
  BoardBudgets <- MCBoardBudgets
PROPERTY KeepsObserving
\* Work ends.
CHECK_DEADLOCK FALSE
