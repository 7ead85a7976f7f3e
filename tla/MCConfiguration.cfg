SPECIFICATION MCSpec
CONSTANTS
  Requests <- MCRequests
  Action <- MCAction
  Budgets <- MCBudgets
  Desks <- MCDesks
  PageBudgets <- MCPageBudgets
  BoardBudgets <- MCBoardBudgets
INVARIANTS ConfigurationSound ExecutedOnce ShownAppExists PagesSound
PROPERTIES NeverBack AllCatchUp
\* Work ends.
CHECK_DEADLOCK FALSE
