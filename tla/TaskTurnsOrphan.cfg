SPECIFICATION Spec
CONSTANTS
  MaxTurns = 2
  MaxAsks = 0
  Budgets <- OrphanBudgets
INVARIANTS CardFollowsCurrentTurn
CHECK_DEADLOCK FALSE
