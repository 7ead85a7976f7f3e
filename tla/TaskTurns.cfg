SPECIFICATION LiveSpec
CONSTANTS
  MaxTurns = 2
  MaxAsks = 1
  Budgets <- MCBudgets
PROPERTIES TurnsSound EndedLinkStaysEnded LinkCatchesUp
CHECK_DEADLOCK FALSE
