SPECIFICATION MCSpec
CONSTANTS
  Items = {1, 2, 3}
  Key <- MCKey
  Parts <- MCParts
  Capacity = 2
  DispatchAttempts = 2
  Scenarios <- MCScenarios
  CardLinks = {1, 2}
  CardAttempts = 2
  CardBudgets <- MCCardBudgets
INVARIANTS QueuesSound ResultIsTrue
PROPERTIES MarksGoRightly WorkEnds
\* Work ends.
CHECK_DEADLOCK FALSE
