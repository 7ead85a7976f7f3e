SPECIFICATION Spec
CONSTANTS
  Links = {1, 2}
  MaxAttempts = 2
  Budgets <- TwoWrites
PROPERTIES ClearedOnlyWhenShown
\* Work ends.
CHECK_DEADLOCK FALSE
