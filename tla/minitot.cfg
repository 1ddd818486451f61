SPECIFICATION Spec
CONSTANTS
  Requests <- Callers
  Scores = {6, 12, 18}
  MaxCallsOf <- Budgets
  MaxParallel = 2
  MaxRetries = 1
INVARIANTS TypeOK PostsWithinBudget UsageIsComplete SearchKeepsAState
PROPERTIES SearchEndsInAnswer
CHECK_DEADLOCK FALSE
