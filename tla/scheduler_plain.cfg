SPECIFICATION Spec
CONSTANTS
  a = a
  b = b
  other = other
  rv = rv
  Nodes = {a, b, other, rv}
  Reviewer = rv
  DependsOn <- Three
  Workers = {w1, w2}
  MaxConcurrent = 2
  MaxReviewRetries = 1
  Directives = {}
  Approvable = {}
  MaxFaults = 0
  NoNode = NoNode
  NoDirective = NoDirective
SYMMETRY Symmetry
INVARIANTS QueuedHasMessage SingleExecution WithinConcurrency
PROPERTIES DependencyOrder DeliveredWorkIsReviewed 
CHECK_DEADLOCK FALSE
