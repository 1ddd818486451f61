SPECIFICATION Spec
CONSTANTS
  a = a
  b = b
  other = other
  rv = rv
  Nodes = {a, rv}
  Reviewer = rv
  DependsOn <- Single
  Workers = {w1, w2}
  MaxConcurrent = 1
  MaxReviewRetries = 1
  Directives = {d1}
  Approvable = {a, rv}
  MaxFaults = 1
  NoNode = NoNode
  NoDirective = NoDirective
SYMMETRY WorkerSymmetry
INVARIANTS BriefOrder
PROPERTIES DeliveryCoversBriefItRead
CHECK_DEADLOCK FALSE
