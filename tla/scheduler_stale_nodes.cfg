SPECIFICATION FairSpec
CONSTANTS
  a = a
  b = b
  other = other
  rv = rv
  Nodes = {a, rv}
  Reviewer = rv
  DependsOn <- Single
  Workers = {w1}
  MaxConcurrent = 2
  MaxReviewRetries = 1
  Directives = {d1}
  Approvable = {}
  MaxFaults = 0
  NoNode = NoNode
  NoDirective = NoDirective
PROPERTIES BriefReachesNodes
CHECK_DEADLOCK FALSE
