SPECIFICATION Spec
CONSTANTS
  skill1 = skill1
  skill2 = skill2
  search = search
  read = read
  Nodes = {n1, n2}
  Workers = {w1, w2}
  Requests = {q1}
  Calls = {skill1, skill2, search, read}
  OperationOf <- Kind
  Risky = {skill1, skill2, search}
  AutoApproved = {search}
  MaxToolCalls = 3
  MaxApprovals = 3
  NoNode = NoNode
  NoCall = NoCall
SYMMETRY Symmetric
INVARIANTS TypeOK BudgetWithinWorkers  AskerIsWoken
PROPERTIES RiskyRunsWithConsent 
CHECK_DEADLOCK FALSE
