SPECIFICATION FairSpec
CONSTANTS
  Tasks = {t1}
  Users = {u1}
  Requests = {q1}
  MaxActive = 1
  MaxActiveGlobal = 2
  MaxRevision = 1
  MaxActs = 5
  NoTask = NoTask
  NoUser = NoUser
INVARIANTS TypeOK NobodyIsForgotten
PROPERTIES PlanningEnds CancelIsCarriedOut
CHECK_DEADLOCK FALSE
