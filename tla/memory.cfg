SPECIFICATION FairSpec
CONSTANTS
  t1 = t1
  t2 = t2
  habit = habit
  preference = preference
  monthly = monthly
  often = often
  always = always
  Tasks = {t1, t2}
  Clients = {c1}
  Ids = {m1, m2}
  Categories = {habit, preference}
  Names = {monthly}
  Statements = {often, always}
  Analyses <- SmallAnalyses
  Edits <- SmallEdits
  Keep = Keep
  NoRow = NoRow
  MaxMemories = 1
  MaxRetries = 1
  MaxAsks = 4
  MaxFaults = 1
INVARIANTS MergedAsAsked AutomaticLimit
PROPERTIES OwnersWordHolds EditRebuilds 
CHECK_DEADLOCK FALSE
