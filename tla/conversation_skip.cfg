SPECIFICATION Spec
CONSTANTS
  s1 = s1
  s2 = s2
  w1 = w1
  w2 = w2
  Requests = {1, 2}
  Servers = {s1}
  Workers = {w1}
  Drafts = {1, 2, 3}
  NoDraft = NoDraft
  NoProc = NoProc
  Chunks = 1
  CheckpointEvery = 1
  MaxPosts = 1
  MaxQueue = 1
  MaxFaults = 0
INVARIANTS EveryEventIsStreamed
CHECK_DEADLOCK FALSE
