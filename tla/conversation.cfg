SPECIFICATION FairSpec
CONSTANTS
  s1 = s1
  s2 = s2
  w1 = w1
  w2 = w2
  Requests = {1}
  Servers = {s1, s2}
  Workers = {w1}
  Drafts = {1, 2}
  NoDraft = NoDraft
  NoProc = NoProc
  Chunks = 1
  CheckpointEvery = 1
  MaxPosts = 2
  MaxQueue = 1
  MaxFaults = 1
INVARIANTS OneReplyPerRequest PageNeverAhead
PROPERTIES  RepliesEnd StoredAsPromised
CHECK_DEADLOCK FALSE
