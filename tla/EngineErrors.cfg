SPECIFICATION FairSpec
CONSTANTS
  g1 = g1
  g2 = g2
  s1 = s1
  Engine = {g1, g2}
  Store = {s1}
  StoreOf <- RestartOnly
  Client = {c1, c2}
  Entry = {e1, e2}
  Rejected = {e2}
  Hole = Hole
  Failures = {"refused", "stored", "hole", "tail", "read"}
  Overlap = FALSE
  NoOne = NoOne
  Capacity = 2
  MaxProposals = 2
  MaxAborts = 1
CHECK_DEADLOCK FALSE
INVARIANTS TypeOK AppliedIsLogPrefix
PROPERTIES ProposeReturnsItsOwn CallersAnswered
