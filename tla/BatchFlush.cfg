SPECIFICATION FairSpec
CONSTANTS
  Client = {c1, c2}
  NoOne = NoOne
  Rejected = {3}
  MaxBatch = 2
  Capacity = 2
  MaxProposals = 3
  MaxAborts = 1
CHECK_DEADLOCK FALSE
INVARIANTS TypeOK LoggedOnceInOrder BatchesAreAtomic
PROPERTIES OkMeansApplied SyncIsABarrier CallersAnswered
