SPECIFICATION FairSpec
CONSTANTS
  v1 = v1
  v2 = v2
  Value <- MCValue
  None = None
  Count = 3
  IntMax = 7
  MaxCommits = 7
INVARIANTS Exclusive
PROPERTIES RefusedOnlyWhenFull ImplementsFifo CommittedIsDequeued
