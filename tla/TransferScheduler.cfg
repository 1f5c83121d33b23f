\* Three transfers share two places; any of them may be denied, cancelled or fail.
CONSTANTS
  MaxParallel = 2
  MaxJobs = 3
  MaxIndex = 1
  MaxUndos = 0
  MaxTrashes = 0
  MaxProgress = 0
  Occupied = {}
  Kinds <- OnlyCopy
  Denials = {TRUE, FALSE}
  None = None
SPECIFICATION FairSpec
INVARIANTS QueueWaitsOnlyWhenFull ActiveHasWorker
PROPERTIES TransfersLeave
