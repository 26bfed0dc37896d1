SPECIFICATION FairSpec
CONSTANTS
  import = import
  reapply = reapply
  f1 = f1
  f2 = f2
  None = None
  Batches <- MCBatches
  Files = {f1, f2}
  FilesOf <- MCFilesOf
  Troubled = {f1}
  Workers = 2
  MaxHandlers = 2
  MaxCrashes = 1
CONSTRAINT OneDisturbance
INVARIANTS
  NothingLost
  InterruptedIsResumable
  QuietWhenCompacted
PROPERTY BatchSettles
CHECK_DEADLOCK FALSE
