SPECIFICATION FairSpec
CONSTANTS
  Threads = {t1, t2}
  Bases = {1, 9, 17}
  NULL = NULL
  Header = 1
  block_size = 4
  Sizes = {1, 5}
  Alignments = {1, 2}
  MaxCalls = 3
INVARIANTS NoOverlap BlocksInLiveChunks NothingLost
PROPERTY MallocReturns
CHECK_DEADLOCK FALSE
