SPECIFICATION AnySpec
CONSTANTS
  Keys = {1, 2}
  Threads = {t1, t2}
  max_trees = 4
  max_nodes = 6
  max_calls = 3
  Nothing = Nothing
  Slots = {0, 1}
  hash <- MCHash
  Pushers = {1, 2, 3}
  max_chunks = 9
  None = None
  Sizes = {1, 2}
  growth = 15
  max_pushes = 3
INVARIANT BeginIsSmallest
CHECK_DEADLOCK FALSE
