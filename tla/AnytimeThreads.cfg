SPECIFICATION FairSpec
CONSTANTS
  thread_count = 3
  queries = 3
  Empty = {}
  query_id <- OwnIds
  segments <- Sizes
  total <- Totals
  relative = 100
  Allocations = {{0}, {0, 1, 2}}
  Tables = {{"q1"}, {"q1", "q2", "q3"}}
  Nothing = Nothing
INVARIANTS TakenOnce AllAnswered ResultsAreOwn
PROPERTY SearchReturns
