SPECIFICATION Spec
CONSTANTS
  thread_count = 2
  queries = 3
  Empty = {}
  query_id <- OwnIds
  segments <- Sizes
  total <- Totals
  relative = 50
  Allocations = {{0, 1}}
  Tables = {{"q1", "q2", "q3"}}
  Nothing = Nothing
INVARIANT BudgetIsOwn
