SPECIFICATION Spec
CONSTANTS
  MAX_DOCUMENTS = 3
  MAX_TOP_K = 10
  MAX_WIDTH = 2
  MAX_SIZE = 9
  Directories <- MCDirectories
  Misfits <- MCMisfits
  Ks = {0, 2, 11}
  Widths = {1, 3}
  Counts = {1}
  Percents = {50, 100}
  Totals = {4}
  ThreadCounts = {0, 1, 2}
  None = None
  Half = Half
INVARIANTS ObjectsAgree LoadedIsSafe LastBudgetHolds
CHECK_DEADLOCK FALSE
