SPECIFICATION Spec
CONSTANTS
  Codecs = {"relative_10"}
  Runs <- runs
  max_runs = 2
  Rooms = {999}
  ample_room = 999
  simd_words = 2
INVARIANTS AcceptedIsDecoded
CHECK_DEADLOCK FALSE
