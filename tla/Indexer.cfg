SPECIFICATION AnySpec
CONSTANTS
  largest_impact = 3
  took <- took_of
  string_bytes <- bytes_of
  score <- score_of
  Nothing = Nothing
  Terms = {1, 2}
  max_documents = 3
  max_count = 2
  max_postings = 3
  Lists <- lists
  imported = 6
  byte_bits = 2
  Formats <- formats
  Files <- all_files
  Sizes = {6, 7, 8, 10, 15}
  Codecs = {"simple_9", "simple_9_packed", "simple_16", "simple_16_packed", "simple_8b", "simple_8b_packed", "carryover_12", "nybble_8", "lyck_16", "variable_byte", "elias_gamma", "elias_delta", "elias_gamma_simd", "elias_gamma_simd_vb"}
  Runs <- runs
  max_runs = 3
  Rooms = {2, 9, 999}
  ample_room = 999
  simd_words = 2
INVARIANTS RoundTrip QuantisedInOrder ListsFit SegmentsAligned EveryDocumentRead CodecRoundTrip RefusesOnlyTooWide PackedNeverLonger RoomOnlyRefuses
CHECK_DEADLOCK FALSE
