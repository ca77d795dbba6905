SPECIFICATION AnySpec
CONSTANTS
  documents = 3
  top_k = 2
  MAX_RSV = 5
  Impacts = {1, 3}
  Oracles = {1, 2, 3, 5}
  NoDocument = NoDocument
  Terms = {t1, t2}
  Predictions = {2, 3, 6, 7, 8}
  Budgets = {3, 6}
  Minimums = {0}
  array_documents = 6
  array_top_k = 5
  array_MAX_RSV = 2
  array_Impacts = {1, 2}
  array_Oracles = {1, 2}
  Zero = Zero
  NUMBER_OF_ACCUMULATORS = 3
  Elements = {0, 1}
  PowersOfTwo = {1, 2, 4}
  max_clean_id = 2
  accumulators_per_chunk = 3
SYMMETRY TermSymmetry
INVARIANTS AlwaysTopK ToppedUpIsTopK PromotedIsInHeap ArrayIsHeap ScoresFit AnytimeTopK OracleIsSafe OracleKeepsTopK RowsInside
PROPERTIES ImplementsQueryHeap ImplementsArray CounterImplementsArray InterleavedImplementsArray
