SPECIFICATION AnytimeSpec
CONSTANTS
  documents = 2
  top_k = 1
  MAX_RSV = 6
  NoDocument = NoDocument
  Terms = {t1, t2}
  Impacts = {1, 2, 3}
  Oracles = {1}
  Predictions = {5}
  Budgets = {4}
  Minimums = {0}
INVARIANT BelowOracleLeftOut
