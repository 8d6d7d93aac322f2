SPECIFICATION HistorySpec
CONSTANTS
  HolderCount = 3
  Supply = 3
  PRECISION = 10
  Distributions = {0, 1, 2}
  TokenAmounts = {0, 1, 2}
  MaxDistributions = 3
INVARIANTS
  OverCreditBounded
  FairShare
