\* The contract really may stop: every token sent to the escrow directly, and
\* the note closed and paid out.
SPECIFICATION MarketSpec
CONSTANTS
  HolderCount = 3
  Supply = 2
  PRECISION = 8
  Distributions = {1}
  TokenAmounts = {1, 2}
  MaxDistributions = 2
  Prices = {5000, 15000}
  MaxSales = 2
  MaxListed = 3
INVARIANTS
  ListingEscrowed
  SoldAtTheAskedPrice
  MarketMirrored
PROPERTIES
  OfferingKeepsLedger
CHECK_DEADLOCK FALSE
