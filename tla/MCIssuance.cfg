SPECIFICATION PagesSpec
CONSTANTS
  p1 = p1
  p2 = p2
  p3 = p3
  h1 = h1
  h2 = h2
  m1 = m1
  Nobody = Nobody
  NoRow = NoRow
  Parties = {p1, p2, p3}
  Nullifiers = {h1, h2}
  NaN = NaN
  Attestations <- Signed
  Admins = {m1}
  TermSheets <- Sheets
  Drafts <- FormDrafts
  MINT_WINDOW = 1
  MIN_PERIOD_LENGTH = 1
  MAX_COUPON_BPS = 5000
  MAX_SERVICING_FEE_BPS = 500
  MaxProposals = 2
  LastTime = 4
INVARIANTS
  AgreedByAll
  MintedOnce
  RowsRecount
  PagesMatchTheQueue
