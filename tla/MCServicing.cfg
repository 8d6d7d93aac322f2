SPECIFICATION FairHSpec
CONSTANTS
  n1 = n1
  a1 = a1
  NoAgent = NoAgent
  NoteIds = {n1}
  RecipientCount = 1
  FeeRecipient <- SharedRecipient
  Agents = {a1}
  MintedAt = 1
  PeriodCount = 3
  PeriodLength = 1
  GracePeriod = 1
  CureWindow = 1
  Principal = 40
  CouponBps = 5000
  ServicingFeeBps = 500
  Payments = {20, 30, 100}
  MaxPaidIn = 120
  MaxTime = 8
INVARIANTS
  VaultBacked
  LedgersAgree
  HoldersCreditedOnce
  StandingMatchesPeriods
  CureWindowTimed
  RelayHoldsOwedFees
  WindowNeverRestarts
PROPERTIES
  ImplementsLoanBook
  FundedNotesClose
