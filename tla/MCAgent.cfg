SPECIFICATION FairAgentSpec
CONSTANTS
  n1 = n1
  b1 = b1
  a1 = a1
  NoAgent = NoAgent
  NoteIds = {n1}
  NoteSeq <- OneNote
  RecipientCount = 1
  FeeRecipient <- OneRecipient
  Agents = {a1}
  Me = a1
  MintedAt = 1
  PeriodCount = 2
  PeriodLength = 1
  GracePeriod = 0
  CureWindow = 0
  Principal = 20
  CouponBps = 5000
  ServicingFeeBps = 0
  Payments = {20}
  MaxPaidIn = 40
  MaxTime = 4
  Borrowers = {b1}
  BorrowerOf <- OneBorrower
  SCALE = 8
  Ceilings = {8}
  Signed <- FirstPeriodSigned
  Lodged <- FirstPeriodSigned
  Funds = 16
  Spendings = {16}
  MAX_ACTIONS_PER_TICK = 2
  DEFAULT_DRY_RUN = FALSE
  MaxFaults = 1
INVARIANTS
  MissedOnlyIfLate
  NothingStranded
PROPERTIES
  PeriodsResolved
