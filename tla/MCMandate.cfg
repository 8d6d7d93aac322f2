SPECIFICATION FairLodgingSpec
CONSTANTS
  n1 = n1
  b1 = b1
  a1 = a1
  NoAgent = NoAgent
  NoteIds = {n1}
  RecipientCount = 1
  FeeRecipient <- OneRecipient
  Agents = {a1}
  MintedAt = 1
  PeriodCount = 2
  PeriodLength = 1
  GracePeriod = 1
  CureWindow = 2
  Principal = 40
  CouponBps = 5000
  ServicingFeeBps = 0
  Payments = {15}
  MaxPaidIn = 30
  MaxTime = 5
  Borrowers = {b1}
  BorrowerOf <- OneBorrower
  SCALE = 8
  Ceilings = {}
  MaxSignatures = 2
  None = None
  Signed <- NothingSigned
  Funds = 120
  Spendings = {72}
PROPERTIES
  PullsAsSigned
  StandingHonoured
  DoneCovers
  MarksHold
  SchedulePaid
CHECK_DEADLOCK FALSE
