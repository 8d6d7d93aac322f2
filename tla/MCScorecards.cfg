SPECIFICATION ScoreSpec
CONSTANTS
  n1 = n1
  a1 = a1
  NoAgent = NoAgent
  NoteIds = {n1}
  RecipientCount = 1
  FeeRecipient <- OneRecipient
  Agents = {a1}
  MintedAt = 1
  PeriodCount = 2
  PeriodLength = 1
  GracePeriod = 0
  CureWindow = 0
  Principal = 30
  CouponBps = 5000
  ServicingFeeBps = 500
  Payments = {30}
  MaxPaidIn = 60
  MaxTime = 4
  DefaultChunk = 4
  MinChunk = 1
INVARIANTS
  CardOfItsTime
CHECK_DEADLOCK FALSE
