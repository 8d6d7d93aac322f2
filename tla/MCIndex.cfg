SPECIFICATION PageSpec
CONSTANTS
  n1 = n1
  a1 = a1
  a2 = a2
  borrower = borrower
  originator = originator
  mandate = mandate
  Borrower = borrower
  Originator = originator
  MandateContract = mandate
  Payers = {borrower, originator, mandate}
  NoAgent = NoAgent
  NoRow = NoRow
  NoteIds = {n1}
  RecipientCount = 1
  FeeRecipient <- OneRecipient
  Agents = {a1, a2}
  MintedAt = 1
  PeriodCount = 2
  PeriodLength = 1
  GracePeriod = 0
  CureWindow = 0
  Principal = 30
  CouponBps = 5000
  ServicingFeeBps = 500
  Payments = {30}
  MaxPaidIn = 60
  MaxTime = 4
  Day = 1
  MaxLag = 2
  MaxDelegations = 1
  Unit = 10
INVARIANTS
  CountersRecount
  MirrorCurrent
  OffersWhatIsTaken
SYMMETRY AgentsAlike
CHECK_DEADLOCK FALSE
