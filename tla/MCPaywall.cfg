SPECIFICATION FairSpec
CONSTANTS
  None = None
  borrowerCard = borrowerCard
  timeline = timeline
  Requests = {r1, r2, r3}
  Nonces = {a1}
  Endpoints = {borrowerCard, timeline}
  Unguarded = {borrowerCard}
  PRICES <- TwoPrices
  MinRemaining = 1
  Window = 1
  MaxTime = 2
INVARIANTS
  ServedOncePaid
  RefusalsTrue
PROPERTIES
  EveryRequestAnswered
CHECK_DEADLOCK FALSE
