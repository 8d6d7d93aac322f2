SPECIFICATION IdentitySpec
CONSTANTS
  p1 = p1
  p2 = p2
  h1 = h1
  h2 = h2
  Nobody = Nobody
  Parties = {p1, p2}
  Nullifiers = {h1, h2}
  Ttl = 1
  LastTime = 3
INVARIANTS
  OneAddressPerNullifier
  VerdictsHold
SYMMETRY Alike
CHECK_DEADLOCK FALSE
