SPECIFICATION Spec
CONSTANTS
  None = None
  a1 = a1
  s1 = s1
  s2 = s2
  o1 = o1
  o2 = o2
  h1 = h1
  h2 = h2
  k1 = k1
  p1 = p1
  c1 = c1
  c2 = c2
  w1 = w1
  Actors = {a1}
  Seats = {s1, s2}
  Orders = {o1, o2}
  Commands = {o2}
  HoldKeys = {h1, h2}
  OrderKeys = {k1}
  PaymentKeys = {p1}
  CallbackIds = {c1, c2}
  ExpiryWorkers = {w1}
  HoldSeconds = 1
  SaleStarts = 0
  SaleEnds = 3
  ExpiryLimit = 2
  MaxLag = 1
  MaxClock = 3
SYMMETRY Symmetry
INVARIANT HeldSeatsAreRecoverable
INVARIANT CapturedMoneyIsSettledOnce
INVARIANT EveryChangeIsAnnounced
INVARIANT OneHoldPerKey
PROPERTY ImplementsOwnership
\* The clock is bounded: behaviours end.
CHECK_DEADLOCK FALSE
