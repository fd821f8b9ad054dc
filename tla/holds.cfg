SPECIFICATION MCSpec
CONSTANTS
  None = None
  r1 = r1
  r2 = r2
  r3 = r3
  s1 = s1
  s2 = s2
  a1 = a1
  k1 = k1
  k2 = k2
  e1 = e1
  e2 = e2
  o1 = o1
  o2 = o2
  Requests = {r1, r2, r3}
  Seats = {s1, s2}
  Actors = {a1}
  HoldLimit = 3
  RateLimit = 3
  PoolMax = 1
  MaxFailures = 0
  Sessions = {r1, r2, r3}
  Orders = {o1, o2}
  SeatNumbers = {1, 2}
  Items <- ItemsOverlap
  Keys = {k1}
  Events = {e1, e2}
  Roles = {"reserve", "order", "release", "callback", "expire", "consume", "simulate", "refresh", "seed"}
  Nobody = Nobody
SYMMETRY Symmetry
INVARIANT CountersAreExact
INVARIANT RefusalMeansNoHold
INVARIANT BodyIsExclusive
INVARIANT NoWaitCycle
\* Every request ends.
CHECK_DEADLOCK FALSE
