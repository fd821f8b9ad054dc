SPECIFICATION MCSpec
CONSTANTS
  None = None
  Star = Star
  t1 = t1
  t2 = t2
  e1 = e1
  s1 = s1
  s2 = s2
  w1 = w1
  r1 = r1
  Events = {e1}
  Seats = {s1, s2}
  Workers = {w1}
  Reconcilers = {r1}
  RefreshLimit = 1
  MaxVersion = 1
  MaxMaps = 2
  MaxFailures = 2
SYMMETRY Symmetry
INVARIANT TagNamesOneMap
INVARIANT DeltasCatchUp
INVARIANT StaleSeatIsRequested
INVARIANT CacheIsSound
PROPERTY SeatNeverGoesBack
CHECK_DEADLOCK FALSE
