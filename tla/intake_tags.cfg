SPECIFICATION ValidatingSpec
CONSTANTS
  None = None
  s1 = s1
  k1 = k1
  k2 = k2
  c1 = c1
  c2 = c2
  c3 = c3
  w1 = w1
  w2 = w2
  b1 = b1
  Seats = {s1, s2}
  Keys = {k1, k2}
  Commands = {c1, c2, c3}
  Writers = {w1, w2}
  Clients = {b1}
  MaxBacklog = 2
  BatchLimit = 2
  MaxMaps = 2
  MaxReads = 1
  MaxFailures = 1
\* Commands run out.
CHECK_DEADLOCK FALSE
INVARIANT NotModifiedMeansUnchanged
