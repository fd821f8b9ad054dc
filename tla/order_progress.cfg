SPECIFICATION FairSpec
CONSTANTS
  None = None
  a1 = a1
  a2 = a2
  s1 = s1
  o1 = o1
  o2 = o2
  k1 = k1
  c1 = c1
  c2 = c2
  e1 = e1
  p1 = p1
  w1 = w1
\* The sale ends, and the pipeline rests once every row is handled.
CHECK_DEADLOCK FALSE
PROPERTIES
  HeldSeatsEventuallyResolve
  CapturedMoneyEventuallySettles
  EveryEventIsHandled
