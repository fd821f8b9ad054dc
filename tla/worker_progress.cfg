SPECIFICATION FairSpec
CONSTANTS
  None = None
  e1 = e1
  e2 = e2
  s1 = s1
  k1 = k1
  c1 = c1
  c2 = c2
  w1 = w1
  w2 = w2
\* Changes and commands run out, and a loop that was stopped has ended.
CHECK_DEADLOCK FALSE
PROPERTIES
  ChangesReachTheMap
  MapsBecomeCurrent
  CommandsAreSettled
  DueEventIsReconciled
  LoopGoesOnUntilStopped
