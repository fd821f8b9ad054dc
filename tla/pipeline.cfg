\* One publisher; two consumers take the partition from each other.
CONSTANTS
  e1 = e1
  e2 = e2
  p1 = p1
  c1 = c1
  c2 = c2
  None = None
  Events = {e1, e2}
  Publishers = {p1}
  Consumers = {c1, c2}
  PublisherBatch = 2
  MaxAttempts = 2
  MaxFailures = 3
SPECIFICATION MCSpec
SYMMETRY Symmetry
\* The pipeline rests once every row is handled, the schedule after the sales.
CHECK_DEADLOCK FALSE
INVARIANTS
  DoneMessagesAreHandled
PROPERTIES
  ImplementsDelivery
  StaleWorkerIsFenced
