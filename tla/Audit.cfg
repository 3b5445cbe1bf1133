\* Two callers, a queue of one, cut writes, failed pushes, crashes and closes.
\* Callers stop at MaxEvents, and nothing more happens.
CHECK_DEADLOCK FALSE
SPECIFICATION LiveSpec
CONSTANTS
  w1 = w1
  w2 = w2
  Writer = {w1, w2}
  MaxEvents = 2
  QueueDepth = 1
  FlushBatch = 2
  Faults <- AnyFault
INVARIANTS ShippedIsDurable ShippedInOrder TearHidesOne LossIsReported
PROPERTIES QueuedIsShipped
