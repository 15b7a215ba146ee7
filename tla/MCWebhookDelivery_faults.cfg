\* Two deliveries compete for a batch of one; everything but the
\* endpoint lookup may fail.
CONSTANTS
  d1 = d1
  d2 = d2
  e1 = e1
  Deliveries = {d1, d2}
  Endpoints = {e1}
  Target <- MCTarget
  MaxAttempts = 2
  BatchSize = 1
  WorkerCount = 1
  Faults = {"unreachable", "unsendable", "write_error", "crash"}
SPECIFICATION FairSpec
INVARIANTS TypeOK DeliveredWasAccepted FailedWasRefused
PROPERTY DeliveriesSettle
CHECK_DEADLOCK FALSE
