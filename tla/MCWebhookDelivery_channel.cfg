\* The table is that of a channel that delivers at least once, every fault included.
CONSTANTS
  d1 = d1
  d2 = d2
  e1 = e1
  Deliveries = {d1, d2}
  Endpoints = {e1}
  Target <- MCTarget
  MaxAttempts = 2
  BatchSize = 1
  WorkerCount = 1
  Faults = {"unreachable", "unsendable", "lookup_error", "write_error", "crash"}
SPECIFICATION Spec
INVARIANT DeliveredWasAccepted
PROPERTY ImplementsChannel
CHECK_DEADLOCK FALSE
