\* The process dies while a job runs.
CONSTANTS
  j1 = j1
  j2 = j2
  j3 = j3
  Jobs = {j1}
  Workers = {w1, w2}
  RetryProcs = {p1}
  Requests = {r1}
  Priority <- MCPriority
  Handled <- MCHandled
  MaxRetries = 3
  AdminOps = {}
  Faults = {"crash"}
SPECIFICATION Spec
INVARIANT RunningIsProcessed
CHECK_DEADLOCK FALSE
