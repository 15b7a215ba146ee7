\* Two retry processors over the same rows, requests that cancel and retry while
\* a worker runs, and the progress of two jobs of different priority.
CONSTANTS
  j1 = j1
  j2 = j2
  j3 = j3
  Jobs = {j1, j2}
  Workers = {w1}
  RetryProcs = {p1, p2}
  Requests = {r1}
  Priority <- MCPriority
  Handled <- MCHandled
  MaxRetries = 2
  AdminOps = {"cancel", "retry"}
  Faults = {}
SPECIFICATION FairSpec
INVARIANTS RetryBudget RunningIsProcessed
PROPERTY JobsSettle
CHECK_DEADLOCK FALSE
