\* Two organizations, two retry processors listing the same failed rows.
CONSTANTS
  j1 = j1
  j2 = j2
  j3 = j3
  Jobs = {j1}
  Workers = {w1, w2}
  RetryProcs = {p1, p2}
  Requests = {r1}
  Priority <- MCPriority
  Handled <- MCHandled
  MaxRetries = 3
  AdminOps = {}
  Faults = {}
SPECIFICATION Spec
INVARIANT ExclusiveExecution
CHECK_DEADLOCK FALSE
