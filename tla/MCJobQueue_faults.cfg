\* One queue with its single retry processor; the server may die at any point
\* and any write may fail.
CONSTANTS
  j1 = j1
  j2 = j2
  j3 = j3
  Jobs = {j1, j2, j3}
  Workers = {w1, w2}
  RetryProcs = {p1}
  Requests = {r1}
  Priority <- MCPriority
  Handled <- MCHandled
  MaxRetries = 3
  AdminOps = {}
  Faults = {"crash", "write_error"}
SPECIFICATION Spec
INVARIANTS TypeOK ExclusiveExecution
PROPERTY ImplementsLifecycle
SYMMETRY Symmetry
CHECK_DEADLOCK FALSE
