\* Calls that span a unit of time, and requests in the instant in which an answer is
\* applied; safety only.
CONSTANTS
  Admins = {a1}
  Boot = boot
  Heart = heart
  Loops = {l1, l2}
  HeartbeatInterval = 2
  ValidationInterval = 2
  TokenValidity = 4
  GracePeriod = 1
  MaxLatency = 1
  MaxMissed = 0
  Requests = {"set", "deactivate", "midway"}
  Faults = {"unreachable", "limit"}
SPECIFICATION Spec
INVARIANTS TypeOK SomeoneValidates TokenStaysFresh
PROPERTIES NoEarlyDowngrade
