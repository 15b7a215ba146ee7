\* Another key is entered in the grace period of an earlier one, and the license server
\* does not grant it before it expires.
CONSTANTS
  Admins = {a1}
  Boot = boot
  Heart = heart
  Loops = {l1, l2}
  HeartbeatInterval = 1
  ValidationInterval = 1
  TokenValidity = 2
  GracePeriod = 1
  MaxLatency = 0
  MaxMissed = 0
  Requests = {"set"}
  Faults = {"unreachable", "limit"}
SPECIFICATION Spec
PROPERTY WholeGracePeriod
