\* One administrator at a time; every fault: the license server may be away, refuse the
\* licence, take it back or not decide, heartbeats may bring no token, the database may
\* keep a key that is removed, and the server may restart.  A unit of time is a
\* heartbeat interval: calls end within it.
CONSTANTS
  Admins = {a1}
  Boot = boot
  Heart = heart
  Loops = {l1, l2}
  HeartbeatInterval = 1
  ValidationInterval = 1
  TokenValidity = 2
  GracePeriod = 1
  MaxLatency = 0
  MaxMissed = 1
  Requests = {"set", "deactivate", "report"}
  Faults = {"unreachable", "refused", "limit", "downgrade", "store_error", "crash"}
SPECIFICATION FairSpec
INVARIANTS TypeOK SomeoneValidates TokenStaysFresh
PROPERTIES NoEarlyDowngrade LicenceRecovers
