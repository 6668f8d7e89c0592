\* Two calls of one account whose entitlement changes, with outages and slow answers;
\* two requests by a session and by a key that share a bucket or have one each.
SPECIFICATION MCSpec
CONSTANTS
  Account = {a1}
  Call = {c1, c2}
  Bytes = {1, 2}
  Seats = {0, 1}
  Entitlements <- MCEntitlements
  TTL = 1
  Timeout = 1
  MaxMetered = 1
  MaxTime = 2
  Request = {r1, r2}
  Key = {k1}
  User = {u1}
  Owner <- MCOwner
  KeyTTL = 1
  KeyTimeout = 1
  Rate = 2
  Burst = 2
  BucketTTL = 1
  Horizon = 2
INVARIANT ReservedExact
INVARIANT GatedWithinCap
INVARIANT BurstBound
PROPERTY SuspensionReaches
PROPERTY EveryCallReturns
PROPERTY RevokedKeyStops
