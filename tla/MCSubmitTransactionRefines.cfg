\* Refinement and liveness: no failed round trips, two crashes, one expiry.
\* CHECK_DEADLOCK is off: every request of the finite set may have been answered.
SPECIFICATION FairSpec
CONSTANTS
  Requests = {r1, r2, r3}
  Keys = {k1}
  Hashes = {h1}
  NoKey = NoKey
  NoHash = NoHash
  NoRow = NoRow
  MaxClaimAttempts = 2
  MaxCrashes = 2
  Failing = {"redis", "database"}
  MaxFaults = 0
  MaxExpiries = 1
PROPERTIES
  ImplementsIdempotentExecution
  EveryRequestAnswered
CHECK_DEADLOCK FALSE
