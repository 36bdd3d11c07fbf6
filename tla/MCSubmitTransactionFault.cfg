\* One failed round trip to Redis (the database does not fail), and no hashes:
\* the shortest counterexample is a failed complete().
SPECIFICATION Spec
CONSTANTS
  Requests = {r1, r2}
  Keys = {k1}
  Hashes = {}
  NoKey = NoKey
  NoHash = NoHash
  NoRow = NoRow
  MaxClaimAttempts = 2
  MaxCrashes = 0
  Failing = {"redis"}
  MaxFaults = 1
  MaxExpiries = 0
INVARIANT CannotBothInsert
CHECK_DEADLOCK FALSE
