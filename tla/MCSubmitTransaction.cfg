\* Safety: one crash, one failed round trip, one expiry.
\* CHECK_DEADLOCK is off: every request of the finite set may have been answered.
SPECIFICATION Spec
CONSTANTS
  Requests = {r1, r2, r3}
  Keys = {k1, k2}
  Hashes = {h1}
  NoKey = NoKey
  NoHash = NoHash
  NoRow = NoRow
  MaxClaimAttempts = 2
  MaxCrashes = 1
  Failing = {"redis", "database"}
  MaxFaults = 1
  MaxExpiries = 1
SYMMETRY RequestSymmetry
INVARIANTS
  OneInsertPerKey
  SameKeySameAnswer
  SameHashSameRow
  NoPoisonedKey
PROPERTY ReplayIsStable
CHECK_DEADLOCK FALSE
