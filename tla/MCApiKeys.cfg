SPECIFICATION ApiKeysSpec
CONSTANTS
  k1 = k1
  k2 = k2
  Keys = {k1, k2}
  o1 = o1
  Owners = {o1}
  Grace = 1
  Unused = 1
  MaxDay = 3
  MaxRequests = 3
INVARIANTS
  RevokedKeyIsRefused
CHECK_DEADLOCK FALSE
