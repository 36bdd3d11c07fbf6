\* Two payments of one wallet, two failures.
\* CHECK_DEADLOCK is off: once every row is final nothing remains to be done.
SPECIFICATION Spec
CONSTANTS
  p1 = p1
  p2 = p2
  Payments = {p1, p2}
  Submitted = {}
  Amount <- MCAmount
  Limit = 4
  MaxAttempts = 2
  MaxStalls = 1
  MaxHorizonAttempts = 2
  MaxFaults = 3
INVARIANTS
  NoStuckProcessing
  LimitHolds
CHECK_DEADLOCK FALSE
