\* One payment and one submitted row, two failures: enough to lose a job, to
\* exhaust its attempts or its restarts.
\* CHECK_DEADLOCK is off: once every row is final nothing remains to be done.
SPECIFICATION FairSpec
CONSTANTS
  p1 = p1
  p2 = p2
  Payments = {p1}
  Submitted = {s1}
  Amount <- MCAmount
  Limit = 4
  MaxAttempts = 2
  MaxStalls = 1
  MaxHorizonAttempts = 2
  MaxFaults = 2
INVARIANTS
  LedgerAgreement
PROPERTIES
  FinalStatusStable
  EveryRowFinalised
CHECK_DEADLOCK FALSE
