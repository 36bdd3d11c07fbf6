SPECIFICATION ContractSpec
CONSTANTS
  Accounts = {a, b}
  Voters = {a, b, c}
  a = a
  b = b
  c = c
  Self = self
  Funds = 3
  MaxTime = 2
  Ids = {i, j}
  i = i
  j = j
  Amounts <- MCAmounts
  Percentages <- MCPercentages
  Payments = {p}
  p = p
  Values <- MCValues
  Threshold = 2
  HighValue = 2
  MaxProposals = 1
  Durations <- MCDurations
  Powers <- MCPowers
  MaxHops = 3
  Feed = feed
  Providers = {a}
  MaxPrice = 4
  Prices <- MCPrices
  Honest = {b}
  Lowest = 2
  Highest = 2
  Stalenesses <- MCStalenesses
  DefaultStaleness = 1
  Deviations <- MCDeviations
  DefaultDeviation = 4000
  MaxListed = 2
  MaxPrices = 3
  MaxCalls = 2
  Wasms = {w1, w2}
  w1 = w1
  w2 = w2
  FirstVersion = w0
  Deployer = a
INVARIANTS
  Solvent
  ReleasedInProportion
  ApprovalsDecide
  TallyIsBacked
  PowerCountedOnce
  AdministrationHolds
PROPERTIES
  ExpiredGoesBack
  NothingLockedForever
  PricesHold
CHECK_DEADLOCK FALSE
