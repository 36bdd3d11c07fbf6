SPECIFICATION ServicesSpec
CONSTANTS
  x1 = x1
  x2 = x2
  x3 = x3
  y1 = y1
  y2 = y2
  m1 = m1
  m2 = m2
  Calls <- MCNames
  MaxNonces = 1
  MaxTime = 2
  Ttl = 1
  Idle = 1
  Persistence = TRUE
  Attempts <- MCAttempts
  Passwords <- MCNames
  MaxAttempts = 2
  Lockout = 1
  HistoryLimit = 2
  MaxClock = 1
  Keys <- MCNames
  Owners <- MCPairs
  Grace = 1
  Unused = 1
  MaxDay = 3
  MaxRequests = 4
  Polls <- MCPairs
  Final = 2
  MaxPolls = 4
  Payments <- MCPayments
  MaxPayments = 2
  Milestones = {m1, m2}
  Target <- MCTarget
  Goal = 3
  Requests <- MCPairs
  Events <- MCNames
  Window = 1
  MaxNow = 1
  Readers <- MCPairs
  Writers = {m1, m2}
  CacheTtl = 1
  MaxChanges = 2
  MaxMoment = 1
  Hits <- MCNames
  Limit = 1
  Period = 1
  BlockDuration = 0
  MaxInstant = 3
  Sends <- MCPairs
  Passes <- MCPairs
  MaxRetries = 1
  MaxClicks = 1
  Bases = {m1}
  Numbers = {0, 1, 2}
  Lengths = {0, 1, 2}
  MaxId = 1
  MaxText = 1
SYMMETRY Symmetry
INVARIANTS
  ServicesTypeOK
  LogoutHolds
  IndexCoversSessions
  OneLoginPerChallenge
  LockoutCounts
  PasswordNotReused
  RotationKeepsAKey
  StatusFollowsAnchor
  PaymentsCounted
  CampaignCompletes
  OneNotificationPerWindow
  CachesAreRecent
  ThrottleHolds
  QueuedSentOnce
  LibrariesAgree
CHECK_DEADLOCK FALSE
