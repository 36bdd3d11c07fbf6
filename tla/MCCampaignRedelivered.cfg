SPECIFICATION CampaignsSpec
CONSTANTS
  Milestones = {m1}
  Target <- MCTarget
  Payments = {1}
  MaxPayments = 2
  Goal = 9
  Requests = {}
INVARIANT DeliveryCountedOnce
CHECK_DEADLOCK FALSE
