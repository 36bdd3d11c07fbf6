\* One draft, one loss of connection, no other failure.
SPECIFICATION FairSpec
CONSTANTS
  Drafts = {d1}
  Flows = {f1, f2}
  NoDraft = NoDraft
  MaxFlaps = 1
  MaxFaults = 0
  MaxKills = 0
PROPERTY FailedDraftIsRetried
