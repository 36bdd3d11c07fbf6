SPECIFICATION RestartSpec
CONSTANTS
  Drafts = {d1}
  Flows = {f1, f2}
  NoDraft = NoDraft
  MaxFlaps = 2
  MaxFaults = 2
  MaxKills = 1
PROPERTY EveryDraftSettles
