\* CHECK_DEADLOCK stays on: a closed app can always be started again.
SPECIFICATION Spec
CONSTANTS
  Drafts = {d1, d2}
  Flows = {f1, f2}
  NoDraft = NoDraft
  MaxFlaps = 1
  MaxFaults = 2
  MaxKills = 1
SYMMETRY DraftSymmetry
INVARIANTS
  NoNeedlessResend
  NoOrphanSubmitting
PROPERTY CancelledStays
