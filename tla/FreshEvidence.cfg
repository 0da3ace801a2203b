SPECIFICATION Spec
CONSTANTS
  None = None
  Worker = {w1}
  MaxRequest = 2
  MaxCrash = 0
CHECK_DEADLOCK FALSE
INVARIANT FreshEvidenceReleases
