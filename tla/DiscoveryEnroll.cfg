SPECIFICATION Spec
CONSTANTS
  w1 = w1
  w2 = w2
  c1 = c1
  c2 = c2
  r1 = r1
  r2 = r2
  p1 = p1
  p2 = p2
  None = None
  Worker <- TwoWorkers
  Campaign <- TwoCampaigns
  Scheduled <- BothRuns
  Requested <- NoRun
  CampaignOf <- OneEach
  Prospect <- TwoProspects
  Dummy <- OneProspect
  MaxRunAttempts = 1
  TenantWeekly = 1
  CampaignWeekly = 1
  SpendCap = 2
  Event <- Lists
CHECK_DEADLOCK FALSE
SYMMETRY WorkerSymmetry
INVARIANT WeeklyCapsHold
INVARIANT OneOwner
INVARIANT SuppressedNotEnrolled
