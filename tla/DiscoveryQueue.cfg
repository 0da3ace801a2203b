SPECIFICATION Spec
CONSTANTS
  w1 = w1
  w2 = w2
  c1 = c1
  c2 = c2
  r1 = r1
  r2 = r2
  p1 = p1
  p2 = p2
  None = None
  Worker <- TwoWorkers
  Campaign <- OneCampaign
  Scheduled <- FirstRun
  Requested <- SecondRun
  CampaignOf <- SameCampaign
  Prospect <- OneProspect
  Dummy <- NoDummy
  MaxRunAttempts = 2
  TenantWeekly = 1
  CampaignWeekly = 1
  SpendCap = 1
  Event <- Posts
CHECK_DEADLOCK FALSE
SYMMETRY WorkerSymmetry
INVARIANT PurchasesCovered
INVARIANT SpendCapHolds
PROPERTY FinishedStays
