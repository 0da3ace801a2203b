SPECIFICATION Spec
CONSTANTS
  w1 = w1
  w2 = w2
  c1 = c1
  c2 = c2
  r1 = r1
  r2 = r2
  p1 = p1
  p2 = p2
  None = None
  Worker <- OneWorker
  Campaign <- OneCampaign
  Scheduled <- FirstRun
  Requested <- NoRun
  CampaignOf <- FirstOnly
  Prospect <- TwoProspects
  Dummy <- NoDummy
  MaxRunAttempts = 2
  TenantWeekly = 2
  CampaignWeekly = 2
  SpendCap = 2
  Event <- Toggles
CHECK_DEADLOCK FALSE
INVARIANT RetrySameRequest
