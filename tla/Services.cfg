SPECIFICATION MCSpec
CONSTANTS
  None = None
  NoOne = NoOne
  w1 = w1
  w2 = w2
  u1 = u1
  u2 = u2
  a1 = a1
  a2 = a2
  k1 = k1
  k2 = k2
  c1 = c1
  c2 = c2
  c3 = c3
  c4 = c4
  Daemon = {w1, w2}
  Handler = {u1, u2}
  ResetLink = {l1}
  MaxPassword = 2
  MaxSecret = 2
  MaxStep = 2
  Email = {a1, a2, e1}
  Founder = {a1, a2}
  AccessRequest = {r1}
  Invitation = {i1}
  Seats = 3
  Editor = {d1}
  Enrollment = {1, 2}
  Texts <- MCTexts
  Original <- MCOriginal
  Winner = 3
  Sender = {a1, a2}
  Owner = a1
  MaxVersion = 3
  Booking = {b1}
  Stray = {b2}
  MaxBroken = 1
  AutoQualify = FALSE
  LastMsg = 2
  MessageKind <- MCKind
  PollPage = 1
  MaxPollFault = 1
  DiscoverKey = {k1, k2}
  VerifyKey = {k3}
  Hash = {h1}
  PeopleKnown = 2
  PeopleWanted = 1
  Budget = 2
  MinPage = 1
  MaxPages = 2
  MaxBuys = 2
  MaxRequest = 1
  MaxCrash = 1
  AlertAttempts = 3
  Subject = {p1, p2}
  MaxBackup = 1
  DailyLimit = 1
  ChatAttempts = 3
  ShapeAttempts = 2
  ChatDeadline = 4
  MaxRetryAfter = 2
  Plan = {"FREE", "STARTER"}
  Limits <- MCLimits
  Unlimited = 99
  PlanCampaign = {c1, c2, c3, c4}
  SenderOf <- MCSenderOf
  Experiment = {e1}
  BuyingRun = {r1, i1}
  MaxRequested = 2
  MaxEmails = 2
  Visit = {u1, u2, w1}
  Visitor = {a1, a2}
  Address = {e1}
  Registered = {e1}
  PerCaller = 1
  Total = 2
  PerAddress = 1
  MaxClock = 2
  Tenant = {t1, t2}
  MailCampaign = {c1, c2}
  Recipient = {p1}
  MaxKey = 2
  MaxMail = 2
  Addressee = {p1}
  SendAttempts = 3
  Letter = {letter}
  MaxDraft = 3
  ClockHours <- MCHours
  Offsets <- MCOffsets
  Days = {0, 3, 4, 5, 7}
  Sent <- MCSent
  Bounces = {0, 1, 2, 3, 4, 5, 6}
  Complaints = {0, 1, 2}
  SenderAges = {0, 2, 3, 60}
  Word <- MCWord
  Key <- MCKey
  Group <- MCGroup
  Taxonomy <- MCTaxonomy
  Means <- MCMeans
  Band <- MCBand
  Heads = {0, 1, 9, 10, 20, 21}
  Elapsed <- MCWaits
  MinScores = {50, 90, 95, 100}
  MaxWrong = 3
  HealthWorker = {w1}
  KeyAdmin = {a1, a2}
  KeyCaller = {w1}
  Vendor = {"apollo"}
  VendorKey = {k1, k2}
  MaxSave = 2
  MaxKeyFault = 2
  LeadCompany <- MCCompany
  LeadEmail <- MCEmail
  MaxLeads = 1
  MaxPieces = 3
  Byte = {0, 90, 255}
  MaxBytes = 4
  Width = 16
CHECK_DEADLOCK FALSE
INVARIANT Typed
INVARIANT AccountsKept
INVARIANT CampaignKept
 
 
 
INVARIANT RetriesBounded
 
INVARIANT DataKept
 
 
