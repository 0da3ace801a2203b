SPECIFICATION Spec
CONSTANTS
  w1 = w1
  w2 = w2
  a = a
  NoOne = NoOne
  Worker <- TwoWorkers
  Contact <- OneContact
  LastStep = 1
  MaxSendAttempts = 2
  DailyCap = 1
  Review = TRUE
  Unreadable <- AllReadable
  Event <- People
CHECK_DEADLOCK FALSE
SYMMETRY WorkerSymmetry
INVARIANT NoChasingAfterYes
INVARIANT SuppressedQueueEmpty
INVARIANT ReviewGate
INVARIANT QuotaHolds
