SPECIFICATION Spec
CONSTANTS
  w1 = w1
  w2 = w2
  a = a
  NoOne = NoOne
  Worker <- OneWorker
  Contact <- OneContact
  LastStep = 2
  MaxSendAttempts = 2
  DailyCap = 2
  Review = TRUE
  Unreadable <- AllReadable
  Event <- Reviewing
CHECK_DEADLOCK FALSE
INVARIANT QueuedApprovalsAreCurrent
