SPECIFICATION Spec
CONSTANTS
  w1 = w1
  w2 = w2
  a = a
  NoOne = NoOne
  Worker <- TwoWorkers
  Contact <- OneContact
  LastStep = 3
  MaxSendAttempts = 2
  DailyCap = 3
  Review = TRUE
  Unreadable <- LastBroken
  Event <- Reviewing
CHECK_DEADLOCK FALSE
SYMMETRY WorkerSymmetry
INVARIANT BudgetHolds
INVARIANT QueuedIsClaimable
INVARIANT SequenceInOrder
PROPERTY StoppedSequenceDoesNotGrow
PROPERTY TerminalStays
