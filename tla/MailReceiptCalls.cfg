SPECIFICATION MCSpec
CONSTANTS
  c1 = c1
  c2 = c2
  c3 = c3
  i1 = i1
  i2 = i2
  None = None
  Caller <- TwoCallers
  Input <- TwoInputs
  MaxDraft = 3
  Serial = TRUE
CHECK_DEADLOCK FALSE
INVARIANT TypeOK
INVARIANT AtMostOneDelivery
INVARIANT ReportedWasSent
INVARIANT DeliveredAsBound
PROPERTY ImplementsAtMostOnce
 
PROPERTY NeverResubmittedWithoutReset
