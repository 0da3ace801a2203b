SPECIFICATION Spec
CONSTANTS
  None = None
  NoOne = NoOne
  w1 = w1
  w2 = w2
  a = a
  a1 = a1
  b1 = b1
  b2 = b2
  c1 = c1
  r1 = r1
  p1 = p1
  k1 = k1
  k2 = k2
CHECK_DEADLOCK FALSE
PROPERTY EveryRowResolved
PROPERTY EveryRunEnds
PROPERTY CalendarMirrored
PROPERTY InboxHandled
 
PROPERTY TroubleAnswered
PROPERTY SavedKeyServes
