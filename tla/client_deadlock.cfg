\* A user who cancels twice.
CONSTANTS
  Threads = {t1, t2}
  Sessions = {s1}
  Ids = {i1}
  None = None
  UI = UI
  MaxSome = 1
  CancelTwice = TRUE
  ReuseIds = FALSE
SPECIFICATION FairSpec
PROPERTIES CancelReturns
CHECK_DEADLOCK FALSE
