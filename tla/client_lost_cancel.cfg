\* A user who cancels once.
CONSTANTS
  Threads = {t1, t2}
  Sessions = {s1}
  Ids = {i1}
  None = None
  UI = UI
  MaxSome = 1
  CancelTwice = FALSE
  ReuseIds = FALSE
SPECIFICATION FairSpec
PROPERTIES CancelTakesEffect
