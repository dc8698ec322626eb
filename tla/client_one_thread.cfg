\* A user who cancels a request once and does not reuse the id of an
\* outstanding one; one I/O thread, as in
\* ch03/03_Async_tcp_client.cpp.
CONSTANTS
  Threads = {t1}
  Sessions = {s1, s2}
  Ids = {i1, i2}
  None = None
  UI = UI
  MaxSome = 1
  CancelTwice = FALSE
  ReuseIds = FALSE
SPECIFICATION FairSpec
INVARIANTS NoLockCycle ActiveListed
PROPERTIES EarlyCancelTakesEffect EveryRequestAnswered CloseReturns
