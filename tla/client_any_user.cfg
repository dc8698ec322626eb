\* A user who may cancel twice and reuse ids.
CONSTANTS
  Threads = {t1, t2}
  Sessions = {s1, s2}
  Ids = {i1, i2}
  None = None
  UI = UI
  MaxSome = 1
  CancelTwice = TRUE
  ReuseIds = TRUE
SPECIFICATION Spec
SYMMETRY Symmetry
INVARIANTS TypeOK CancelFlagRaceFree SoleDriver OutcomeMatchesCancel CloseDrains
PROPERTIES RequestContract
\* A second cancel can deadlock the client (see client_deadlock.cfg).
CHECK_DEADLOCK FALSE
