\* One pool thread and one connection are enough for the leak.
CONSTANTS
  Threads = {t1}
  Conns = {c1}
  Third = c1
  None = None
  MaxErrors = 0
SPECIFICATION Spec
INVARIANTS SocketsReturned
