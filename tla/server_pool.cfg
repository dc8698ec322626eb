\* Two pool threads and three connections, one failure to accept.
CONSTANTS
  Threads = {t1, t2}
  Conns = {c1, c2, c3}
  Third = c3
  None = None
  MaxErrors = 1
SPECIFICATION BoundedSpec
INVARIANTS TypeOK ServiceAlive AcceptChain SocketOwned
PROPERTIES ServiceContract ClientServed StopReturns
