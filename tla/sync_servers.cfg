\* Both servers, three connections.
CONSTANTS
  Conns = {c1, c2, c3}
  None = None
  Kinds = {"iterative", "parallel"}
SPECIFICATION FairSpec
INVARIANTS TypeOK Serial StopTakesEffect SocketOwned
PROPERTIES ServiceContract ClientServed StopReturnsAfterClient
