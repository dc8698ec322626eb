\* Stop() of a server to which no client comes any more.
CONSTANTS
  Conns = {c1}
  None = None
  Kinds = {"iterative", "parallel"}
SPECIFICATION FairSpec
PROPERTIES StopReturns
