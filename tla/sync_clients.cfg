\* Both clients; three calls, so that an answer can be late by two.
CONSTANTS
  Kinds = {"tcp", "udp"}
  MaxCalls = 3
SPECIFICATION FairSpec
INVARIANTS TypeOK OwnAnswer ErrorsReported
PROPERTIES CallsEnd
\* The UDP client waits for ever when a datagram has been lost.
CHECK_DEADLOCK FALSE
