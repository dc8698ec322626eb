\* The two talkers with each of the other programs in turn; messages that do
\* not fit in the buffers.
CONSTANTS
  Casts = {{"responder", "requester", "canceller"}, {"responder", "requester", "acceptor"}, {"responder", "requester", "connector"}, {"binder", "acceptor", "resolver", "canceller"}}
  RequestSize = 3
  ResponseSize = 2
  Capacity = 2
SPECIFICATION FairSpec
INVARIANTS TypeOK CallbackTruthful
PROPERTIES ExchangeKept NobodyHangs RequesterAnswered
