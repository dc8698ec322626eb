----------------------------- MODULE TCPService -----------------------------
(***************************************************************************)
(* What the servers of chapter 4 promise each client: its connection is    *)
(* accepted once, a response is sent at most once and only to a request    *)
(* that has been received, and the connection is closed once and never     *)
(* used after that.  A connection may be closed early, on an error.        *)
(*                                                                         *)
(* AsyncTCPServer and SyncTCPServer implement this specification.          *)
(***************************************************************************)

CONSTANT Conns     \* the connections clients make, one socket each

VARIABLE phase     \* phase[c]: where the connection is in its life

\* "waiting" in the backlog, "open" once accepted, "processed" when the
\* response is prepared, "answered" when it has been sent.
Init == phase = [c \in Conns |-> "away"]

Move(c, from, to) ==
  /\ phase[c] = from
  /\ phase' = [phase EXCEPT ![c] = to]

Arrive(c) == Move(c, "away", "waiting")
Accept(c) == Move(c, "waiting", "open")
Process(c) == Move(c, "open", "processed")
Respond(c) == Move(c, "processed", "answered")
Close(c) ==
  \E from \in {"open", "processed", "answered"} : Move(c, from, "closed")

Next ==
  \E c \in Conns :
    Arrive(c) \/ Accept(c) \/ Process(c) \/ Respond(c) \/ Close(c)

Spec == Init /\ [][Next]_phase
=============================================================================
