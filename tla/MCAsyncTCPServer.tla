-------------------------- MODULE MCAsyncTCPServer --------------------------
(* AsyncTCPServer on small sets, for TLC: the sets are in the cfg files. *)
EXTENDS AsyncTCPServer

CONSTANT Third    \* a client that comes to a pool of two threads

\* A bound: while the third client is there the server is not stopped, and it
\* comes only if no accept operation has failed, and none fails afterwards.
ThirdBound ==
  /\ client'[Third] \notin {"away", "closed"} => ~m_isStopped'
  /\ client'[Third] # "away" => acceptErrors' = 0

BoundedSpec == Init /\ [][Next /\ ThirdBound]_vars /\ Fairness
=============================================================================
