-------------------------- MODULE MCAsyncTCPClient --------------------------
(* AsyncTCPClient on small sets, for TLC. *)
EXTENDS AsyncTCPClient, TLC

\* Threads are, and sessions are, interchangeable (safety only).
Symmetry == Permutations(Threads) \cup Permutations(Sessions)
=============================================================================
