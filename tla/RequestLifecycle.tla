-------------------------- MODULE RequestLifecycle --------------------------
(***************************************************************************)
(* What an asynchronous client promises its user about the requests it is  *)
(* given: a request is issued once, may be cancelled while it is           *)
(* outstanding, and its callback is called exactly once, with an outcome   *)
(* that agrees with the cancellation.  close() returns only when no        *)
(* request is outstanding, and nothing happens after it.                   *)
(*                                                                         *)
(* AsyncTCPClient implements this specification.                           *)
(***************************************************************************)
EXTENDS Naturals

CONSTANT Sessions      \* the requests, one session each

VARIABLES status,      \* status[s]: where request s is in its life
          cancelled,   \* cancelled[s]: the user has asked to cancel s
          calls,       \* calls[s]: how often the callback of s has run
          closed       \* close() has returned

vars == <<status, cancelled, calls, closed>>

\* What a callback can be told: error code 0, an error, operation_aborted.
Outcomes == {"ok", "error", "aborted"}

Init ==
  /\ status = [s \in Sessions |-> "new"]
  /\ cancelled = [s \in Sessions |-> FALSE]
  /\ calls = [s \in Sessions |-> 0]
  /\ closed = FALSE

Issue(s) ==
  /\ ~closed
  /\ status[s] = "new"
  /\ status' = [status EXCEPT ![s] = "active"]
  /\ UNCHANGED <<cancelled, calls, closed>>

\* A request can be cancelled until its callback has run, never after.
Cancel(s) ==
  /\ status[s] = "active"
  /\ cancelled' = [cancelled EXCEPT ![s] = TRUE]
  /\ UNCHANGED <<status, calls, closed>>

(***************************************************************************)
(* The callback.  Success is never reported for a request the user has     *)
(* cancelled, and cancellation is never reported for one he has not.       *)
(***************************************************************************)
Finish(s, outcome) ==
  /\ status[s] = "active"
  /\ outcome = "ok" => ~cancelled[s]
  /\ outcome = "aborted" => cancelled[s]
  /\ status' = [status EXCEPT ![s] = outcome]
  /\ calls' = [calls EXCEPT ![s] = @ + 1]
  /\ UNCHANGED <<cancelled, closed>>

Close ==
  /\ ~closed
  /\ \A s \in Sessions : status[s] # "active"
  /\ closed' = TRUE
  /\ UNCHANGED <<status, cancelled, calls>>

Next ==
  \/ \E s \in Sessions :
       \/ Issue(s)
       \/ Cancel(s)
       \/ \E o \in Outcomes : Finish(s, o)
  \/ Close

Spec == Init /\ [][Next]_vars
=============================================================================
