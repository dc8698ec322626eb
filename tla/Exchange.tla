------------------------------- MODULE Exchange -------------------------------
(***************************************************************************)
(* What the two programs of ch02/11 and ch02/12 promise each other: one    *)
(* request and one response, each of which is taken when it is whole.  An  *)
(* end can take a message that has been cut short only if there has been a *)
(* fault: a program was killed, or it is not the one the other thinks.     *)
(***************************************************************************)
VARIABLES
  request, response,   \* "none", "part" or "whole"; then "taken" or "cut"
  faulty

Init == request = "none" /\ response = "none" /\ faulty = FALSE

Unfinished == {"none", "part"}
Received == {"taken", "cut"}

SendRequest ==
  /\ request \in Unfinished /\ request' \in {"part", "whole"}
  /\ UNCHANGED <<response, faulty>>

TakeRequest ==
  /\ \/ request = "whole" /\ request' = "taken"
     \/ request \in Unfinished /\ faulty /\ request' = "cut"
  /\ UNCHANGED <<response, faulty>>

SendResponse ==
  /\ request \in Received
  /\ response \in Unfinished /\ response' \in {"part", "whole"}
  /\ UNCHANGED <<request, faulty>>

TakeResponse ==
  /\ \/ response = "whole" /\ response' = "taken"
     \/ response \in Unfinished /\ faulty /\ response' = "cut"
  /\ UNCHANGED <<request, faulty>>

Fault == faulty' = TRUE /\ UNCHANGED <<request, response>>

Next == SendRequest \/ TakeRequest \/ SendResponse \/ TakeResponse \/ Fault

Spec == Init /\ [][Next]_<<request, response, faulty>>
=============================================================================
