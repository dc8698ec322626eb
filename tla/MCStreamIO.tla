------------------------------ MODULE MCStreamIO ------------------------------
(* StreamIO on a short message, for TLC: the numbers are in the cfg files. *)
EXTENDS StreamIO
=============================================================================
