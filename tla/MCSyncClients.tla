---------------------------- MODULE MCSyncClients ----------------------------
(* SyncClients with a few calls, for TLC: the numbers are in the cfg file. *)
EXTENDS SyncClients
=============================================================================
