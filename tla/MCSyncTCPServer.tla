--------------------------- MODULE MCSyncTCPServer ---------------------------
(* SyncTCPServer on small sets, for TLC: the sets are in the cfg files. *)
EXTENDS SyncTCPServer
=============================================================================
