-------------------------- MODULE MCSocketShutdown --------------------------
(* SocketShutdown with small messages, for TLC: numbers and programs are in *)
(* the cfg file.                                                            *)
EXTENDS SocketShutdown
=============================================================================
