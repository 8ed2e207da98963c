---------------------------- MODULE MCSocketStream ----------------------------
(* SocketStream for TLC: two commands, the first a trip setup, and two frames *)
(* a waiter, so that a feedback task's frame stands beside its command's own. *)
EXTENDS SocketStream, TLC
==============================================================================
