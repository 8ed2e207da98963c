---------------------------- MODULE MCReactLoop ----------------------------
(* ReactLoop for TLC. *)
EXTENDS ReactLoop, TLC
=============================================================================
