---------------------------- MODULE MCPrepareTurn ----------------------------
(* PrepareTurn for TLC. *)
EXTENDS PrepareTurn, TLC

MCSymmetry == Permutations(Turn) \cup Permutations(Process) \cup Permutations(Cancel)
==============================================================================
