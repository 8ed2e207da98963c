--------------------------- MODULE MCProviderRuntime ---------------------------
(* ProviderRuntime for TLC. *)
EXTENDS ProviderRuntime, TLC

MCSymmetry == Permutations(Call)
==============================================================================
