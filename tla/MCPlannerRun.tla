---------------------------- MODULE MCPlannerRun ----------------------------
(* PlannerRun for TLC. *)
EXTENDS PlannerRun, TLC

MCSteps == {2}
MCSymmetry == Permutations(Exec)
=============================================================================
