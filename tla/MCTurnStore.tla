---------------------------- MODULE MCTurnStore ----------------------------
(* TurnStore for TLC: one command, one sent again under the same key with   *)
(* other content, one that reuses its request id, one that reuses its       *)
(* message id; and commands that have nothing in common.                    *)
EXTENDS TurnStore, TLC

CONSTANT Name  \* of an unrelated command: all its fields

MCCmd(request, key, print, message) ==
  [request |-> request, key |-> key, print |-> print, message |-> message]

MCFirst == MCCmd("r1", "k1", "p1", "m1")
MCOtherPrint == MCCmd("r2", "k1", "p2", "m2")
MCOtherKey == MCCmd("r1", "k3", "p3", "m3")
MCSameMessage == MCCmd("r4", "k4", "p4", "m1")

MCAdmission == {MCFirst, MCOtherPrint, MCOtherKey, MCSameMessage}
(* Commands that have nothing in common. *)
MCThree == {MCCmd(x, x, x, x) : x \in Name}

MCHistorySymmetry ==
  Permutations(Turn) \cup Permutations(Name) \cup Permutations(Interaction)
    \cup Permutations(Plan) \cup Permutations(Generation)

MCSymmetry == Permutations(Turn) \cup Permutations(Caller)
                \cup Permutations(Interaction) \cup Permutations(Plan)
                \cup Permutations(Generation)
============================================================================
