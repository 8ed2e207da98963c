--------------------------- MODULE StableDelivery ---------------------------
(***************************************************************************)
(* What the delivery of one committed answer promises: its frames reach    *)
(* some connection in order and without a gap, any of them perhaps more    *)
(* than once, and the durable cursor follows one frame at a time and never *)
(* ahead of what was sent.  OutboxDelivery implements it.                  *)
(***************************************************************************)
EXTENDS Naturals

CONSTANT Terminal   \* sequence of the last frame, assistant.completed

VARIABLES
  wire,    \* the frames sent to some connection so far
  cursor   \* the last frame known to be sent

deliveryVars == <<wire, cursor>>

Init == wire = {} /\ cursor = 0

(* A frame goes out when everything before it has; again, if need be. *)
Send(s) ==
  /\ 1..(s - 1) \subseteq wire
  /\ wire' = wire \cup {s}
  /\ UNCHANGED cursor

Acknowledge ==
  /\ cursor + 1 \in wire
  /\ cursor' = cursor + 1
  /\ UNCHANGED wire

Next == Acknowledge \/ \E s \in 1..Terminal : Send(s)

Spec == Init /\ [][Next]_deliveryVars
=============================================================================
