-------------------------- MODULE MCOutboxDelivery --------------------------
(* OutboxDelivery for TLC: a bundle with one text chunk (four frames) and   *)
(* calls that may overlap through lapsed leases.                            *)
EXTENDS OutboxDelivery, TLC

MCSymmetry == Permutations(Dispatcher)
============================================================================
