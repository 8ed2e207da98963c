----------------------------- MODULE TripJournal -----------------------------
(***************************************************************************)
(* What the durable store of one trip promises to everything above it: a   *)
(* journal that only grows, one entry per version, each entry the result   *)
(* of one turn that was submitted at the end of the journal it extends and *)
(* that had not ended otherwise before.  TurnStore implements it.          *)
(***************************************************************************)
EXTENDS Naturals, Sequences

CONSTANT Turn

VARIABLES
  journal,   \* the turns whose results are the trip's versions, in order
  phase,     \* phase[t] \in {"new", "open", "ended"}
  base       \* base[t]: the version an open turn was submitted at

journalVars == <<journal, phase, base>>

Init ==
  /\ journal = << >>
  /\ phase = [t \in Turn |-> "new"]
  /\ base = [t \in Turn |-> 0]

(* A turn is submitted at the present end of the journal. *)
Submit(t) ==
  /\ phase[t] = "new"
  /\ phase' = [phase EXCEPT ![t] = "open"]
  /\ base' = [base EXCEPT ![t] = Len(journal)]
  /\ UNCHANGED journal

(* Its result becomes the next version, unless another turn's result did. *)
Publish(t) ==
  /\ phase[t] = "open"
  /\ base[t] = Len(journal)
  /\ journal' = Append(journal, t)
  /\ phase' = [phase EXCEPT ![t] = "ended"]
  /\ UNCHANGED base

(* Or it ends and never has a result. *)
Withdraw(t) ==
  /\ phase[t] = "open"
  /\ phase' = [phase EXCEPT ![t] = "ended"]
  /\ UNCHANGED <<journal, base>>

Next == \E t \in Turn : Submit(t) \/ Publish(t) \/ Withdraw(t)

Spec == Init /\ [][Next]_journalVars
==============================================================================
