------------------------- MODULE ProviderRuntimeProofs -------------------------
(***************************************************************************)
(* Proofs about ProviderRuntime, for any number of calls and any policy.   *)
(* The invariants are inductive once it is known that a pausing call has   *)
(* an attempt left.                                                        *)
(***************************************************************************)
EXTENDS ProviderRuntime, TLAPS

PausesHaveAttempt == \A c \in Call : call[c].pc = "pausing" => call[c].attempt < RetryCount

IInv == TypeOK /\ PausesHaveAttempt /\ ClosedBelowThreshold /\ FlagHasOwner

LEMMA InvInit == Init => IInv
<1> SUFFICES ASSUME Init PROVE IInv
  OBVIOUS
<1> USE PolicyIsValid
<1>1. TypeOK
  <2>1. [pc |-> "idle", attempt |-> 0, probe |-> FALSE] \in CallState
    BY DEF CallState
  <2> QED BY <2>1 DEF Init, TypeOK
<1>2. PausesHaveAttempt
  BY DEF Init, PausesHaveAttempt
<1>3. ClosedBelowThreshold /\ FlagHasOwner
  BY DEF Init, ClosedBelowThreshold, FlagHasOwner
<1> QED BY <1>1, <1>2, <1>3 DEF IInv

(* What a step of call c does to the calls: c moves, the others stay. *)
LEMMA CallMoves ==
  ASSUME TypeOK, PausesHaveAttempt, NEW c \in Call,
         \/ Enter(c) \/ Refuse(c) \/ Acquire(c) \/ Proceed(c) \/ Escape(c)
  PROVE  /\ call' \in [Call -> CallState]
         /\ \A d \in Call \ {c} : call'[d] = call[d]
         /\ call'[c].pc = "pausing" => call'[c].attempt < RetryCount
<1> USE PolicyIsValid DEF TypeOK, CallState, InFlight, Goto, At
<1>1. CASE Enter(c)
  BY <1>1 DEF Enter
<1>2. CASE Refuse(c) \/ Acquire(c) \/ Escape(c) \/ Succeed(c) \/ FailCircuit(c) \/ FailOther(c)
  BY <1>2 DEF Refuse, Acquire, Escape, Succeed, FailCircuit, FailOther
<1>3. CASE Pause(c)
  BY <1>3 DEF Pause, MayRetry
<1>4. CASE TryAgain(c)
  BY <1>4 DEF TryAgain, NextAttempt, PausesHaveAttempt
<1> QED BY <1>1, <1>2, <1>3, <1>4 DEF Proceed

(* What it does to the breaker. *)
LEMMA BreakerMoves ==
  ASSUME TypeOK, ClosedBelowThreshold, NEW c \in Call,
         \/ Enter(c) \/ Refuse(c) \/ Acquire(c) \/ Proceed(c) \/ Escape(c)
  PROVE  /\ failures' \in Nat /\ circuit' \in {"closed", "open", "due"} /\ probing' \in BOOLEAN
         /\ circuit' = "closed" => failures' < Threshold
<1> USE PolicyIsValid DEF TypeOK, ClosedBelowThreshold
<1>1. ASSUME UNCHANGED <<failures, circuit>>, probing' \in BOOLEAN
      PROVE  /\ failures' \in Nat /\ circuit' \in {"closed", "open", "due"}
             /\ probing' \in BOOLEAN /\ (circuit' = "closed" => failures' < Threshold)
  BY <1>1
<1>2. CASE Enter(c) \/ Refuse(c) \/ Acquire(c) \/ Escape(c) \/ Pause(c) \/ TryAgain(c)
  <2>1. UNCHANGED <<failures, circuit>>
    BY <1>2 DEF Enter, Refuse, Acquire, Escape, Pause, TryAgain
  <2>2. probing' = probing \/ probing' = TRUE
    BY <1>2 DEF Enter, Refuse, Acquire, Escape, Pause, TryAgain
  <2> QED BY <1>1, <2>1, <2>2
<1>3. CASE Succeed(c)
  <2>1. failures' = 0 /\ circuit' = "closed" /\ probing' = FALSE
    BY <1>3 DEF Succeed, RecordSuccess, CountAfterSuccess
  <2>2. 0 < Threshold
    BY PolicyIsValid
  <2> QED BY <2>1, <2>2
<1>4. CASE FailCircuit(c)
  <2>1. /\ probing' = FALSE
        /\ failures' = failures + 1
        /\ circuit' = "open" \/ (circuit' = circuit /\ ~(failures + 1 >= Threshold))
    BY <1>4 DEF FailCircuit, RecordFailure
  <2>2. failures + 1 \in Nat /\ (~(failures + 1 >= Threshold) => failures + 1 < Threshold)
    OBVIOUS
  <2> QED BY <2>1, <2>2
<1>5. CASE FailOther(c)
  BY <1>1, <1>5 DEF FailOther, ReleaseProbe, ProbeAfterRefusal
<1> QED BY <1>2, <1>3, <1>4, <1>5 DEF Proceed

(* A set flag keeps its owner, or gets a new one. *)
LEMMA OwnerStays ==
  ASSUME TypeOK, PausesHaveAttempt, FlagHasOwner, NEW c \in Call,
         \/ Enter(c) \/ Refuse(c) \/ Acquire(c) \/ Proceed(c) \/ Escape(c)
  PROVE  FlagHasOwner'
<1>1. CASE probing' = FALSE
  BY <1>1 DEF FlagHasOwner
<1>2. CASE Succeed(c) \/ FailCircuit(c) \/ FailOther(c)
  BY <1>1, <1>2 DEF Succeed, FailCircuit, FailOther, RecordSuccess, RecordFailure,
                    ReleaseProbe, ProbeAfterRefusal
<1>3. CASE Enter(c)
  <2>1. call'[c].pc = "queued" /\ call'[c].probe = (circuit # "closed") /\ call[c].pc = "idle"
    BY <1>3 DEF Enter, At, TypeOK, CallState
  <2>2. CASE circuit # "closed"
    BY <2>1, <2>2 DEF FlagHasOwner, InFlight
  <2>3. CASE circuit = "closed" /\ probing
    <3>1. PICK d \in Call : call[d].probe /\ call[d].pc \in InFlight \cup {"gone"}
      BY <2>3 DEF FlagHasOwner
    <3>2. call'[d] = call[d]
      BY <3>1, <2>1, <1>3, CallMoves DEF InFlight
    <3> QED BY <3>1, <3>2 DEF FlagHasOwner
  <2>4. CASE circuit = "closed" /\ ~probing
    BY <1>1, <1>3, <2>4 DEF Enter, TypeOK
  <2> QED BY <2>2, <2>3, <2>4 DEF TypeOK
<1>4. CASE Refuse(c) \/ Acquire(c) \/ Escape(c) \/ Pause(c) \/ TryAgain(c)
  <2>1. probing' = probing
    BY <1>4 DEF Refuse, Acquire, Escape, Pause, TryAgain
  <2>2. CASE probing
    <3>1. PICK d \in Call : call[d].probe /\ call[d].pc \in InFlight \cup {"gone"}
      BY <2>2 DEF FlagHasOwner
    <3>2. CASE d # c
      BY <3>1, <3>2, <1>4, CallMoves DEF FlagHasOwner, Proceed
    <3>3. CASE d = c
      <4>1. call'[d].probe = call[d].probe
        BY <3>3, <1>4 DEF Refuse, Acquire, Escape, Pause, TryAgain, Goto, TypeOK, CallState
      <4>2. call'[d].pc \in InFlight \cup {"gone"}
        BY <3>1, <3>3, <1>4 DEF Refuse, Acquire, Escape, Pause, TryAgain, Goto, At, InFlight,
                               TypeOK, CallState
      <4> QED BY <3>1, <4>1, <4>2 DEF FlagHasOwner
    <3> QED BY <3>2, <3>3
  <2> QED BY <1>1, <2>1, <2>2 DEF TypeOK
<1> QED BY <1>2, <1>3, <1>4 DEF Proceed

LEMMA InvStep == IInv /\ [Next]_vars => IInv'
<1> SUFFICES ASSUME IInv, [Next]_vars PROVE IInv'
  OBVIOUS
<1>1. ASSUME NEW c \in Call,
             \/ Enter(c) \/ Refuse(c) \/ Acquire(c) \/ Proceed(c) \/ Escape(c)
      PROVE  IInv'
  <2>1. TypeOK'
    BY <1>1, CallMoves, BreakerMoves DEF IInv, TypeOK
  <2>2. PausesHaveAttempt'
    BY <1>1, CallMoves DEF IInv, PausesHaveAttempt
  <2>3. ClosedBelowThreshold'
    BY <1>1, BreakerMoves DEF IInv, ClosedBelowThreshold
  <2>4. FlagHasOwner'
    BY <1>1, OwnerStays DEF IInv
  <2> QED BY <2>1, <2>2, <2>3, <2>4 DEF IInv
<1>2. CASE Recover \/ UNCHANGED vars
  BY <1>2 DEF Recover, vars, IInv, TypeOK, PausesHaveAttempt, ClosedBelowThreshold, FlagHasOwner
<1> QED BY <1>1, <1>2 DEF Next

LEMMA Inductive == Spec => []IInv
BY InvInit, InvStep, PTL DEF Spec

(* The circuit is never closed with a threshold of consecutive failures,     *)
(* however many calls overlap and whatever policy they have.                 *)
THEOREM OpensInTime == Spec => []ClosedBelowThreshold
BY Inductive, PTL DEF IInv

(* A set probe flag belongs to a probe in flight, or to one that left        *)
(* without recording an outcome: no other interleaving leaves it set.        *)
THEOREM ProbeFlagIsOwned == Spec => []FlagHasOwner
BY Inductive, PTL DEF IInv

(* Every variable keeps its type.                                            *)
THEOREM TypeCorrect == Spec => []TypeOK
BY Inductive, PTL DEF IInv
==============================================================================
