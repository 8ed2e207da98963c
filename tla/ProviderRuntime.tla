---------------------------- MODULE ProviderRuntime ----------------------------
(***************************************************************************)
(* The stability budget of one travel provider: ProviderRuntime in         *)
(* backend/providers/resilience.py - a circuit breaker with a single       *)
(* probe, a semaphore and one retry - as its concurrent calls share it.    *)
(*                                                                         *)
(* Nothing is awaited under _circuit_lock, nor between the end of a call's *)
(* last attempt and what is recorded of it, so each is one step.  The      *)
(* clock is abstracted: an open circuit is due once _open_until is past.   *)
(* Caches (whose failures are swallowed) are left out; a cached call never *)
(* gets here.  The rate limiter's waits are part of an attempt.            *)
(***************************************************************************)
EXTENDS Naturals, FiniteSets

CONSTANTS
  Call,             \* calls of execute
  MaxConcurrency,   \* max_concurrency of the policy
  RetryCount,       \* retry_count
  Threshold         \* circuit_failure_threshold

ASSUME PolicyIsValid ==
  /\ MaxConcurrency \in Nat \ {0} /\ Threshold \in Nat \ {0}
  /\ RetryCount \in {0, 1}

VARIABLES
  failures,   \* _consecutive_failures
  circuit,    \* _open_until: None, in the future, or past
  probing,    \* _probe_in_flight
  call        \* call[c]: where it is, its attempt, is_probe

vars == <<failures, circuit, probing, call>>

InFlight == {"queued", "running", "pausing"}

(* gone: the call was cancelled, or raised what is no ProviderError. *)
CallState == [pc : {"idle", "ended", "gone"} \cup InFlight,
              attempt : 0..RetryCount, probe : BOOLEAN]

(* The breaker's and the calls' fields hold what they can. *)
TypeOK ==
  /\ failures \in Nat
  /\ circuit \in {"closed", "open", "due"}
  /\ probing \in BOOLEAN
  /\ call \in [Call -> CallState]

Init ==
  /\ failures = 0 /\ circuit = "closed" /\ probing = FALSE
  /\ call = [c \in Call |-> [pc |-> "idle", attempt |-> 0, probe |-> FALSE]]

At(c, pc) == call[c].pc = pc
Goto(c, pc) == call' = [call EXCEPT ![c].pc = pc]

-----------------------------------------------------------------------------
(* The breaker *)

(* _begin_call lets the call in: as a probe, if the circuit is due. *)
Enter(c) ==
  /\ At(c, "idle")
  /\ \/ circuit = "closed" /\ UNCHANGED probing
     \/ circuit = "due" /\ ~probing /\ probing' = TRUE
  /\ call' = [call EXCEPT ![c].pc = "queued", ![c].probe = circuit # "closed"]
  /\ UNCHANGED <<failures, circuit>>

(* ... or raises UNAVAILABLE. *)
Refuse(c) ==
  /\ At(c, "idle")
  /\ circuit = "open" \/ (circuit = "due" /\ probing)
  /\ Goto(c, "ended")
  /\ UNCHANGED <<failures, circuit, probing>>

Recover == circuit = "open" /\ circuit' = "due" /\ UNCHANGED <<failures, probing, call>>

CountAfterSuccess_Kept == failures

CountAfterSuccess == 0

RecordSuccess ==
  /\ failures' = CountAfterSuccess /\ circuit' = "closed" /\ probing' = FALSE

(* A call that began before the circuit opened releases it for the probe. *)
RecordFailure(c) ==
  /\ probing' = FALSE
  /\ failures' = failures + 1
  /\ circuit' = IF call[c].probe \/ failures + 1 >= Threshold THEN "open" ELSE circuit

ProbeAfterRefusal_Kept == probing

ProbeAfterRefusal == FALSE

ReleaseProbe ==
  /\ probing' = ProbeAfterRefusal
  /\ UNCHANGED <<failures, circuit>>

-----------------------------------------------------------------------------
(* A call *)

Holding == {c \in Call : call[c].pc \in {"running", "pausing"}}

Acquire(c) ==
  /\ At(c, "queued")
  /\ Cardinality(Holding) < MaxConcurrency
  /\ Goto(c, "running")
  /\ UNCHANGED <<failures, circuit, probing>>

Succeed(c) == At(c, "running") /\ RecordSuccess /\ Goto(c, "ended")

MayRetry_Always(c) == call[c].attempt <= RetryCount

MayRetry(c) == call[c].attempt < RetryCount

(* A retryable error: the retry delay, and the next attempt. *)
Pause(c) ==
  /\ At(c, "running") /\ MayRetry(c)
  /\ Goto(c, "pausing")
  /\ UNCHANGED <<failures, circuit, probing>>

NextAttempt_Same(c) == call[c].attempt

NextAttempt(c) == call[c].attempt + 1

TryAgain(c) ==
  /\ At(c, "pausing")
  /\ call' = [call EXCEPT ![c].pc = "running", ![c].attempt = NextAttempt(c)]
  /\ UNCHANGED <<failures, circuit, probing>>

(* The last attempt timed out, or failed with one of the circuit's codes. *)
FailCircuit(c) == At(c, "running") /\ RecordFailure(c) /\ Goto(c, "ended")

(* It was rate limited, or refused for a reason that is not the service's. *)
FailOther(c) == At(c, "running") /\ ReleaseProbe /\ Goto(c, "ended")

(* Cancelled; or the rate limiter or the call raised another exception. *)
Escape(c) ==
  /\ call[c].pc \in InFlight
  /\ Goto(c, "gone")
  /\ UNCHANGED <<failures, circuit, probing>>

Proceed(c) == Succeed(c) \/ Pause(c) \/ TryAgain(c) \/ FailCircuit(c) \/ FailOther(c)

Next ==
  \/ \E c \in Call : Enter(c) \/ Refuse(c) \/ Acquire(c) \/ Proceed(c) \/ Escape(c)
  \/ Recover

Spec == Init /\ [][Next]_vars

(* Attempts are bounded by their timeout, and the semaphore is first come,  *)
(* first served.                                                            *)
FairSpec ==
  /\ Spec
  /\ \A c \in Call : WF_vars(Proceed(c)) /\ SF_vars(Acquire(c))

-----------------------------------------------------------------------------
(* Properties *)

(* Whatever calls overlap, whenever they began: the circuit is never closed  *)
(* with a threshold of failures since the last success.  The converse does   *)
(* not hold: a probe that fails after an older call's success has closed the *)
(* circuit opens it again, with one failure counted.                         *)
ClosedBelowThreshold == circuit = "closed" => failures < Threshold

(* The probe flag, which keeps every other call out, has an owner: a probe   *)
(* in flight - or one that left without recording anything, the only way to  *)
(* keep a due circuit shut with nothing under way.                           *)
FlagHasOwner ==
  probing => \E c \in Call : call[c].probe /\ call[c].pc \in InFlight \cup {"gone"}

(* A call that was let in ends: the permits of the semaphore come back, and  *)
(* a retry is made once.                                                     *)
CallsEnd == \A c \in Call : call[c].pc \in InFlight ~> call[c].pc \in {"ended", "gone"}
==============================================================================
