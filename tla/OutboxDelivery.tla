---------------------------- MODULE OutboxDelivery ----------------------------
(***************************************************************************)
(* Delivery of ONE committed outbox bundle: the row, and the calls of      *)
(* dispatch_committed (backend/application/prepare_journey_service.py)     *)
(* that claim it, send its frames and acknowledge them                     *)
(* (backend/persistence/outbox_repository.py).                             *)
(*                                                                         *)
(* A dispatcher is two tasks in one TaskGroup.  The sender emits frame     *)
(* after frame and puts each on a bounded queue; the persister takes them  *)
(* off and moves the row's cursor with one compare-and-swap per frame.     *)
(* Either may fail, the whole call may be cancelled between any two steps, *)
(* the process may die, and the lease may lapse while the dispatcher still *)
(* sends, so another dispatcher may work on the same bundle.  A replay     *)
(* sends all the frames again and never touches the row.                   *)
(*                                                                         *)
(* Every repository method is one transaction on the row, so one action.   *)
(* Clocks are abstracted to row.ready: next_attempt_at of a pending row,   *)
(* or lease_expires_at of a leased one, is past.                           *)
(***************************************************************************)
EXTENDS Integers, FiniteSets

CONSTANTS
  Dispatcher,   \* calls of dispatch_committed; each has a fresh worker_id
  NoOne,        \* leased_by IS NULL
  Terminal,     \* sequence of assistant.completed, the last frame
  Window,       \* maxsize of the acknowledgement queue
  MaxAttempts   \* max_attempts of mark_retry

ASSUME BoundsType ==
  Terminal \in Nat \ {0} /\ Window \in Nat \ {0} /\ MaxAttempts \in Nat \ {0}
ASSUME NoOneType == NoOne \notin Dispatcher

VARIABLES
  row,    \* outbox_events: status, holder, cursor, retries, ready
  task    \* task[d]: where call d is, and how far its two tasks have come

vars == <<row, task>>

-----------------------------------------------------------------------------

(* start: the cursor the call began after; sent: last frame emitted;        *)
(* put, taken: last frame put on and taken off the queue; acked: last frame *)
(* persisted; refused: emit returned False.                                 *)
Task == [pc : {"idle", "sending", "draining", "retrying", "aborting", "replaying", "done"},
         start : 0..Terminal, sent : 0..Terminal, put : 0..Terminal,
         taken : 0..Terminal, acked : 0..Terminal, refused : BOOLEAN]

(* The row and the tasks hold values their columns and counters admit. *)
TypeOK ==
  /\ row \in [status : {"pending", "leased", "delivered", "dead"},
              holder : Dispatcher \cup {NoOne}, cursor : 0..Terminal,
              retries : 0..MaxAttempts, ready : BOOLEAN]
  /\ task \in [Dispatcher -> Task]

(* The task of a call that begins after frame c. *)
Begin(pc, c) == [pc |-> pc, start |-> c, sent |-> c, put |-> c, taken |-> c,
                 acked |-> c, refused |-> FALSE]

(* The row commit_turn_result inserts: due at once. *)
Init ==
  /\ row = [status |-> "pending", holder |-> NoOne, cursor |-> 0,
            retries |-> 0, ready |-> TRUE]
  /\ task = [d \in Dispatcher |-> Begin("idle", 0)]

Goto(d, pc) == task' = [task EXCEPT ![d].pc = pc]

-----------------------------------------------------------------------------
(* The row *)

Holds_AnyWorker(d) == row.status # "pending"

(* The guard of every settling statement: leased, by this worker. *)
Holds(d) == row.status = "leased" /\ row.holder = d

Resume_SkipsOne == IF row.cursor < Terminal - 1 THEN row.cursor + 1 ELSE row.cursor

(* pending_delivery_frames: the frames after the durable cursor. *)
Resume == row.cursor

Claimable == row.status \in {"pending", "leased"} /\ row.ready

(* claim_by_cursor *)
Claim(d) ==
  /\ task[d].pc = "idle"
  /\ Claimable
  /\ row' = [row EXCEPT !.status = "leased", !.holder = d, !.ready = FALSE]
  /\ task' = [task EXCEPT ![d] = Begin("sending", Resume)]

(* committed_outbox_unavailable: the row is not due, or skip_locked passes it *)
(* over because another transaction, which may yet roll back, holds it.       *)
ClaimNothing(d) ==
  /\ task[d].pc = "idle"
  /\ Goto(d, "done")
  /\ UNCHANGED row

Acknowledged_KeepsLease(s) == [row EXCEPT !.cursor = s]

Acknowledged(s) ==
  IF s = Terminal
  THEN [row EXCEPT !.cursor = s, !.status = "delivered", !.holder = NoOne]
  ELSE [row EXCEPT !.cursor = s]

GiveBack_Rewinds(ready) ==
  [row EXCEPT !.retries = row.retries + 1, !.cursor = 0,
              !.status = IF row.retries + 1 >= MaxAttempts THEN "dead" ELSE "pending",
              !.holder = NoOne, !.ready = ready]

(* mark_retry *)
GiveBack(ready) ==
  [row EXCEPT !.retries = row.retries + 1,
              !.status = IF row.retries + 1 >= MaxAttempts THEN "dead" ELSE "pending",
              !.holder = NoOne, !.ready = ready]

(* next_attempt_at, or the lease's end, passes. *)
TimePasses ==
  /\ row.status \in {"pending", "leased"}
  /\ ~row.ready
  /\ row' = [row EXCEPT !.ready = TRUE]
  /\ UNCHANGED task

-----------------------------------------------------------------------------
(* The sender *)

(* emit returned True. *)
Send(d) ==
  /\ task[d].pc = "sending"
  /\ task[d].sent = task[d].put /\ task[d].sent < Terminal
  /\ task' = [task EXCEPT ![d].sent = @ + 1]
  /\ UNCHANGED row

(* emit returned False: leave the loop. *)
SendRefused(d) ==
  /\ task[d].pc = "sending"
  /\ task[d].sent = task[d].put /\ task[d].sent < Terminal
  /\ task' = [task EXCEPT ![d].pc = "draining", ![d].refused = TRUE]
  /\ UNCHANGED row

MayPut_AheadOfSend(d) ==
  /\ task[d].put <= task[d].sent /\ task[d].put < Terminal
  /\ task[d].put - task[d].taken < Window

MayPut_OneTooMany(d) ==
  /\ task[d].put <= task[d].sent
  /\ task[d].put - task[d].taken < Window

(* acknowledgements.put(...): waits while the queue is full. *)
MayPut(d) ==
  /\ task[d].put < task[d].sent
  /\ task[d].put - task[d].taken < Window

Enqueue(d) ==
  /\ task[d].pc = "sending"
  /\ MayPut(d)
  /\ task' = [task EXCEPT ![d].put = @ + 1]
  /\ UNCHANGED row

(* The loop is over; put(None) lets the persister end once the queue is empty. *)
SentAll(d) ==
  /\ task[d].pc = "sending"
  /\ task[d].put = Terminal
  /\ Goto(d, "draining")
  /\ UNCHANGED row

-----------------------------------------------------------------------------
(* The persister *)

Take(d) ==
  /\ task[d].pc \in {"sending", "draining"}
  /\ task[d].taken = task[d].acked /\ task[d].taken < task[d].put
  /\ task' = [task EXCEPT ![d].taken = @ + 1]
  /\ UNCHANGED row

Unpersisted(d) ==
  /\ task[d].pc \in {"sending", "draining"}
  /\ task[d].acked < task[d].taken

(* mark_frame_delivered: the compare-and-swap hits. *)
Persist(d) ==
  /\ Unpersisted(d)
  /\ Holds(d) /\ row.cursor = task[d].taken - 1
  /\ row' = Acknowledged(task[d].taken)
  /\ task' = [task EXCEPT ![d].acked = task[d].taken]

AfterConflict_SenderGoesOn == "sending"

(* A task that raises makes the TaskGroup cancel the other one. *)
AfterConflict == "aborting"

(* OutboxLeaseConflictError: the bundle is another worker's, or settled.  The *)
(* repository's quiet answer to a frame acknowledged before is not reached: a *)
(* holder's next frame is the one after the cursor.                           *)
PersistConflict(d) ==
  /\ Unpersisted(d)
  /\ ~(Holds(d) /\ row.cursor = task[d].taken - 1)
  /\ Goto(d, AfterConflict)
  /\ UNCHANGED row

-----------------------------------------------------------------------------
(* Leaving the call *)

(* The TaskGroup ends: everything sent is persisted. *)
Leave(d) ==
  /\ task[d].pc = "draining"
  /\ task[d].acked = task[d].put
  /\ Goto(d, IF task[d].refused THEN "retrying" ELSE "done")
  /\ UNCHANGED row

(* mark_retry after a refused frame: due again in five seconds. *)
Retry(d) ==
  /\ task[d].pc = "retrying"
  /\ IF Holds(d) THEN row' = GiveBack(FALSE) /\ Goto(d, "done")
                 ELSE UNCHANGED row /\ Goto(d, "aborting")

(* mark_retry after an exception: due at once; a lost lease is ignored. *)
Abort(d) ==
  /\ task[d].pc = "aborting"
  /\ row' = IF Holds(d) THEN GiveBack(TRUE) ELSE row
  /\ Goto(d, "done")

(* The call is cancelled, or one of its awaits raises. *)
Interrupt(d) ==
  /\ task[d].pc \in {"sending", "draining", "retrying"}
  /\ Goto(d, "aborting")
  /\ UNCHANGED row

(* The process dies, or the call is cancelled again while it aborts. *)
Crash(d) ==
  /\ task[d].pc \in {"sending", "draining", "retrying", "aborting", "replaying"}
  /\ Goto(d, "done")
  /\ UNCHANGED row

-----------------------------------------------------------------------------
(* dispatch_committed(replay=True) *)

Replay(d) ==
  /\ task[d].pc = "idle"
  /\ task' = [task EXCEPT ![d] = Begin("replaying", 0)]
  /\ UNCHANGED row

ReplaySend(d) ==
  /\ task[d].pc = "replaying"
  /\ task[d].sent < Terminal
  /\ task' = [task EXCEPT ![d].sent = @ + 1]
  /\ UNCHANGED row

(* emit returned False, or all is sent. *)
ReplayEnd(d) ==
  /\ task[d].pc = "replaying"
  /\ Goto(d, "done")
  /\ UNCHANGED row

-----------------------------------------------------------------------------

(* What the event loop runs as soon as the awaited call returns. *)
Proceed(d) ==
  \/ Send(d) \/ SendRefused(d) \/ Enqueue(d) \/ SentAll(d)
  \/ Take(d) \/ Persist(d) \/ PersistConflict(d)
  \/ Leave(d) \/ Retry(d) \/ Abort(d)
  \/ ReplaySend(d) \/ ReplayEnd(d)

Next ==
  \/ TimePasses
  \/ \E d \in Dispatcher :
       \/ Claim(d) \/ ClaimNothing(d) \/ Replay(d)
       \/ Proceed(d)
       \/ Interrupt(d) \/ Crash(d)

Spec == Init /\ [][Next]_vars

(* Every task of a call that can run does run, once its awaits return. *)
FairSpec ==
  /\ Spec
  /\ \A d \in Dispatcher :
       /\ WF_vars(Send(d) \/ SendRefused(d) \/ Enqueue(d) \/ SentAll(d))
       /\ WF_vars(Take(d) \/ Persist(d) \/ PersistConflict(d))
       /\ WF_vars(Leave(d) \/ Retry(d) \/ Abort(d))
       /\ WF_vars(ReplaySend(d) \/ ReplayEnd(d))

(* Time passes too, and every call that finds the bundle due takes it: with   *)
(* one dispatcher, what the callers of dispatch_committed(replay=False) do,   *)
(* each of which calls it once, right after the commit.                       *)
ServedSpec ==
  /\ FairSpec
  /\ WF_vars(TimePasses)
  /\ \A d \in Dispatcher : WF_vars(Claim(d))

-----------------------------------------------------------------------------
(* Properties *)

(* The frames some connection was sent. *)
Wire == UNION {(task[d].start + 1)..task[d].sent : d \in Dispatcher}

(* The durable cursor never claims a frame that no connection was sent, and  *)
(* what was sent has no gap: a bundle resumed after a crash, a refused frame *)
(* or a lost lease starts right after frames that did go out.                *)
CursorBehindWire ==
  /\ 1..row.cursor \subseteq Wire
  /\ \A s \in Wire : 1..s \subseteq Wire

(* What _record insists on when it reads a row: delivered exactly when the   *)
(* cursor is at the terminal frame; and a row is leased exactly when someone *)
(* holds it.  A late acknowledgement or retry of a worker that lost the      *)
(* bundle would break either.                                                *)
RowIsConsistent ==
  /\ row.status = "delivered" <=> row.cursor = Terminal
  /\ row.status = "leased" <=> row.holder # NoOne
  /\ row.status = "dead" <=> row.retries = MaxAttempts

(* "A bounded window prevents unlimited drift": the sender is never further  *)
(* ahead of the persister than the queue, the frame being persisted and the  *)
(* frame waiting for the queue.                                              *)
WindowIsBounded ==
  \A d \in Dispatcher :
    task[d].pc = "sending" => task[d].sent - task[d].acked <= Window + 2

(* A frame a worker believes it acknowledged stays acknowledged, whoever has *)
(* the bundle now: the cursor is at or past it.                              *)
AcksAreDurable ==
  \A d \in Dispatcher : task[d].acked <= row.cursor

(* What a step may never do: move a settled row, move the cursor backwards   *)
(* or by more than one frame, or move it for a worker without the lease.     *)
CursorStep ==
  /\ row.status \in {"delivered", "dead"} => row' = row
  /\ row'.cursor \in {row.cursor, row.cursor + 1}
  /\ row'.cursor # row.cursor => row.holder # NoOne /\ task'[row.holder].acked = row'.cursor
CursorOnlyAdvances == [][CursorStep]_vars

(* A call that took the bundle comes to an end, also when its persister      *)
(* loses the lease while the sender waits for a full queue.                  *)
DispatchEnds ==
  \A d \in Dispatcher : task[d].pc = "sending" ~> task[d].pc = "done"

(* What mark_frame_delivered says its cursor is for: a restart resumes after  *)
(* the last acknowledgement, so a bundle once begun does not stay half sent.    *)
DeliveryResumes == row.status = "leased" ~> row.status \in {"delivered", "dead"}

Delivery == INSTANCE StableDelivery WITH wire <- Wire, cursor <- row.cursor

(* All the dispatchers together deliver the bundle as promised. *)
ImplementsDelivery == Delivery!Spec
==============================================================================
