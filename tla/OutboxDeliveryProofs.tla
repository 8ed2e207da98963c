------------------------- MODULE OutboxDeliveryProofs -------------------------
(* Theorems about OutboxDelivery, for any number of overlapping dispatchers, *)
(* any bundle length, any queue size and any number of attempts.             *)
EXTENDS OutboxDelivery, TLAPS

-----------------------------------------------------------------------------
(* The inductive invariant *)

(* How far a call's two tasks have come, in the order the frames take. *)
Ordered ==
  \A d \in Dispatcher :
    /\ task[d].start <= task[d].acked /\ task[d].acked <= task[d].taken
    /\ task[d].taken <= task[d].put /\ task[d].put <= task[d].sent
    /\ task[d].pc = "idle" => task[d].start = task[d].sent
    /\ task[d].pc \in {"sending", "draining"} =>
         /\ task[d].taken <= task[d].acked + 1
         /\ task[d].put - task[d].taken <= Window
         /\ task[d].sent <= task[d].put + 1

(* The lease's holder began at the cursor and is the one who moved it since. *)
HolderHasCursor ==
  \A d \in Dispatcher :
    row.holder = d => row.cursor = task[d].acked /\ task[d].pc # "idle"

IInv == /\ TypeOK /\ Ordered /\ HolderHasCursor
        /\ RowIsConsistent /\ AcksAreDurable /\ CursorBehindWire

LEMMA InWire ==
  \A s : s \in Wire <=> \E d \in Dispatcher : s \in (task[d].start + 1)..task[d].sent
BY DEF Wire

-----------------------------------------------------------------------------
(* Each step preserves the invariant's parts *)

LEMMA InvInit == Init => IInv
<1> SUFFICES ASSUME Init PROVE IInv
  OBVIOUS
<1> USE BoundsType, NoOneType
<1>1. /\ row = [status |-> "pending", holder |-> NoOne, cursor |-> 0,
                retries |-> 0, ready |-> TRUE]
      /\ \A d \in Dispatcher : task[d] = Begin("idle", 0)
  BY DEF Init
<1>2. TypeOK
  BY DEF Init, TypeOK, Task, Begin
<1>3. Ordered /\ HolderHasCursor /\ AcksAreDurable
  BY <1>1 DEF Ordered, HolderHasCursor, AcksAreDurable, Begin
<1>4. RowIsConsistent
  BY <1>1 DEF RowIsConsistent
<1>5. Wire = {}
  BY <1>1, InWire DEF Begin
<1> QED BY <1>1, <1>2, <1>3, <1>4, <1>5 DEF IInv, CursorBehindWire

LEMMA TypeStep == TypeOK /\ RowIsConsistent /\ Ordered /\ [Next]_vars => TypeOK'
<1> SUFFICES ASSUME TypeOK, RowIsConsistent, Ordered, [Next]_vars PROVE TypeOK'
  OBVIOUS
<1> USE BoundsType, NoOneType
<1>1. CASE UNCHANGED vars
  BY <1>1 DEF TypeOK, vars
<1>2. CASE TimePasses
  BY <1>2 DEF TimePasses, TypeOK
<1>3. ASSUME NEW d \in Dispatcher,
             \/ Claim(d) \/ ClaimNothing(d) \/ Replay(d) \/ Proceed(d)
             \/ Interrupt(d) \/ Crash(d)
      PROVE  TypeOK'
  <2>0. task[d] \in Task
    BY DEF TypeOK
  <2>1. CASE Claim(d)
    <3>1. Begin("sending", Resume) \in Task
      BY DEF TypeOK, Task, Begin, Resume
    <3> QED BY <2>1, <3>1 DEF Claim, TypeOK
  <2>2. CASE \E pc \in {"draining", "retrying", "aborting", "done"} :
               Goto(d, pc) /\ UNCHANGED row
    <3>1. PICK pc \in {"draining", "retrying", "aborting", "done"} :
            Goto(d, pc) /\ UNCHANGED row
      BY <2>2
    <3>2. [task[d] EXCEPT !.pc = pc] \in Task
      BY <2>0 DEF Task
    <3>3. task' = [task EXCEPT ![d] = [task[d] EXCEPT !.pc = pc]]
      BY <3>1 DEF Goto, TypeOK
    <3> QED BY <3>1, <3>2, <3>3 DEF TypeOK
  <2>3. CASE Replay(d)
    <3>1. Begin("replaying", 0) \in Task
      BY DEF Task, Begin
    <3> QED BY <2>3, <3>1 DEF Replay, TypeOK
  <2>4. CASE Send(d) \/ ReplaySend(d)
    <3>1. [task[d] EXCEPT !.sent = task[d].sent + 1] \in Task
      BY <2>0, <2>4 DEF Send, ReplaySend, Task
    <3> QED BY <2>4, <3>1 DEF Send, ReplaySend, TypeOK
  <2>5. CASE SendRefused(d)
    <3>1. [task[d] EXCEPT !.pc = "draining", !.refused = TRUE] \in Task
      BY <2>0 DEF Task
    <3> QED BY <2>5, <3>1 DEF SendRefused, TypeOK
  <2>6. CASE Enqueue(d)
    <3>1. [task[d] EXCEPT !.put = task[d].put + 1] \in Task
      BY <2>0, <2>6 DEF Enqueue, MayPut, Task
    <3> QED BY <2>6, <3>1 DEF Enqueue, TypeOK
  <2>7. CASE Take(d)
    <3>1. [task[d] EXCEPT !.taken = task[d].taken + 1] \in Task
      BY <2>0, <2>7 DEF Take, Task
    <3> QED BY <2>7, <3>1 DEF Take, TypeOK
  <2>8. CASE Persist(d)
    <3>1. [task[d] EXCEPT !.acked = task[d].taken] \in Task
      BY <2>0 DEF Task
    <3>2. task' \in [Dispatcher -> Task]
      BY <2>8, <3>1 DEF Persist, TypeOK
    <3>3. task[d].taken \in 0..Terminal
      BY <2>0 DEF Task
    <3>4. row' = Acknowledged(task[d].taken)
      BY <2>8 DEF Persist
    <3> QED BY <3>2, <3>3, <3>4 DEF Acknowledged, TypeOK
  <2>9. CASE (Retry(d) \/ Abort(d)) /\ Holds(d)
    <3>1. row.retries + 1 \in 0..MaxAttempts
      BY <2>9 DEF Holds, RowIsConsistent, TypeOK
    <3>2. [task[d] EXCEPT !.pc = "done"] \in Task
      BY <2>0 DEF Task
    <3>3. task' = [task EXCEPT ![d] = [task[d] EXCEPT !.pc = "done"]]
      BY <2>9 DEF Retry, Abort, Goto, TypeOK
    <3>4. \E b \in BOOLEAN : row' = GiveBack(b)
      BY <2>9 DEF Retry, Abort
    <3> QED BY <3>1, <3>2, <3>3, <3>4 DEF GiveBack, TypeOK
  <2>10. CASE (Retry(d) \/ Abort(d)) /\ ~Holds(d)
    BY <2>2, <2>10 DEF Retry, Abort
  <2> QED
    BY <1>3, <2>1, <2>2, <2>3, <2>4, <2>5, <2>6, <2>7, <2>8, <2>9, <2>10
    DEF Proceed, ClaimNothing, SentAll, PersistConflict, AfterConflict, Leave, Interrupt,
        Crash, ReplayEnd
<1> QED BY <1>1, <1>2, <1>3 DEF Next

-----------------------------------------------------------------------------
(* The wire *)

Interval(d) == (task[d].start + 1)..task[d].sent

(* A step after which every call has sent what it had sent before. *)
LEMMA WireStays ==
  ASSUME \A d \in Dispatcher :
           \/ task'[d].start = task[d].start /\ task'[d].sent = task[d].sent
           \/ Interval(d) = {} /\ Interval(d)' = {}
  PROVE  Wire' = Wire
<1>1. \A d \in Dispatcher : Interval(d)' = Interval(d)
  BY DEF Interval
<1>2. Wire = UNION {Interval(d) : d \in Dispatcher}
  BY DEF Wire, Interval
<1>3. Wire' = UNION {Interval(d)' : d \in Dispatcher}
  BY DEF Wire, Interval
<1> QED BY <1>1, <1>2, <1>3

(* Every frame up to the last one a call sent went out. *)
LEMMA BeforeIsSent ==
  ASSUME TypeOK, Ordered, AcksAreDurable, CursorBehindWire, NEW d \in Dispatcher
  PROVE  1..task[d].sent \subseteq Wire
<1>1. task[d].start \in Nat /\ task[d].sent \in Nat /\ row.cursor \in Nat
  BY DEF TypeOK, Task
<1>2. task[d].start <= row.cursor
  BY DEF Ordered, AcksAreDurable, TypeOK, Task
<1>3. ASSUME NEW s \in 1..task[d].sent PROVE s \in Wire
  <2>1. CASE s <= row.cursor
    BY <1>1, <2>1 DEF CursorBehindWire
  <2>2. CASE s > row.cursor
    <3>1. s \in (task[d].start + 1)..task[d].sent
      BY <1>1, <1>2, <2>2
    <3> QED BY <3>1, InWire
  <2> QED BY <1>1, <2>1, <2>2
<1> QED BY <1>3

LEMMA WireGrows ==
  ASSUME TypeOK, Ordered, NEW d \in Dispatcher, Send(d) \/ ReplaySend(d)
  PROVE  /\ Wire' = Wire \cup {task[d].sent + 1}
         /\ task[d].sent + 1 \in 1..Terminal
<1>1. /\ task[d].start \in Nat /\ task[d].sent \in Nat
      /\ task[d].start <= task[d].sent /\ task[d].sent < Terminal
  BY DEF TypeOK, Task, Ordered, Send, ReplaySend
<1>2. /\ task'[d].start = task[d].start /\ task'[d].sent = task[d].sent + 1
      /\ \A e \in Dispatcher \ {d} : task'[e] = task[e]
  BY DEF TypeOK, Task, Send, ReplaySend
<1>3. Interval(d)' = Interval(d) \cup {task[d].sent + 1}
  BY <1>1, <1>2 DEF Interval
<1>4. \A e \in Dispatcher \ {d} : Interval(e)' = Interval(e)
  BY <1>2 DEF Interval
<1>5. Wire = UNION {Interval(e) : e \in Dispatcher}
  BY DEF Wire, Interval
<1>6. Wire' = UNION {Interval(e)' : e \in Dispatcher}
  BY DEF Wire, Interval
<1>7. ASSUME NEW s
      PROVE  s \in Wire' <=> s \in Wire \/ s = task[d].sent + 1
  BY <1>3, <1>4, <1>5, <1>6, Zenon
<1> QED BY <1>1, <1>7, BoundsType

-----------------------------------------------------------------------------
(* Each step preserves the rest *)

Rest == /\ Ordered /\ HolderHasCursor /\ RowIsConsistent
        /\ AcksAreDurable /\ CursorBehindWire

(* A step that moves at most a call's pc, to a place where less is asked. *)
LEMMA PcStep ==
  ASSUME IInv, NEW d \in Dispatcher,
         NEW pc \in {"draining", "retrying", "aborting", "done"}, Goto(d, pc),
         UNCHANGED row, pc = "draining" => task[d].pc = "sending"
  PROVE  Rest'
<1>1. /\ task'[d] = [task[d] EXCEPT !.pc = pc]
      /\ \A e \in Dispatcher \ {d} : task'[e] = task[e]
  BY DEF IInv, TypeOK, Goto
<1>2. /\ task'[d].pc = pc /\ task'[d].start = task[d].start /\ task'[d].sent = task[d].sent
      /\ task'[d].put = task[d].put /\ task'[d].taken = task[d].taken
      /\ task'[d].acked = task[d].acked
  BY <1>1 DEF IInv, TypeOK, Task
<1>3. Wire' = Wire
  BY <1>1, <1>2, WireStays
<1>4. Ordered'
  BY <1>1, <1>2 DEF IInv, Ordered
<1>5. HolderHasCursor' /\ AcksAreDurable'
  BY <1>1, <1>2 DEF IInv, HolderHasCursor, AcksAreDurable
<1>6. RowIsConsistent' /\ CursorBehindWire'
  BY <1>3 DEF IInv, RowIsConsistent, CursorBehindWire
<1> QED BY <1>4, <1>5, <1>6 DEF Rest

LEMMA ClaimStep == ASSUME IInv, NEW d \in Dispatcher, Claim(d) PROVE Rest'
<1>0. /\ row.cursor \in 0..Terminal /\ row.status # "delivered" /\ row.status # "dead"
      /\ Terminal \in Nat
  BY BoundsType DEF IInv, TypeOK, Claim, Claimable
<1>1. /\ row'.status = "leased" /\ row'.holder = d /\ row'.cursor = row.cursor
      /\ row'.retries = row.retries
      /\ task'[d] = Begin("sending", row.cursor)
      /\ \A e \in Dispatcher \ {d} : task'[e] = task[e]
  BY DEF IInv, TypeOK, Claim, Resume
<1>2. Wire' = Wire
  <2>1. task[d].start = task[d].sent /\ task[d].sent \in Nat
    BY DEF IInv, TypeOK, Task, Ordered, Claim
  <2>2. Interval(d) = {} /\ Interval(d)' = {}
    BY <1>0, <1>1, <2>1 DEF Interval, Begin
  <2> QED BY <1>1, <2>2, WireStays
<1>3. Ordered'
  BY <1>0, <1>1, BoundsType DEF IInv, Ordered, Begin
<1>4. HolderHasCursor' /\ AcksAreDurable'
  BY <1>0, <1>1 DEF IInv, HolderHasCursor, AcksAreDurable, Begin
<1>5. RowIsConsistent'
  BY <1>0, <1>1, NoOneType DEF IInv, RowIsConsistent
<1> QED BY <1>1, <1>2, <1>3, <1>4, <1>5 DEF Rest, IInv, CursorBehindWire

LEMMA ReplayStep == ASSUME IInv, NEW d \in Dispatcher, Replay(d) PROVE Rest'
<1>1. /\ row' = row /\ task'[d] = Begin("replaying", 0)
      /\ \A e \in Dispatcher \ {d} : task'[e] = task[e]
      /\ row.cursor \in Nat
  BY DEF IInv, TypeOK, Replay
<1>2. Wire' = Wire
  <2>1. task[d].start = task[d].sent /\ task[d].sent \in Nat
    BY DEF IInv, TypeOK, Task, Ordered, Replay
  <2>2. Interval(d) = {} /\ Interval(d)' = {}
    BY <1>1, <2>1 DEF Interval, Begin
  <2> QED BY <1>1, <2>2, WireStays
<1>3. Ordered'
  BY <1>1 DEF IInv, Ordered, Begin
<1>4. HolderHasCursor'
  <2>1. row.holder # d
    BY DEF IInv, HolderHasCursor, Replay
  <2> QED BY <1>1, <2>1 DEF IInv, HolderHasCursor, Begin
<1>5. AcksAreDurable'
  BY <1>1 DEF IInv, AcksAreDurable, Begin
<1> QED BY <1>1, <1>2, <1>3, <1>4, <1>5 DEF Rest, IInv, RowIsConsistent, CursorBehindWire

LEMMA SendStep ==
  ASSUME IInv, NEW d \in Dispatcher, Send(d) \/ ReplaySend(d) PROVE Rest'
<1>1. /\ row' = row
      /\ task'[d] = [task[d] EXCEPT !.sent = task[d].sent + 1]
      /\ \A e \in Dispatcher \ {d} : task'[e] = task[e]
  BY DEF IInv, TypeOK, Send, ReplaySend
<1>2. /\ task'[d].pc = task[d].pc /\ task'[d].start = task[d].start
      /\ task'[d].sent = task[d].sent + 1
      /\ task'[d].put = task[d].put /\ task'[d].taken = task[d].taken
      /\ task'[d].acked = task[d].acked
      /\ task[d] \in Task /\ task[d].pc # "idle"
      /\ task[d].pc \in {"sending", "draining"} => task[d].sent = task[d].put
  BY <1>1 DEF IInv, TypeOK, Task, Send, ReplaySend
<1>3. Ordered'
  <2>1. /\ task[d].sent \in Nat /\ task[d].put \in Nat /\ task[d].put <= task[d].sent
    BY <1>2 DEF Task, IInv, Ordered
  <2>2. /\ task'[d].put <= task'[d].sent
        /\ task'[d].pc \in {"sending", "draining"} => task'[d].sent <= task'[d].put + 1
    BY <1>2, <2>1
  <2> QED BY <1>1, <1>2, <2>2 DEF IInv, Ordered
<1>4. HolderHasCursor' /\ AcksAreDurable'
  BY <1>1, <1>2 DEF IInv, HolderHasCursor, AcksAreDurable
<1>5. CursorBehindWire'
  <2>1. Wire' = Wire \cup {task[d].sent + 1}
    BY WireGrows DEF IInv
  <2>2. 1..task[d].sent \subseteq Wire /\ task[d].sent \in Nat
    BY <1>2, BeforeIsSent DEF IInv, Task
  <2>3. 1..(task[d].sent + 1) \subseteq Wire'
    BY <2>1, <2>2
  <2> QED BY <1>1, <2>1, <2>3 DEF IInv, CursorBehindWire
<1> QED BY <1>1, <1>3, <1>4, <1>5 DEF Rest, IInv, RowIsConsistent

(* Refusing a frame, queueing and taking an acknowledgement: the row and the *)
(* wire stay as they are.                                                    *)
LEMMA QueueStep ==
  ASSUME IInv, NEW d \in Dispatcher, SendRefused(d) \/ Enqueue(d) \/ Take(d) PROVE Rest'
<1>0. task[d] \in Task /\ Window \in Nat
  BY BoundsType DEF IInv, TypeOK
<1>1. /\ row' = row
      /\ \A e \in Dispatcher \ {d} : task'[e] = task[e]
      /\ task'[d].start = task[d].start /\ task'[d].sent = task[d].sent
      /\ task'[d].acked = task[d].acked
      /\ task'[d].pc \in {"sending", "draining"} /\ task[d].pc \in {"sending", "draining"}
  BY <1>0 DEF IInv, TypeOK, Task, SendRefused, Enqueue, Take
<1>2. Wire' = Wire
  BY <1>1, WireStays
<1>3. Ordered'
  <2>1. CASE SendRefused(d)
    <3>1. task'[d].put = task[d].put /\ task'[d].taken = task[d].taken
      BY <1>0, <2>1 DEF IInv, TypeOK, Task, SendRefused
    <3> QED BY <1>1, <3>1 DEF IInv, Ordered
  <2>2. CASE Enqueue(d)
    <3>1. /\ task'[d].put = task[d].put + 1 /\ task'[d].taken = task[d].taken
          /\ task[d].put < task[d].sent /\ task[d].put - task[d].taken < Window
      BY <1>0, <2>2 DEF IInv, TypeOK, Task, Enqueue, MayPut
    <3> QED BY <1>0, <1>1, <3>1 DEF IInv, Ordered, Task
  <2>3. CASE Take(d)
    <3>1. /\ task'[d].put = task[d].put /\ task'[d].taken = task[d].taken + 1
          /\ task[d].taken = task[d].acked /\ task[d].taken < task[d].put
      BY <1>0, <2>3 DEF IInv, TypeOK, Task, Take
    <3> QED BY <1>0, <1>1, <3>1 DEF IInv, Ordered, Task
  <2> QED BY <2>1, <2>2, <2>3
<1>4. HolderHasCursor' /\ AcksAreDurable'
  BY <1>1 DEF IInv, HolderHasCursor, AcksAreDurable
<1> QED BY <1>1, <1>2, <1>3, <1>4 DEF Rest, IInv, RowIsConsistent, CursorBehindWire

LEMMA PersistStep == ASSUME IInv, NEW d \in Dispatcher, Persist(d) PROVE Rest'
<1> DEFINE s == task[d].taken
<1>0. /\ task[d] \in Task /\ s = row.cursor + 1 /\ s = task[d].acked + 1
      /\ s \in 1..Terminal /\ row.cursor \in Nat /\ Terminal \in Nat
      /\ row.status = "leased" /\ row.holder = d
      /\ task[d].pc \in {"sending", "draining"}
  <2>1. /\ task[d] \in Task /\ row.cursor \in Nat /\ Terminal \in Nat
        /\ row.status = "leased" /\ row.holder = d /\ row.cursor = s - 1
        /\ task[d].pc \in {"sending", "draining"} /\ s \in Nat /\ s <= Terminal
    BY BoundsType DEF IInv, TypeOK, Task, Persist, Holds, Unpersisted
  <2>2. row.cursor = task[d].acked
    BY <2>1 DEF IInv, HolderHasCursor
  <2> QED BY <2>1, <2>2
<1>1. /\ row'.cursor = s /\ row'.retries = row.retries
      /\ row'.status = (IF s = Terminal THEN "delivered" ELSE "leased")
      /\ row'.holder = (IF s = Terminal THEN NoOne ELSE d)
  BY <1>0 DEF IInv, TypeOK, Persist, Acknowledged
<1>2. /\ task'[d] = [task[d] EXCEPT !.acked = s]
      /\ \A e \in Dispatcher \ {d} : task'[e] = task[e]
  BY DEF IInv, TypeOK, Persist
<1>3. /\ task'[d].pc = task[d].pc /\ task'[d].start = task[d].start
      /\ task'[d].sent = task[d].sent /\ task'[d].put = task[d].put
      /\ task'[d].taken = s /\ task'[d].acked = s
  BY <1>0, <1>2 DEF Task
<1>4. Ordered'
  BY <1>0, <1>2, <1>3 DEF IInv, Ordered, Task
<1>5. HolderHasCursor'
  BY <1>0, <1>1, <1>3, NoOneType DEF HolderHasCursor
<1>6. AcksAreDurable'
  <2>1. ASSUME NEW e \in Dispatcher \ {d} PROVE task'[e].acked <= row'.cursor
    BY <1>0, <1>1, <1>2 DEF IInv, AcksAreDurable, TypeOK, Task
  <2> QED BY <1>0, <1>1, <1>3, <2>1 DEF AcksAreDurable
<1>7. RowIsConsistent'
  BY <1>0, <1>1, NoOneType DEF IInv, RowIsConsistent
<1>8. Wire' = Wire
  BY <1>2, <1>3, WireStays
<1>9. CursorBehindWire'
  <2>1. s \in 1..task[d].sent
    BY <1>0 DEF IInv, Ordered, Task
  <2>2. s \in Wire
    BY <2>1, BeforeIsSent DEF IInv
  <2> QED BY <1>1, <1>8, <2>2 DEF IInv, CursorBehindWire
<1> QED BY <1>4, <1>5, <1>6, <1>7, <1>9 DEF Rest

LEMMA GiveBackStep ==
  ASSUME IInv, NEW d \in Dispatcher, Retry(d) \/ Abort(d), Holds(d) PROVE Rest'
<1>1. /\ row'.cursor = row.cursor /\ row'.holder = NoOne
      /\ row'.retries = row.retries + 1
      /\ row'.status = (IF row.retries + 1 >= MaxAttempts THEN "dead" ELSE "pending")
  BY DEF Retry, Abort, GiveBack, IInv, TypeOK
<1>2. task' = [task EXCEPT ![d].pc = "done"]
  BY DEF Retry, Abort, Goto
<1>3. /\ task'[d] = [task[d] EXCEPT !.pc = "done"] /\ task[d] \in Task
      /\ \A e \in Dispatcher \ {d} : task'[e] = task[e]
  BY <1>2 DEF IInv, TypeOK
<1>4. /\ task'[d].pc = "done" /\ task'[d].start = task[d].start
      /\ task'[d].sent = task[d].sent /\ task'[d].put = task[d].put
      /\ task'[d].taken = task[d].taken /\ task'[d].acked = task[d].acked
  BY <1>3 DEF Task
<1>5. Ordered'
  BY <1>3, <1>4 DEF IInv, Ordered
<1>6. HolderHasCursor' /\ AcksAreDurable'
  BY <1>1, <1>3, <1>4, NoOneType DEF IInv, HolderHasCursor, AcksAreDurable
<1>7. RowIsConsistent'
  <2>1. row.retries \in 0..MaxAttempts /\ row.retries # MaxAttempts /\ row.cursor # Terminal
    BY DEF IInv, RowIsConsistent, Holds, TypeOK
  <2> QED BY <1>1, <2>1, BoundsType DEF RowIsConsistent
<1>8. Wire' = Wire
  BY <1>3, <1>4, WireStays
<1> QED BY <1>1, <1>5, <1>6, <1>7, <1>8 DEF IInv, Rest, CursorBehindWire

LEMMA InvStep == IInv /\ [Next]_vars => IInv'
<1> SUFFICES ASSUME IInv, [Next]_vars PROVE IInv'
  OBVIOUS
<1>1. TypeOK'
  BY TypeStep DEF IInv
<1>2. CASE UNCHANGED vars
  <2>1. row' = row /\ task' = task
    BY <1>2 DEF vars
  <2>2. Wire' = Wire
    BY <2>1, WireStays
  <2> QED BY <1>1, <2>1, <2>2
          DEF IInv, Ordered, HolderHasCursor, RowIsConsistent, AcksAreDurable, CursorBehindWire
<1>3. CASE TimePasses
  <2>1. /\ task' = task /\ row'.status = row.status /\ row'.holder = row.holder
        /\ row'.cursor = row.cursor /\ row'.retries = row.retries
    BY <1>3 DEF TimePasses, IInv, TypeOK
  <2>2. Wire' = Wire
    BY <2>1, WireStays
  <2> QED BY <1>1, <2>1, <2>2
          DEF IInv, Ordered, HolderHasCursor, RowIsConsistent, AcksAreDurable, CursorBehindWire
<1>4. ASSUME NEW d \in Dispatcher,
             \/ Claim(d) \/ ClaimNothing(d) \/ Replay(d) \/ Proceed(d)
             \/ Interrupt(d) \/ Crash(d)
      PROVE  Rest'
  <2>1. CASE Claim(d)
    BY <2>1, ClaimStep
  <2>2. CASE Replay(d)
    BY <2>2, ReplayStep
  <2>3. CASE Send(d) \/ ReplaySend(d)
    BY <2>3, SendStep
  <2>4. CASE SendRefused(d) \/ Enqueue(d) \/ Take(d)
    BY <2>4, QueueStep
  <2>5. CASE Persist(d)
    BY <2>5, PersistStep
  <2>6. CASE (Retry(d) \/ Abort(d)) /\ Holds(d)
    BY <2>6, GiveBackStep
  <2>7. CASE \/ ClaimNothing(d) \/ SentAll(d) \/ PersistConflict(d) \/ Leave(d)
             \/ Interrupt(d) \/ Crash(d) \/ ReplayEnd(d)
             \/ (Retry(d) \/ Abort(d)) /\ ~Holds(d)
    <3>1. \E pc \in {"draining", "retrying", "aborting", "done"} :
            /\ Goto(d, pc) /\ UNCHANGED row
            /\ pc = "draining" => task[d].pc = "sending"
      BY <2>7 DEF ClaimNothing, SentAll, PersistConflict, AfterConflict, Leave, Interrupt,
                  Crash, ReplayEnd, Retry, Abort
    <3> QED BY <3>1, PcStep
  <2> QED BY <1>4, <2>1, <2>2, <2>3, <2>4, <2>5, <2>6, <2>7 DEF Proceed
<1> QED BY <1>1, <1>2, <1>3, <1>4 DEF Next, IInv, Rest

(* The inductive invariant holds in every reachable state. *)
THEOREM Inductive == Spec => []IInv
BY InvInit, InvStep, PTL DEF Spec

(* The durable cursor never claims a frame that no connection was sent, and  *)
(* what was sent has no gap, however many dispatchers overlap or die.        *)
THEOREM CursorIsHonest == Spec => []CursorBehindWire
BY Inductive, PTL DEF IInv

(* A late acknowledgement or retry never leaves the row in a state that      *)
(* reading it back would reject.                                             *)
THEOREM RowStaysReadable == Spec => []RowIsConsistent
BY Inductive, PTL DEF IInv

(* Whatever a worker was told is acknowledged stays at or below the cursor,  *)
(* through any number of lapsed leases, retries and dying workers.           *)
THEOREM AcksStay == Spec => []AcksAreDurable
BY Inductive, PTL DEF IInv

LEMMA OrderedIsBounded == TypeOK /\ Ordered => WindowIsBounded
BY BoundsType DEF TypeOK, Task, Ordered, WindowIsBounded

(* The sender is never more than the queue and two frames ahead. *)
THEOREM BoundedDrift == Spec => []WindowIsBounded
BY Inductive, OrderedIsBounded, PTL DEF IInv

-----------------------------------------------------------------------------
(* What a step may never do, and the abstract delivery *)

LEMMA CursorMoves == IInv /\ [Next]_vars => [CursorStep]_vars
<1> SUFFICES ASSUME IInv, [Next]_vars PROVE CursorStep \/ UNCHANGED vars
  OBVIOUS
<1>1. CASE TimePasses
  BY <1>1 DEF TimePasses, CursorStep, IInv, TypeOK
<1>2. ASSUME NEW d \in Dispatcher, Persist(d) PROVE CursorStep
  <2>1. /\ row.status = "leased" /\ row.holder = d /\ row.cursor = task[d].taken - 1
        /\ task[d] \in Task /\ row.cursor \in Nat
        /\ row'.cursor = task[d].taken
        /\ task'[d].acked = task[d].taken
    BY <1>2 DEF Persist, Holds, Acknowledged, IInv, TypeOK, Task
  <2>2. row'.cursor = row.cursor + 1
    BY <2>1 DEF Task
  <2> QED BY <2>1, <2>2, NoOneType DEF CursorStep
<1>3. ASSUME NEW d \in Dispatcher, Claim(d) PROVE CursorStep
  BY <1>3 DEF Claim, Claimable, CursorStep, IInv, TypeOK
<1>4. ASSUME NEW d \in Dispatcher, Retry(d) \/ Abort(d) PROVE CursorStep
  BY <1>4 DEF Retry, Abort, Holds, GiveBack, CursorStep, IInv, TypeOK
<1>5. CASE row' = row
  BY <1>5 DEF CursorStep
<1> QED
  BY <1>1, <1>2, <1>3, <1>4, <1>5
  DEF Next, Proceed, vars, ClaimNothing, Replay, Send, SendRefused, Enqueue, SentAll, Take,
      PersistConflict, Leave, ReplaySend, ReplayEnd, Interrupt, Crash

(* Nobody moves a settled row, or the cursor by anything but one frame its   *)
(* leaseholder sent.                                                         *)
THEOREM CursorAdvances == Spec => CursorOnlyAdvances
BY Inductive, CursorMoves, PTL DEF Spec, CursorOnlyAdvances

LEMMA DeliveryInit == Init => Delivery!Init
<1> SUFFICES ASSUME Init PROVE Delivery!Init
  OBVIOUS
<1>1. row.cursor = 0 /\ \A d \in Dispatcher : task[d] = Begin("idle", 0)
  BY DEF Init
<1>2. Wire = {}
  BY <1>1, InWire DEF Begin
<1> QED BY <1>1, <1>2 DEF Delivery!Init

LEMMA DeliveryStep == IInv /\ [Next]_vars => [Delivery!Next]_(Delivery!deliveryVars)
<1> SUFFICES ASSUME IInv, [Next]_vars
             PROVE  Delivery!Next \/ UNCHANGED Delivery!deliveryVars
  OBVIOUS
<1>1. ASSUME NEW d \in Dispatcher, Send(d) \/ ReplaySend(d) PROVE Delivery!Next
  <2> DEFINE s == task[d].sent + 1
  <2>1. Wire' = Wire \cup {s} /\ s \in 1..Terminal
    BY <1>1, WireGrows DEF IInv
  <2>2. 1..(s - 1) \subseteq Wire
    BY BeforeIsSent DEF IInv, TypeOK, Task
  <2>3. row'.cursor = row.cursor
    BY <1>1 DEF Send, ReplaySend
  <2> QED BY <2>1, <2>2, <2>3 DEF Delivery!Next, Delivery!Send
<1>2. ASSUME NEW d \in Dispatcher, Persist(d) PROVE Delivery!Next
  <2>1. /\ \A e \in Dispatcher : task'[e].start = task[e].start /\ task'[e].sent = task[e].sent
        /\ task[d] \in Task /\ row.cursor \in Nat
        /\ row.cursor = task[d].taken - 1 /\ row'.cursor = task[d].taken
    BY <1>2 DEF Persist, Acknowledged, IInv, TypeOK, Task
  <2>2. Wire' = Wire
    BY <2>1, WireStays
  <2>3. task[d].taken \in 1..task[d].sent /\ task[d].taken = row.cursor + 1
    BY <2>1, <1>2 DEF IInv, Ordered, Task, Persist, Unpersisted
  <2>4. row.cursor + 1 \in Wire
    BY <2>3, BeforeIsSent DEF IInv
  <2> QED BY <2>1, <2>2, <2>3, <2>4 DEF Delivery!Next, Delivery!Acknowledge
<1>3. ASSUME NEW d \in Dispatcher, Claim(d) \/ Replay(d)
      PROVE  UNCHANGED Delivery!deliveryVars
  <2>1. row'.cursor = row.cursor
    BY <1>3 DEF Claim, Replay, IInv, TypeOK
  <2>2. /\ \A e \in Dispatcher \ {d} : task'[e] = task[e]
        /\ task[d].start = task[d].sent /\ task[d].sent \in Nat
        /\ task[d].pc = "idle"
    BY <1>3 DEF Claim, Replay, IInv, TypeOK, Task, Ordered
  <2>5. task'[d].start = task'[d].sent /\ task'[d].sent \in Nat
    BY <1>3 DEF Claim, Replay, Begin, Resume, IInv, TypeOK
  <2>3. Interval(d) = {} /\ Interval(d)' = {}
    BY <2>2, <2>5 DEF Interval
  <2>4. Wire' = Wire
    BY <2>2, <2>3, WireStays
  <2> QED BY <2>1, <2>4 DEF Delivery!deliveryVars
<1>4. CASE /\ row'.cursor = row.cursor
           /\ \A e \in Dispatcher : task'[e].start = task[e].start /\ task'[e].sent = task[e].sent
  BY <1>4, WireStays DEF Delivery!deliveryVars
<1>5. ASSUME NEW d \in Dispatcher,
             \/ ClaimNothing(d) \/ Interrupt(d) \/ Crash(d) \/ SendRefused(d) \/ Enqueue(d)
             \/ SentAll(d) \/ Take(d) \/ PersistConflict(d) \/ Leave(d) \/ Retry(d)
             \/ Abort(d) \/ ReplayEnd(d)
      PROVE  /\ row'.cursor = row.cursor
             /\ \A e \in Dispatcher : task'[e].start = task[e].start /\ task'[e].sent = task[e].sent
  <2>1. row'.cursor = row.cursor
    BY <1>5 DEF ClaimNothing, Interrupt, Crash, SendRefused, Enqueue, SentAll, Take,
                PersistConflict, Leave, Retry, Abort, ReplayEnd, GiveBack, IInv, TypeOK
  <2>2. \A e \in Dispatcher : task'[e].start = task[e].start /\ task'[e].sent = task[e].sent
    <3>1. CASE SendRefused(d)
      BY <3>1 DEF SendRefused, IInv, TypeOK, Task
    <3>2. CASE Enqueue(d)
      BY <3>2 DEF Enqueue, IInv, TypeOK, Task
    <3>3. CASE Take(d)
      BY <3>3 DEF Take, IInv, TypeOK, Task
    <3>4. ASSUME NEW pc, Goto(d, pc)
          PROVE  \A e \in Dispatcher :
                   task'[e].start = task[e].start /\ task'[e].sent = task[e].sent
      BY <3>4 DEF Goto, IInv, TypeOK, Task
    <3> QED
      BY <1>5, <3>1, <3>2, <3>3, <3>4
      DEF ClaimNothing, Interrupt, Crash, SentAll, PersistConflict, Leave, Retry, Abort, ReplayEnd
  <2> QED BY <2>1, <2>2
<1>6. CASE TimePasses \/ UNCHANGED vars
  BY <1>4, <1>6 DEF TimePasses, vars, IInv, TypeOK
<1> QED BY <1>1, <1>2, <1>3, <1>4, <1>5, <1>6 DEF Next, Proceed

(* All the dispatchers together deliver the bundle as StableDelivery says. *)
THEOREM DeliversStably == Spec => ImplementsDelivery
BY Inductive, DeliveryInit, DeliveryStep, PTL
   DEF Spec, ImplementsDelivery, Delivery!Spec

(* Every variable keeps its type: the cursor stays within the bundle and its *)
(* retries within MaxAttempts.                                               *)
THEOREM TypeCorrect == Spec => []TypeOK
BY Inductive, PTL DEF IInv
==============================================================================
