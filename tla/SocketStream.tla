----------------------------- MODULE SocketStream -----------------------------
(***************************************************************************)
(* One WebSocket of a trip: trip_stream in services/api/main.py.           *)
(*                                                                         *)
(* The connection's handler (the reader) receives frames, answers pings    *)
(* and refusals itself and starts a task per command, waiting until the    *)
(* command is admitted before it reads on.  Reader and command tasks emit  *)
(* through enqueue: the frame goes on an unbounded queue with a future     *)
(* that the sender resolves - True when the socket took the frame, False   *)
(* when the sender ends with the frame still queued.  A frame the sender   *)
(* was handing to the socket when that raised is resolved by nobody.       *)
(*                                                                         *)
(* A waiter is the reader or a command, and <<w, n>> its n-th frame.  It   *)
(* emits one after the other; only a trip setup has a task beside itself   *)
(* that emits one more (feedback_task in prepare_journey_service.py:518).  *)
(* What commands do besides emitting is left out.                          *)
(***************************************************************************)
EXTENDS Naturals, Sequences, FiniteSets

CONSTANTS
  Command,     \* commands a browser sends over this connection
  Setup,       \* the trip setups among them
  Reader,      \* the task of trip_stream
  MaxFrames    \* bound: frames emitted by one waiter

ASSUME ReaderIsNew == Reader \notin Command
ASSUME SetupType == Setup \subseteq Command
ASSUME BoundType == MaxFrames \in Nat

VARIABLES
  peer,       \* the browser is there
  reader,     \* where trip_stream is
  command,    \* command[c]: the run_command task of c
  admitted,   \* commands whose admitted event is set
  emitted,    \* emitted[w]: frames w gave to enqueue
  aside,      \* the frames among them that feedback tasks emitted
  delivered,  \* delivered[f]: the future of frame f
  queue,      \* outbound
  sender,     \* where send_loop is
  flight,     \* what send_json was called with, as a set
  wire        \* frames the socket took, in order

vars == <<peer, reader, command, admitted, emitted, aside, delivered, queue, sender, flight, wire>>
tasks == <<reader, command, admitted>>
output == <<queue, sender, flight, wire>>

Waiter == Command \cup {Reader}
Frame == Waiter \X (1..MaxFrames)
Stop == <<>>   \* the None that ends send_loop

(* Each variable holds what its Python object can. *)
TypeOK ==
  /\ peer \in BOOLEAN
  /\ reader \in {"receiving", "answering", "admitting", "closing", "stopping", "done"}
  /\ command \in [Command -> {"unborn", "working", "unwinding", "done"}]
  /\ admitted \subseteq Command
  /\ emitted \in [Waiter -> 0..MaxFrames]
  /\ aside \subseteq Frame
  /\ delivered \in [Frame -> {"none", "pending", "true", "false", "cancelled"}]
  /\ queue \in Seq(Frame \cup {Stop})
  /\ sender \in {"idle", "sending", "finished"}
  /\ flight \subseteq Frame /\ Cardinality(flight) <= 1
  /\ wire \in Seq(Frame)

Init ==
  /\ peer = TRUE
  /\ reader = "receiving"
  /\ command = [c \in Command |-> "unborn"]
  /\ admitted = {}
  /\ emitted = [w \in Waiter |-> 0]
  /\ aside = {}
  /\ delivered = [f \in Frame |-> "none"]
  /\ queue = <<>> /\ sender = "idle" /\ flight = {} /\ wire = <<>>

Waiting(f) == delivered[f] = "pending"

(* The task of w itself, or its feedback task too, waits for a frame. *)
Waits(w) == \E f \in Frame : f[1] = w /\ f \notin aside /\ Waiting(f)
Unanswered(w) == \E f \in Frame : f[1] = w /\ Waiting(f)

-----------------------------------------------------------------------------
(* enqueue *)

Refuses_Never == FALSE

(* sender_finished.is_set() *)
Refuses == sender = "finished"

(* Nothing is awaited between the look at sender_finished and the put. *)
Enqueue(w) ==
  LET f == <<w, emitted[w] + 1>> IN
  /\ emitted[w] < MaxFrames
  /\ emitted' = [emitted EXCEPT ![w] = @ + 1]
  /\ delivered' = [delivered EXCEPT ![f] = IF Refuses THEN "false" ELSE "pending"]
  /\ queue' = IF Refuses THEN queue ELSE Append(queue, f)

-----------------------------------------------------------------------------
(* run_command *)

Emit(c) ==
  /\ command[c] = "working" /\ ~Waits(c)
  /\ Enqueue(c)
  /\ UNCHANGED <<peer, tasks, aside, sender, flight, wire>>

(* The feedback task of a trip setup, once. *)
EmitAside(c) ==
  /\ c \in Setup /\ command[c] = "working"
  /\ \A f \in aside : f[1] # c
  /\ Enqueue(c)
  /\ aside' = aside \cup {<<c, emitted[c] + 1>>}
  /\ UNCHANGED <<peer, tasks, sender, flight, wire>>

(* The finally block that cancels the feedback task: the command was          *)
(* cancelled, or what it did beside that task raised.                         *)
DropAside(c) ==
  /\ command[c] \in {"working", "unwinding"} /\ ~Waits(c) /\ Unanswered(c)
  /\ delivered' = [f \in Frame |->
       IF f[1] = c /\ Waiting(f) THEN "cancelled" ELSE delivered[f]]
  /\ UNCHANGED <<peer, tasks, emitted, aside, output>>

(* on_admitted, which a service calls before, between or after its frames. *)
Admit(c) ==
  /\ command[c] = "working" /\ ~Waits(c) /\ c \notin admitted
  /\ admitted' = admitted \cup {c}
  /\ UNCHANGED <<peer, reader, command, emitted, aside, delivered, output>>

(* Done, or cancelled and unwound; finally sets admitted.  A feedback task   *)
(* was awaited.                                                              *)
End(c) ==
  /\ command[c] \in {"working", "unwinding"} /\ ~Unanswered(c)
  /\ command' = [command EXCEPT ![c] = "done"]
  /\ admitted' = admitted \cup {c}
  /\ UNCHANGED <<peer, reader, emitted, aside, delivered, output>>

-----------------------------------------------------------------------------
(* send_loop *)

HasFrame_Any == queue # <<>>

HasFrame == queue # <<>> /\ Head(queue) # Stop

Take ==
  /\ sender = "idle" /\ HasFrame
  /\ flight' = {Head(queue)}
  /\ queue' = Tail(queue)
  /\ sender' = "sending"
  /\ UNCHANGED <<peer, tasks, emitted, aside, delivered, wire>>

(* Every frame that leaves the sender resolves a future nobody cancelled. *)
Resolved(frames, result) ==
  [f \in Frame |-> IF Waiting(f) /\ f \in frames THEN result ELSE delivered[f]]

Sent ==
  /\ sender = "sending"
  /\ \E f \in flight : wire' = Append(wire, f)
  /\ delivered' = Resolved(flight, "true")
  /\ flight' = {} /\ sender' = "idle"
  /\ UNCHANGED <<peer, tasks, emitted, aside, queue>>

QueuedFrames == {queue[i] : i \in DOMAIN queue} \ {Stop}

Drained_AsSent == Resolved(QueuedFrames, "true")

(* The sender's finally block. *)
Drained == Resolved(QueuedFrames, "false")

AfterFailure_GoesOn == "idle"

AfterFailure == "finished"

(* send_json raises: the peer is gone, or the payload or the socket's state  *)
(* would not do.  flight keeps the frame.                                    *)
SendFails ==
  /\ sender = "sending"
  /\ delivered' = Drained
  /\ queue' = <<>>
  /\ sender' = AfterFailure
  /\ UNCHANGED <<peer, tasks, emitted, aside, flight, wire>>

(* The queued None.  Nothing is queued behind it. *)
SenderStops ==
  /\ sender = "idle" /\ queue # <<>> /\ Head(queue) = Stop
  /\ delivered' = Drained
  /\ queue' = <<>>
  /\ sender' = "finished"
  /\ UNCHANGED <<peer, tasks, emitted, aside, flight, wire>>

-----------------------------------------------------------------------------
(* The reader *)

(* A ping, or a command whose actor is refused. *)
Answer ==
  /\ reader = "receiving"
  /\ Enqueue(Reader)
  /\ reader' = "answering"
  /\ UNCHANGED <<peer, command, admitted, aside, sender, flight, wire>>

Answered ==
  /\ reader = "answering" /\ ~Waits(Reader)
  /\ reader' = "receiving"
  /\ UNCHANGED <<peer, command, admitted, emitted, aside, delivered, output>>

Start(c) ==
  /\ reader = "receiving" /\ command[c] = "unborn"
  /\ command' = [command EXCEPT ![c] = "working"]
  /\ reader' = "admitting"
  /\ UNCHANGED <<peer, admitted, emitted, aside, delivered, output>>

(* Of the commands started, the last is the only one not yet admitted. *)
ReadOn ==
  /\ reader = "admitting"
  /\ \A c \in Command : command[c] # "unborn" => c \in admitted
  /\ reader' = "receiving"
  /\ UNCHANGED <<peer, command, admitted, emitted, aside, delivered, output>>

Cancelled == [c \in Command |-> IF command[c] = "working" THEN "unwinding" ELSE command[c]]

(* The finally block cancels every command task, and with it the future it   *)
(* waits for itself.                                                         *)
Close ==
  /\ command' = Cancelled
  /\ delivered' = [f \in Frame |->
       IF Waiting(f) /\ f \notin aside /\ (f[1] = Reader \/ Cancelled[f[1]] = "unwinding")
       THEN "cancelled" ELSE delivered[f]]
  /\ reader' = "closing"
  /\ UNCHANGED <<peer, admitted, emitted, aside, output>>

(* receive_json raises WebSocketDisconnect, or on a frame that is no JSON. *)
Disconnected == reader = "receiving" /\ ~peer /\ Close
BadFrame == reader = "receiving" /\ Close

(* The server shuts down: the handler's task is cancelled. *)
Shutdown == reader \in {"receiving", "answering", "admitting"} /\ Close

AllGathered_Sooner == TRUE

AllGathered == \A c \in Command : command[c] \in {"unborn", "done"}


Pill == IF sender = "finished" THEN <<>> ELSE <<Stop>>

(* Every command task has ended; then the None that stops the sender. *)
Gathered ==
  /\ reader = "closing"
  /\ AllGathered
  /\ queue' = queue \o Pill
  /\ reader' = "stopping"
  /\ UNCHANGED <<peer, command, admitted, emitted, aside, delivered, sender, flight, wire>>

Leave ==
  /\ reader = "stopping" /\ sender = "finished"
  /\ reader' = "done"
  /\ UNCHANGED <<peer, command, admitted, emitted, aside, delivered, output>>

PeerLeaves ==
  /\ peer
  /\ peer' = FALSE
  /\ UNCHANGED <<tasks, emitted, aside, delivered, output>>

-----------------------------------------------------------------------------

CommandNext(c) == Emit(c) \/ EmitAside(c) \/ Admit(c) \/ End(c)
SenderNext == Take \/ Sent \/ SendFails \/ SenderStops

(* What the reader does by itself, without a new frame or a shutdown. *)
ReaderProceeds == Answered \/ ReadOn \/ Disconnected \/ Gathered \/ Leave

Next ==
  \/ \E c \in Command : CommandNext(c) \/ DropAside(c) \/ Start(c)
  \/ SenderNext
  \/ ReaderProceeds \/ Answer \/ BadFrame \/ Shutdown
  \/ PeerLeaves

Spec == Init /\ [][Next]_vars

(* The event loop runs every task that can run; commands end by themselves, *)
(* their provider calls being bounded by timeouts, and one that unwinds     *)
(* cancels its feedback task; send_json to a peer that is gone returns or   *)
(* raises.                                                                  *)
FairSpec ==
  /\ Spec
  /\ \A c \in Command :
       WF_vars(CommandNext(c)) /\ WF_vars(command[c] = "unwinding" /\ DropAside(c))
  /\ WF_vars(SenderNext)
  /\ WF_vars(ReaderProceeds)

-----------------------------------------------------------------------------
(* Properties *)

(* A frame's waiter is never left without an answer, but for the one whose   *)
(* frame the socket was taking when it broke: between the look at            *)
(* sender_finished and the sender's clean-up no other frame slips through.   *)
OnlyFlightIsLost ==
  \A f \in Frame : Waiting(f) =>
    f \in flight \/ (f \in QueuedFrames /\ sender # "finished")

(* What a service is told about a frame is true, now and later: True only    *)
(* for one that is on the wire, False only for one that never gets there.    *)
OutcomesAreHonest ==
  \A f \in Frame :
    /\ delivered[f] = "true" => \E i \in DOMAIN wire : wire[i] = f
    /\ delivered[f] = "false" => \A i \in DOMAIN wire : wire[i] # f

(* The browser never sees a gap in what one command and its feedback task    *)
(* sent: a broken socket ends the stream, it does not lose a frame in the    *)
(* middle.                                                                   *)
NoGapOnTheWire ==
  \A i \in DOMAIN wire : wire[i][2] > 1 =>
    \E j \in 1..(i - 1) : wire[j] = <<wire[i][1], wire[i][2] - 1>>

(* When the handler has returned nothing of the connection goes on: no       *)
(* command runs, waits or was left cancelled half-way, and nothing is queued.*)
QuietWhenDone ==
  reader = "done" =>
    /\ \A c \in Command : command[c] \in {"unborn", "done"} /\ ~Unanswered(c)
    /\ sender = "finished" /\ queue = <<>>

(* The reader waits for the frame nobody will resolve, itself or through the *)
(* admission of a command that does.                                         *)
Stranded(w) ==
  sender = "finished" /\ \E f \in flight : f[1] = w /\ f \notin aside /\ Waiting(f)
ReaderIsStranded ==
  \/ reader = "answering" /\ Stranded(Reader)
  \/ reader = "admitting" /\ \E c \in Command \ admitted : Stranded(c)

==============================================================================
