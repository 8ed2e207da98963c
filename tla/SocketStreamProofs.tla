-------------------------- MODULE SocketStreamProofs --------------------------
(* Theorems about SocketStream, for any number of commands and frames.       *)
(*                                                                           *)
(* Every frame that was enqueued before the sender ended is in one of three  *)
(* places - on the wire, in flight, queued - and of one waiter the frames    *)
(* there are in the order in which it emitted them.                          *)
EXTENDS SocketStream, SequenceTheorems, FiniteSetTheorems, TLAPS

-----------------------------------------------------------------------------
(* The inductive invariant *)

(* No frame anywhere is younger than the last its waiter emitted. *)
Numbered ==
  /\ \A i \in DOMAIN wire : wire[i][2] <= emitted[wire[i][1]]
  /\ \A f \in flight \cup QueuedFrames : f[2] <= emitted[f[1]]

Before(f, g) == f[1] = g[1] => f[2] < g[2]

(* What is on the wire precedes what is in flight, and that what is queued. *)
InOrder ==
  /\ \A i \in DOMAIN wire : \A f \in flight \cup QueuedFrames : Before(wire[i], f)
  /\ \A f \in flight, g \in QueuedFrames : Before(f, g)
  /\ \A j \in DOMAIN queue : \A i \in 1..(j - 1) :
       queue[i] # Stop /\ queue[j] # Stop => Before(queue[i], queue[j])

OnWire(f) == \E i \in DOMAIN wire : wire[i] = f

(* While the sender runs no frame is lost. *)
NoneIsLost ==
  sender # "finished" =>
    \A w \in Waiter : \A n \in 1..emitted[w] :
      OnWire(<<w, n>>) \/ <<w, n>> \in flight \cup QueuedFrames

SenderIsSound ==
  /\ sender = "idle" => flight = {}
  /\ sender = "sending" => \E f \in Frame : flight = {f}
  /\ sender = "finished" => queue = <<>>
  /\ \A f \in Frame : delivered[f] = "false" => sender = "finished"

CommandsAreSound ==
  /\ \A c \in Command : command[c] \in {"unborn", "done"} => ~Unanswered(c)
  /\ reader \in {"stopping", "done"} => AllGathered
  /\ reader = "done" => sender = "finished"

OutputTypes ==
  /\ emitted \in [Waiter -> 0..MaxFrames]
  /\ delivered \in [Frame -> {"none", "pending", "true", "false", "cancelled"}]
  /\ queue \in Seq(Frame \cup {Stop})
  /\ sender \in {"idle", "sending", "finished"}
  /\ flight \subseteq Frame /\ Cardinality(flight) <= 1
  /\ wire \in Seq(Frame)

(* What holds of the frames. *)
StreamInv ==
  /\ OutputTypes
  /\ Numbered
  /\ InOrder
  /\ NoneIsLost
  /\ SenderIsSound
  /\ OnlyFlightIsLost
  /\ OutcomesAreHonest
  /\ NoGapOnTheWire

IInv == TypeOK /\ StreamInv /\ CommandsAreSound
-----------------------------------------------------------------------------
(* Frames and the queue *)

LEMMA FrameParts ==
  ASSUME NEW f \in Frame
  PROVE  f = <<f[1], f[2]>> /\ f[1] \in Waiter /\ f[2] \in 1..MaxFrames
BY DEF Frame

LEMMA StopIsNoFrame == Stop \notin Frame
<1> SUFFICES ASSUME Stop \in Frame PROVE FALSE
  OBVIOUS
<1>1. Stop = <<Stop[1], Stop[2]>>
  BY FrameParts
<1> QED BY <1>1 DEF Stop

LEMMA QueueParts ==
  ASSUME TypeOK
  PROVE  /\ Len(queue) \in Nat /\ DOMAIN queue = 1..Len(queue)
         /\ \A i \in DOMAIN queue : queue[i] \in Frame \cup {Stop}
         /\ \A i \in DOMAIN queue : queue[i] # Stop => queue[i] \in QueuedFrames
         /\ \A f \in QueuedFrames : f \in Frame /\ \E i \in DOMAIN queue : queue[i] = f
         /\ Stop \notin QueuedFrames
<1>1. queue \in Seq(Frame \cup {Stop})
  BY DEF TypeOK
<1>2. Len(queue) \in Nat /\ DOMAIN queue = 1..Len(queue)
  BY <1>1, LenProperties
<1>3. \A i \in DOMAIN queue : queue[i] \in Frame \cup {Stop}
  BY <1>1, <1>2, ElementOfSeq
<1> QED BY <1>2, <1>3 DEF QueuedFrames

LEMMA WireParts ==
  ASSUME TypeOK
  PROVE  /\ Len(wire) \in Nat /\ DOMAIN wire = 1..Len(wire)
         /\ \A i \in DOMAIN wire : wire[i] \in Frame
<1>1. wire \in Seq(Frame)
  BY DEF TypeOK
<1> QED BY <1>1, LenProperties, ElementOfSeq

LEMMA QueueAppends ==
  ASSUME TypeOK, NEW f \in Frame, queue' = Append(queue, f)
  PROVE  /\ queue' \in Seq(Frame \cup {Stop})
         /\ DOMAIN queue' = 1..(Len(queue) + 1)
         /\ \A i \in 1..Len(queue) : queue'[i] = queue[i]
         /\ queue'[Len(queue) + 1] = f
         /\ QueuedFrames' = QueuedFrames \cup {f}
<1>1. queue \in Seq(Frame \cup {Stop}) /\ f \in Frame \cup {Stop} /\ f # Stop
  BY StopIsNoFrame DEF TypeOK
<1>2. Len(queue) \in Nat /\ DOMAIN queue = 1..Len(queue)
  BY QueueParts
<1>3. /\ queue' \in Seq(Frame \cup {Stop})
      /\ DOMAIN queue' = 1..(Len(queue) + 1)
      /\ \A i \in 1..Len(queue) : queue'[i] = queue[i]
      /\ queue'[Len(queue) + 1] = f
  BY <1>1, <1>2, AppendProperties, LenProperties
<1>4. QueuedFrames' = {queue'[i] : i \in 1..(Len(queue) + 1)} \ {Stop}
  BY <1>3 DEF QueuedFrames
<1>5. {queue'[i] : i \in 1..(Len(queue) + 1)} = {queue[i] : i \in 1..Len(queue)} \cup {f}
  <2>1. 1..(Len(queue) + 1) = 1..Len(queue) \cup {Len(queue) + 1}
    BY <1>2
  <2> QED BY <2>1, <1>3
<1> QED BY <1>1, <1>2, <1>3, <1>4, <1>5 DEF QueuedFrames

LEMMA QueueShrinks ==
  ASSUME TypeOK, queue # <<>>, Head(queue) # Stop, queue' = Tail(queue)
  PROVE  /\ queue' \in Seq(Frame \cup {Stop})
         /\ 1 \in DOMAIN queue /\ Head(queue) = queue[1] /\ queue[1] \in Frame
         /\ \A i \in DOMAIN queue' : i + 1 \in DOMAIN queue /\ i \in Nat \ {0} /\ queue'[i] = queue[i + 1]
         /\ QueuedFrames = QueuedFrames' \cup {queue[1]}
<1>1. queue \in Seq(Frame \cup {Stop})
  BY DEF TypeOK
<1>2. /\ Len(queue) \in Nat /\ DOMAIN queue = 1..Len(queue)
      /\ \A i \in DOMAIN queue : queue[i] \in Frame \cup {Stop}
  BY QueueParts
<1>3. /\ Len(queue) # 0 /\ Head(queue) = queue[1]
      /\ queue' \in Seq(Frame \cup {Stop}) /\ Len(queue') = Len(queue) - 1
      /\ \A i \in 1..(Len(queue) - 1) : queue'[i] = queue[i + 1]
  BY <1>1, <1>2, HeadTailProperties, EmptySeq
<1>4. DOMAIN queue' = 1..(Len(queue) - 1)
  BY <1>3, LenProperties
<1>5. 1 \in DOMAIN queue /\ queue[1] \in Frame
  BY <1>2, <1>3
<1>6. \A i \in DOMAIN queue' : i + 1 \in DOMAIN queue /\ i \in Nat \ {0} /\ queue'[i] = queue[i + 1]
  BY <1>2, <1>3, <1>4
<1>7. QueuedFrames \subseteq QueuedFrames' \cup {queue[1]}
  <2> SUFFICES ASSUME NEW i \in DOMAIN queue, queue[i] # Stop, i # 1
               PROVE  queue[i] \in QueuedFrames'
    BY DEF QueuedFrames
  <2>1. i - 1 \in DOMAIN queue' /\ queue'[i - 1] = queue[i]
    BY <1>2, <1>3, <1>4
  <2> QED BY <2>1 DEF QueuedFrames
<1>8. QueuedFrames' \cup {queue[1]} \subseteq QueuedFrames
  <2>1. queue[1] \in QueuedFrames
    BY <1>5, StopIsNoFrame DEF QueuedFrames
  <2>2. ASSUME NEW i \in DOMAIN queue', queue'[i] # Stop PROVE queue'[i] \in QueuedFrames
    BY <2>2, <1>6 DEF QueuedFrames
  <2> QED BY <2>1, <2>2 DEF QueuedFrames
<1> QED BY <1>3, <1>5, <1>6, <1>7, <1>8

-----------------------------------------------------------------------------
(* enqueue *)

LEMMA EnqueueKeeps ==
  ASSUME TypeOK, StreamInv, NEW w \in Waiter, Enqueue(w), UNCHANGED <<sender, flight, wire>>
  PROVE  /\ StreamInv'
         /\ \A g \in Frame : g[1] # w => delivered'[g] = delivered[g]
<1> DEFINE n == emitted[w] + 1
           f == <<w, n>>
<1>1. /\ emitted[w] \in Nat /\ n \in 1..MaxFrames /\ f \in Frame /\ f # Stop
      /\ f[1] = w /\ f[2] = n
  <2>1. emitted[w] \in 0..MaxFrames /\ emitted[w] < MaxFrames
    BY DEF TypeOK, Enqueue
  <2>2. n \in 1..MaxFrames
    BY <2>1, BoundType
  <2> QED BY <2>1, <2>2, StopIsNoFrame DEF Frame
<1>2. /\ emitted' \in [Waiter -> 0..MaxFrames]
      /\ emitted'[w] = n /\ \A v \in Waiter \ {w} : emitted'[v] = emitted[v]
  BY <1>1, BoundType DEF TypeOK, Enqueue
<1>3. /\ delivered' \in [Frame -> {"none", "pending", "true", "false", "cancelled"}]
      /\ delivered'[f] = (IF sender = "finished" THEN "false" ELSE "pending")
      /\ \A g \in Frame \ {f} : delivered'[g] = delivered[g]
  BY <1>1 DEF TypeOK, Enqueue, Refuses
<1>4. \A v \in Waiter : emitted[v] \in Nat /\ emitted'[v] \in Nat /\ emitted[v] <= emitted'[v]
  <2>1. \A v \in Waiter : emitted[v] \in Nat
    BY BoundType DEF TypeOK
  <2>2. emitted[w] <= n /\ n \in Nat
    BY <1>1
  <2>3. \A v \in Waiter : emitted'[v] \in Nat /\ emitted[v] <= emitted'[v]
    BY <2>1, <2>2, <1>2
  <2> QED BY <2>1, <2>3
<1>5. /\ QueuedFrames \subseteq QueuedFrames' /\ QueuedFrames' \subseteq QueuedFrames \cup {f}
      /\ sender # "finished" => f \in QueuedFrames'
      /\ queue' \in Seq(Frame \cup {Stop})
      /\ sender = "finished" => queue' = queue
  <2>1. CASE sender = "finished"
    BY <2>1 DEF Enqueue, Refuses, TypeOK, QueuedFrames
  <2>2. CASE sender # "finished"
    BY <2>2, <1>1, QueueAppends DEF Enqueue, Refuses
  <2> QED BY <2>1, <2>2
<1>w. \A i \in DOMAIN wire : wire[i] \in Frame
  BY WireParts
<1>q. \A g \in flight \cup QueuedFrames : g \in Frame
  BY QueueParts DEF TypeOK
<1>6. OutputTypes'
  BY <1>2, <1>3, <1>5 DEF OutputTypes, StreamInv
<1>7. Numbered'
  <2>1. ASSUME NEW i \in DOMAIN wire PROVE wire[i][2] <= emitted'[wire[i][1]]
    <3>1. wire[i][1] \in Waiter /\ wire[i][2] \in Nat /\ wire[i][2] <= emitted[wire[i][1]]
      BY <1>w, FrameParts DEF StreamInv, Numbered
    <3> QED BY <3>1, <1>4
  <2>2. ASSUME NEW g \in flight \cup QueuedFrames PROVE g[2] <= emitted'[g[1]]
    <3>1. g[1] \in Waiter /\ g[2] \in Nat /\ g[2] <= emitted[g[1]]
      BY <1>q, FrameParts DEF StreamInv, Numbered
    <3> QED BY <3>1, <1>4
  <2>3. f[2] <= emitted'[f[1]]
    BY <1>1, <1>2
  <2> QED BY <2>1, <2>2, <2>3, <1>5 DEF Numbered
<1>8. InOrder'
  <2>1. ASSUME NEW g \in Frame, g[2] <= emitted[g[1]] PROVE Before(g, f)
    <3>1. g[2] \in Nat
      BY FrameParts
    <3> QED BY <2>1, <3>1, <1>1 DEF Before
  <2>2. \A i \in DOMAIN wire : \A g \in flight \cup QueuedFrames' : Before(wire[i], g)
    BY <2>1, <1>5, <1>w DEF StreamInv, InOrder, Numbered
  <2>3. \A g \in flight, h \in QueuedFrames' : Before(g, h)
    BY <2>1, <1>5, <1>q DEF StreamInv, InOrder, Numbered
  <2>4. \A j \in DOMAIN queue' : \A i \in 1..(j - 1) :
          queue'[i] # Stop /\ queue'[j] # Stop => Before(queue'[i], queue'[j])
    <3>1. CASE sender = "finished"
      BY <3>1, <1>5 DEF StreamInv, InOrder
    <3>2. CASE sender # "finished"
      <4>1. /\ DOMAIN queue' = 1..(Len(queue) + 1)
            /\ \A i \in 1..Len(queue) : queue'[i] = queue[i]
            /\ queue'[Len(queue) + 1] = f
        BY <3>2, <1>1, QueueAppends DEF Enqueue, Refuses
      <4>2. Len(queue) \in Nat /\ DOMAIN queue = 1..Len(queue)
            /\ \A i \in DOMAIN queue : queue[i] # Stop => queue[i] \in QueuedFrames
        BY QueueParts
      <4> SUFFICES ASSUME NEW j \in 1..(Len(queue) + 1), NEW i \in 1..(j - 1),
                          queue'[i] # Stop, queue'[j] # Stop
                   PROVE  Before(queue'[i], queue'[j])
        BY <4>1
      <4>3. i \in DOMAIN queue /\ queue'[i] = queue[i] /\ queue[i] \in QueuedFrames
        BY <4>1, <4>2
      <4>4. CASE j = Len(queue) + 1
        BY <4>1, <4>3, <4>4, <2>1, <1>q DEF StreamInv, Numbered
      <4>5. CASE j # Len(queue) + 1
        <5>1. j \in DOMAIN queue /\ queue'[j] = queue[j]
          BY <4>1, <4>2, <4>5
        <5> QED BY <4>3, <5>1 DEF StreamInv, InOrder
      <4> QED BY <4>4, <4>5
    <3> QED BY <3>1, <3>2
  <2> QED BY <2>2, <2>3, <2>4 DEF InOrder
<1>9. NoneIsLost'
  <2> SUFFICES ASSUME sender # "finished", NEW v \in Waiter, NEW k \in 1..emitted'[v]
               PROVE  OnWire(<<v, k>>)' \/ <<v, k>> \in flight \cup QueuedFrames'
    BY DEF NoneIsLost
  <2>1. CASE k \in 1..emitted[v]
    <3>1. OnWire(<<v, k>>) \/ <<v, k>> \in flight \cup QueuedFrames
      BY <2>1 DEF StreamInv, NoneIsLost
    <3> QED BY <3>1, <1>5 DEF OnWire
  <2>2. CASE k \notin 1..emitted[v]
    <3>1. v = w /\ k = n
      BY <2>2, <1>1, <1>2
    <3> QED BY <3>1, <1>5
  <2> QED BY <2>1, <2>2
<1>10. SenderIsSound'
  BY <1>3, <1>5 DEF StreamInv, SenderIsSound
<1>11. OnlyFlightIsLost'
  <2> SUFFICES ASSUME NEW g \in Frame, delivered'[g] = "pending"
               PROVE  g \in flight \/ (g \in QueuedFrames' /\ sender # "finished")
    BY DEF OnlyFlightIsLost, Waiting
  <2>1. CASE g = f
    BY <2>1, <1>3, <1>5
  <2>2. CASE g # f
    BY <2>2, <1>3, <1>5 DEF StreamInv, OnlyFlightIsLost, Waiting
  <2> QED BY <2>1, <2>2
<1>12. OutcomesAreHonest'
  <2> SUFFICES ASSUME NEW g \in Frame
               PROVE  /\ delivered'[g] = "true" => \E i \in DOMAIN wire : wire[i] = g
                      /\ delivered'[g] = "false" => \A i \in DOMAIN wire : wire[i] # g
    BY DEF OutcomesAreHonest
  <2>1. CASE g = f
    <3>1. ASSUME NEW i \in DOMAIN wire, wire[i] = f PROVE FALSE
      <4>1. wire[i][2] <= emitted[wire[i][1]]
        BY DEF StreamInv, Numbered
      <4> QED BY <4>1, <3>1, <1>1
    <3> QED BY <2>1, <3>1, <1>3
  <2>2. CASE g # f
    BY <2>2, <1>3 DEF StreamInv, OutcomesAreHonest
  <2> QED BY <2>1, <2>2
<1>13. NoGapOnTheWire'
  BY DEF StreamInv, NoGapOnTheWire
<1> QED BY <1>1, <1>3, <1>6, <1>7, <1>8, <1>9, <1>10, <1>11, <1>12, <1>13 DEF StreamInv

-----------------------------------------------------------------------------
(* send_loop *)

(* What the sender resolves: only futures that were pending. *)
LEMMA ResolvedDoes ==
  ASSUME TypeOK, NEW frames, NEW result \in {"true", "false"},
         delivered' = Resolved(frames, result)
  PROVE  /\ delivered' \in [Frame -> {"none", "pending", "true", "false", "cancelled"}]
        /\ \A f \in Frame :
              \/ Waiting(f) /\ f \in frames /\ delivered'[f] = result
              \/ ~(Waiting(f) /\ f \in frames) /\ delivered'[f] = delivered[f]
<1> DEFINE r(f) == IF Waiting(f) /\ f \in frames THEN result ELSE delivered[f]
<1>1. delivered' = [f \in Frame |-> r(f)]
  BY DEF Resolved
<1>2. \A f \in Frame : r(f) \in {"none", "pending", "true", "false", "cancelled"}
  BY DEF TypeOK
<1>3. \A f \in Frame :
         \/ Waiting(f) /\ f \in frames /\ r(f) = result
         \/ ~(Waiting(f) /\ f \in frames) /\ r(f) = delivered[f]
  OBVIOUS
<1> HIDE DEF r
<1> QED BY <1>1, <1>2, <1>3

LEMMA TakeKeeps ==
  ASSUME TypeOK, StreamInv, Take
  PROVE  StreamInv'
<1> DEFINE f == queue[1]
<1>1. /\ sender = "idle" /\ sender' = "sending" /\ flight = {} /\ flight' = {f}
      /\ UNCHANGED <<emitted, delivered, wire>>
      /\ queue' \in Seq(Frame \cup {Stop})
      /\ 1 \in DOMAIN queue /\ f \in Frame /\ f # Stop
      /\ \A i \in DOMAIN queue' : i + 1 \in DOMAIN queue /\ i \in Nat \ {0} /\ queue'[i] = queue[i + 1]
      /\ QueuedFrames = QueuedFrames' \cup {f}
  BY QueueShrinks, StopIsNoFrame DEF Take, HasFrame, StreamInv, SenderIsSound
<1>2. flight' \cup QueuedFrames' = flight \cup QueuedFrames
  BY <1>1
<1>3. OutputTypes'
  <2>1. Cardinality({f}) = 1
    BY FS_Singleton
  <2> QED BY <1>1, <2>1 DEF OutputTypes, StreamInv
<1>4. Numbered'
  BY <1>1, <1>2 DEF StreamInv, Numbered
<1>5. InOrder'
  <2>1. \A i \in DOMAIN wire' : \A g \in flight' \cup QueuedFrames' : Before(wire'[i], g)
    BY <1>1, <1>2 DEF StreamInv, InOrder
  <2>2. ASSUME NEW i \in DOMAIN queue', NEW j \in DOMAIN queue', i < j,
               queue'[i] # Stop, queue'[j] # Stop
        PROVE  Before(queue'[i], queue'[j])
    <3>1. i + 1 \in DOMAIN queue /\ j + 1 \in DOMAIN queue /\ i + 1 \in 1..((j + 1) - 1)
      BY <1>1, <2>2
    <3> QED BY <3>1, <2>2, <1>1 DEF StreamInv, InOrder
  <2>3. ASSUME NEW j \in DOMAIN queue', queue'[j] # Stop PROVE Before(f, queue'[j])
    <3>1. j + 1 \in DOMAIN queue /\ 1 \in 1..((j + 1) - 1)
      BY <1>1
    <3> QED BY <3>1, <2>3, <1>1 DEF StreamInv, InOrder
  <2>4. \A g \in flight', h \in QueuedFrames' : Before(g, h)
    BY <2>3, <1>1 DEF QueuedFrames
  <2>5. \A j \in DOMAIN queue' : \A i \in 1..(j - 1) :
          queue'[i] # Stop /\ queue'[j] # Stop => Before(queue'[i], queue'[j])
    <3> SUFFICES ASSUME NEW j \in DOMAIN queue', NEW i \in 1..(j - 1),
                        queue'[i] # Stop, queue'[j] # Stop
                 PROVE  Before(queue'[i], queue'[j])
      OBVIOUS
    <3>1. DOMAIN queue' = 1..Len(queue') /\ Len(queue') \in Nat
      BY <1>1, LenProperties
    <3>2. i \in DOMAIN queue' /\ i < j
      BY <3>1
    <3> QED BY <3>2, <2>2
  <2> QED BY <2>1, <2>4, <2>5 DEF InOrder
<1>6. NoneIsLost'
  BY <1>1, <1>2 DEF StreamInv, NoneIsLost, OnWire
<1>7. SenderIsSound'
  BY <1>1 DEF StreamInv, SenderIsSound
<1>8. OnlyFlightIsLost'
  BY <1>1 DEF StreamInv, OnlyFlightIsLost, Waiting
<1>9. OutcomesAreHonest' /\ NoGapOnTheWire'
  BY <1>1 DEF StreamInv, OutcomesAreHonest, NoGapOnTheWire
<1> QED BY <1>3, <1>4, <1>5, <1>6, <1>7, <1>8, <1>9 DEF StreamInv

LEMMA SentKeeps ==
  ASSUME TypeOK, StreamInv, Sent
  PROVE  StreamInv'
<1>1. PICK f \in Frame : flight = {f}
  BY DEF Sent, StreamInv, SenderIsSound
<1> DEFINE m == Len(wire) + 1
<1>2. /\ sender = "sending" /\ sender' = "idle" /\ flight' = {}
      /\ UNCHANGED <<emitted, queue>> /\ QueuedFrames' = QueuedFrames
      /\ wire' = Append(wire, f) /\ delivered' = Resolved({f}, "true")
  BY <1>1 DEF Sent, QueuedFrames
<1>3. /\ wire' \in Seq(Frame) /\ Len(wire) \in Nat /\ m \in Nat
      /\ DOMAIN wire = 1..Len(wire) /\ DOMAIN wire' = 1..m
      /\ \A i \in 1..Len(wire) : wire'[i] = wire[i]
      /\ wire'[m] = f
  BY <1>2, AppendProperties, LenProperties DEF TypeOK
<1>4. /\ delivered' \in [Frame -> {"none", "pending", "true", "false", "cancelled"}]
      /\ \A g \in Frame :
           \/ Waiting(g) /\ g = f /\ delivered'[g] = "true"
           \/ ~(Waiting(g) /\ g = f) /\ delivered'[g] = delivered[g]
  <2>1. delivered' = Resolved({f}, "true") /\ "true" \in {"true", "false"}
    BY <1>2
  <2>2. /\ delivered' \in [Frame -> {"none", "pending", "true", "false", "cancelled"}]
        /\ \A g \in Frame :
             \/ Waiting(g) /\ g \in {f} /\ delivered'[g] = "true"
             \/ ~(Waiting(g) /\ g \in {f}) /\ delivered'[g] = delivered[g]
    BY <2>1, ResolvedDoes
  <2> QED BY <2>2
<1>f. f = <<f[1], f[2]>> /\ f[1] \in Waiter /\ f[2] \in 1..MaxFrames /\ f[2] \in Nat
  BY FrameParts, BoundType
<1>c. \A i \in DOMAIN wire' : wire'[i] = f \/ (i \in DOMAIN wire /\ wire'[i] = wire[i])
  BY <1>3
<1>5. OutputTypes'
  <2>1. Cardinality(flight') <= 1
    BY <1>2, FS_EmptySet
  <2> QED BY <1>2, <1>3, <1>4, <2>1 DEF OutputTypes, StreamInv
<1>6. Numbered'
  BY <1>1, <1>2, <1>c DEF StreamInv, Numbered
<1>7. InOrder'
  BY <1>1, <1>2, <1>c DEF StreamInv, InOrder
<1>8. NoneIsLost'
  <2> SUFFICES ASSUME NEW v \in Waiter, NEW k \in 1..emitted[v]
               PROVE  OnWire(<<v, k>>)' \/ <<v, k>> \in QueuedFrames
    BY <1>2 DEF NoneIsLost
  <2>1. OnWire(<<v, k>>) \/ <<v, k>> = f \/ <<v, k>> \in QueuedFrames
    BY <1>1, <1>2 DEF StreamInv, NoneIsLost
  <2>2. m \in DOMAIN wire' /\ \A i \in DOMAIN wire : i \in DOMAIN wire' /\ wire'[i] = wire[i]
    BY <1>3
  <2> QED BY <2>1, <2>2, <1>3 DEF OnWire
<1>9. SenderIsSound'
  BY <1>2, <1>4 DEF StreamInv, SenderIsSound
<1>10. OnlyFlightIsLost'
  BY <1>1, <1>2, <1>4 DEF StreamInv, OnlyFlightIsLost, Waiting
<1>11. OutcomesAreHonest'
  <2> SUFFICES ASSUME NEW g \in Frame
               PROVE  /\ delivered'[g] = "true" => \E i \in DOMAIN wire' : wire'[i] = g
                      /\ delivered'[g] = "false" => \A i \in DOMAIN wire' : wire'[i] # g
    BY DEF OutcomesAreHonest
  <2>1. delivered'[g] # "false"
    BY <1>2, <1>4 DEF StreamInv, SenderIsSound
  <2>2. m \in DOMAIN wire' /\ \A i \in DOMAIN wire : i \in DOMAIN wire' /\ wire'[i] = wire[i]
    BY <1>3
  <2> QED BY <2>1, <2>2, <1>3, <1>4 DEF StreamInv, OutcomesAreHonest
<1>12. NoGapOnTheWire'
  <2> SUFFICES ASSUME NEW i \in 1..m, wire'[i][2] > 1
               PROVE  \E j \in 1..(i - 1) : wire'[j] = <<wire'[i][1], wire'[i][2] - 1>>
    BY <1>3 DEF NoGapOnTheWire
  <2>1. CASE i \in 1..Len(wire)
    <3>1. PICK j \in 1..(i - 1) : wire[j] = <<wire[i][1], wire[i][2] - 1>>
      BY <2>1, <1>3 DEF StreamInv, NoGapOnTheWire
    <3>2. j \in 1..Len(wire)
      BY <2>1, <1>3
    <3> QED BY <3>1, <3>2, <2>1, <1>3
  <2>2. CASE i = m
    <3> DEFINE p == <<f[1], f[2] - 1>>
    <3>0. f[2] > 1 /\ wire'[i] = f
      BY <2>2, <1>3
    <3>1. f[2] - 1 \in 1..emitted[f[1]]
      <4>1. f[2] <= emitted[f[1]] /\ emitted[f[1]] \in Nat
        BY <1>1, <1>f, BoundType DEF StreamInv, Numbered, TypeOK
      <4> QED BY <3>0, <4>1, <1>f
    <3>2. OnWire(p) \/ p = f \/ p \in QueuedFrames
      BY <3>1, <1>1, <1>2, <1>f DEF StreamInv, NoneIsLost
    <3>3. p # f /\ p[1] = f[1] /\ p[2] = f[2] - 1
      BY <1>f
    <3>4. p \notin QueuedFrames
      BY <3>3, <1>1, <1>f DEF StreamInv, InOrder, Before
    <3>5. PICK j \in DOMAIN wire : wire[j] = p
      BY <3>2, <3>3, <3>4 DEF OnWire
    <3>6. j \in 1..(i - 1) /\ wire'[j] = p
      BY <3>5, <2>2, <1>3
    <3> QED BY <3>6, <3>0
  <2> QED BY <2>1, <2>2, <1>3
<1> QED BY <1>5, <1>6, <1>7, <1>8, <1>9, <1>10, <1>11, <1>12 DEF StreamInv

(* The sender ends: what is queued gets False, the frame in flight nothing.  *)
LEMMA SenderEndKeeps ==
  ASSUME TypeOK, StreamInv, sender # "finished",
         delivered' = Drained, queue' = <<>>, sender' = "finished",
         UNCHANGED <<emitted, flight, wire>>
  PROVE  StreamInv'
<1>1. /\ delivered' \in [Frame -> {"none", "pending", "true", "false", "cancelled"}]
      /\ \A f \in Frame :
           \/ Waiting(f) /\ f \in QueuedFrames /\ delivered'[f] = "false"
           \/ ~(Waiting(f) /\ f \in QueuedFrames) /\ delivered'[f] = delivered[f]
  <2>1. delivered' = Resolved(QueuedFrames, "false") /\ "false" \in {"true", "false"}
    BY DEF Drained
  <2> HIDE DEF QueuedFrames
  <2> QED BY <2>1, ResolvedDoes
<1>2. QueuedFrames' = {} /\ DOMAIN queue' = {} /\ queue' \in Seq(Frame \cup {Stop})
  BY EmptySeq DEF QueuedFrames
<1>3. OutputTypes'
  BY <1>1, <1>2 DEF OutputTypes, StreamInv
<1>4. Numbered' /\ NoneIsLost' /\ NoGapOnTheWire'
  BY <1>2 DEF StreamInv, Numbered, NoneIsLost, NoGapOnTheWire
<1>5. InOrder'
  BY <1>2 DEF StreamInv, InOrder
<1>6. SenderIsSound'
  BY <1>1 DEF StreamInv, SenderIsSound
<1>7. OnlyFlightIsLost'
  BY <1>1, <1>2 DEF StreamInv, OnlyFlightIsLost, Waiting
<1>8. OutcomesAreHonest'
  <2> SUFFICES ASSUME NEW f \in Frame
               PROVE  /\ delivered'[f] = "true" => \E i \in DOMAIN wire : wire[i] = f
                      /\ delivered'[f] = "false" => \A i \in DOMAIN wire : wire[i] # f
    BY DEF OutcomesAreHonest
  <2>1. CASE f \in QueuedFrames /\ delivered'[f] = "false"
    <3>1. ASSUME NEW i \in DOMAIN wire, wire[i] = f PROVE FALSE
      <4>1. Before(wire[i], f)
        BY <2>1 DEF StreamInv, InOrder
      <4>2. f[2] \in Nat
        BY FrameParts
      <4> QED BY <3>1, <4>1, <4>2 DEF Before
    <3> QED BY <2>1, <3>1
  <2>2. CASE delivered'[f] = delivered[f]
    BY <2>2 DEF StreamInv, OutcomesAreHonest
  <2> QED BY <2>1, <2>2, <1>1
<1> QED BY <1>3, <1>4, <1>5, <1>6, <1>7, <1>8 DEF StreamInv

(* Futures that are cancelled make no difference to what is known.           *)
LEMMA CancelKeeps ==
  ASSUME TypeOK, StreamInv, UNCHANGED <<emitted, output>>,
         delivered' \in [Frame -> {"none", "pending", "true", "false", "cancelled"}],
         \A f \in Frame : delivered'[f] \in {delivered[f], "cancelled"}
  PROVE  StreamInv'
<1>1. OutputTypes'
  BY DEF OutputTypes, StreamInv, output
<1>2. QueuedFrames' = QueuedFrames
  BY DEF QueuedFrames, output
<1>3. Numbered' /\ InOrder' /\ NoneIsLost' /\ NoGapOnTheWire'
  BY <1>2 DEF StreamInv, Numbered, InOrder, NoneIsLost, NoGapOnTheWire, OnWire, output
<1>4. SenderIsSound'
  BY DEF StreamInv, SenderIsSound, output
<1>5. OnlyFlightIsLost'
  BY <1>2 DEF StreamInv, OnlyFlightIsLost, Waiting, output
<1>6. OutcomesAreHonest'
  BY DEF StreamInv, OutcomesAreHonest, output
<1> QED BY <1>1, <1>3, <1>4, <1>5, <1>6 DEF StreamInv

(* The None behind the frames makes no difference either.                    *)
LEMMA PillKeeps ==
  ASSUME TypeOK, StreamInv, queue' = queue \o Pill,
         UNCHANGED <<emitted, delivered, sender, flight, wire>>
  PROVE  StreamInv'
<1>1. CASE sender = "finished"
  <2>1. queue \in Seq(Frame \cup {Stop}) /\ queue' = queue \o <<>>
    BY <1>1 DEF Pill, TypeOK
  <2>2. queue' = queue
    BY <2>1, ConcatEmptySeq
  <2> QED BY <2>2, CancelKeeps DEF output, TypeOK
<1>2. CASE sender # "finished"
  <2> DEFINE n == Len(queue)
  <2>1. queue \in Seq(Frame \cup {Stop}) /\ <<Stop>> \in Seq(Frame \cup {Stop})
        /\ Len(<<Stop>>) = 1 /\ <<Stop>>[1] = Stop /\ queue' = queue \o <<Stop>>
    BY <1>2 DEF Pill, TypeOK
  <2>2. n \in Nat /\ DOMAIN queue = 1..n
    BY QueueParts
  <2>3. /\ queue' \in Seq(Frame \cup {Stop}) /\ Len(queue') = n + 1
        /\ \A i \in 1..(n + 1) : queue'[i] = IF i <= n THEN queue[i] ELSE <<Stop>>[i - n]
    BY <2>1, ConcatProperties
  <2>4. DOMAIN queue' = 1..(n + 1)
    BY <2>3, LenProperties
  <2>5. /\ \A i \in 1..n : queue'[i] = queue[i]
        /\ queue'[n + 1] = Stop
    BY <2>1, <2>2, <2>3
  <2>6. QueuedFrames' = QueuedFrames
    <3>1. 1..(n + 1) = 1..n \cup {n + 1}
      BY <2>2
    <3>2. {queue'[i] : i \in 1..(n + 1)} = {queue[i] : i \in 1..n} \cup {Stop}
      BY <2>5, <3>1
    <3> QED BY <2>2, <2>4, <3>2 DEF QueuedFrames
  <2>7. OutputTypes'
    BY <2>3 DEF OutputTypes, StreamInv
  <2>8. Numbered' /\ NoneIsLost' /\ NoGapOnTheWire' /\ OnlyFlightIsLost' /\ OutcomesAreHonest'
    BY <2>6 DEF StreamInv, Numbered, NoneIsLost, NoGapOnTheWire, OnlyFlightIsLost,
                OutcomesAreHonest, OnWire, Waiting
  <2>9. SenderIsSound'
    BY <1>2 DEF StreamInv, SenderIsSound
  <2>10. InOrder'
    <3>1. \A j \in DOMAIN queue' : \A i \in 1..(j - 1) :
            queue'[i] # Stop /\ queue'[j] # Stop => Before(queue'[i], queue'[j])
      <4> SUFFICES ASSUME NEW j \in 1..(n + 1), NEW i \in 1..(j - 1), queue'[j] # Stop,
                          queue'[i] # Stop
                   PROVE  Before(queue'[i], queue'[j])
        BY <2>4
      <4>0. j # n + 1
        BY <2>5
      <4>1. j \in 1..n /\ i \in 1..n
        BY <4>0, <2>2
      <4>2. j \in DOMAIN queue /\ queue'[j] = queue[j] /\ queue'[i] = queue[i]
        BY <4>1, <2>2, <2>5
      <4> QED BY <4>2 DEF StreamInv, InOrder
    <3> QED BY <3>1, <2>6 DEF StreamInv, InOrder
  <2> QED BY <2>7, <2>8, <2>9, <2>10 DEF StreamInv
<1> QED BY <1>1, <1>2

-----------------------------------------------------------------------------
(* The steps *)

LEMMA StreamInit == Init => StreamInv
<1> SUFFICES ASSUME Init PROVE StreamInv
  OBVIOUS
<1>1. /\ queue = <<>> /\ wire = <<>> /\ flight = {} /\ sender = "idle"
      /\ DOMAIN queue = {} /\ DOMAIN wire = {} /\ QueuedFrames = {}
      /\ \A w \in Waiter : emitted[w] = 0
      /\ \A f \in Frame : delivered[f] = "none"
  BY DEF Init, QueuedFrames
<1>2. Cardinality(flight) <= 1
  BY <1>1, FS_EmptySet
<1>3. OutputTypes
  BY <1>1, <1>2, EmptySeq, BoundType DEF OutputTypes, Init
<1>4. Numbered /\ InOrder /\ NoneIsLost /\ SenderIsSound
  BY <1>1 DEF Numbered, InOrder, NoneIsLost, SenderIsSound
<1>5. OnlyFlightIsLost /\ OutcomesAreHonest /\ NoGapOnTheWire
  BY <1>1 DEF OnlyFlightIsLost, OutcomesAreHonest, NoGapOnTheWire, Waiting
<1> QED BY <1>3, <1>4, <1>5 DEF StreamInv

LEMMA StreamStep ==
  ASSUME TypeOK, StreamInv, [Next]_vars
  PROVE  /\ StreamInv'
         /\ sender = "finished" => sender' = "finished"
         /\ \A c \in Command : Unanswered(c)' => Unanswered(c) \/ Emit(c) \/ EmitAside(c)
<1> USE DEF Unanswered, Waiting
<1>1. ASSUME NEW c \in Command, Emit(c) \/ EmitAside(c)
      PROVE  /\ StreamInv' /\ sender' = sender
             /\ \A b \in Command \ {c} : Unanswered(b)' => Unanswered(b)
  <2>1. c \in Waiter /\ Enqueue(c) /\ UNCHANGED <<sender, flight, wire>>
    BY <1>1 DEF Emit, EmitAside, Waiter
  <2>2. /\ StreamInv'
        /\ \A g \in Frame : g[1] # c => delivered'[g] = delivered[g]
    BY <2>1, EnqueueKeeps
  <2> QED BY <2>1, <2>2
<1>2. CASE Answer
  <2>1. Reader \in Waiter /\ Enqueue(Reader) /\ UNCHANGED <<sender, flight, wire>>
    BY <1>2 DEF Answer, Waiter
  <2>2. /\ StreamInv' /\ sender' = sender
        /\ \A g \in Frame : g[1] # Reader => delivered'[g] = delivered[g]
    BY <2>1, EnqueueKeeps
  <2> QED BY <2>2, ReaderIsNew
<1>3. CASE Take
  BY <1>3, TakeKeeps DEF Take
<1>4. CASE Sent
  <2>1. \A c \in Command : Unanswered(c)' => Unanswered(c)
    <3>1. delivered' = Resolved(flight, "true") /\ "true" \in {"true", "false"}
      BY <1>4 DEF Sent
    <3>2. \A f \in Frame : delivered'[f] = "true" \/ delivered'[f] = delivered[f]
      BY <3>1, ResolvedDoes
    <3> QED BY <3>2
  <2> QED BY <1>4, <2>1, SentKeeps DEF Sent
<1>5. CASE SendFails \/ SenderStops
  <2>1. /\ sender # "finished" /\ delivered' = Drained /\ queue' = <<>> /\ sender' = "finished"
        /\ UNCHANGED <<emitted, flight, wire>>
    BY <1>5 DEF SendFails, SenderStops, AfterFailure
  <2>2. \A c \in Command : Unanswered(c)' => Unanswered(c)
    <3>1. delivered' = Resolved(QueuedFrames, "false") /\ "false" \in {"true", "false"}
      BY <2>1 DEF Drained
    <3>2. \A f \in Frame : delivered'[f] = "false" \/ delivered'[f] = delivered[f]
      BY <3>1, ResolvedDoes
    <3> QED BY <3>2
  <2> QED BY <2>1, <2>2, SenderEndKeeps
<1>6. ASSUME (\E c \in Command : DropAside(c)) \/ Disconnected \/ BadFrame \/ Shutdown
      PROVE  /\ StreamInv' /\ sender' = sender
             /\ \A c \in Command : Unanswered(c)' => Unanswered(c)
  <2>1. /\ UNCHANGED <<emitted, output>>
        /\ delivered' \in [Frame -> {"none", "pending", "true", "false", "cancelled"}]
        /\ \A f \in Frame : delivered'[f] \in {delivered[f], "cancelled"}
    <3>1. ASSUME NEW c \in Command, DropAside(c)
          PROVE  /\ UNCHANGED <<emitted, output>>
                 /\ delivered' \in [Frame -> {"none", "pending", "true", "false", "cancelled"}]
                 /\ \A f \in Frame : delivered'[f] \in {delivered[f], "cancelled"}
      <4> DEFINE r(f) == IF f[1] = c /\ Waiting(f) THEN "cancelled" ELSE delivered[f]
      <4>1. UNCHANGED <<emitted, output>> /\ delivered' = [f \in Frame |-> r(f)]
        BY <3>1 DEF DropAside
      <4>2. \A f \in Frame : /\ r(f) \in {delivered[f], "cancelled"}
                              /\ r(f) \in {"none", "pending", "true", "false", "cancelled"}
        BY DEF TypeOK
      <4> HIDE DEF r
      <4> QED BY <4>1, <4>2
    <3>2. ASSUME Disconnected \/ BadFrame \/ Shutdown
          PROVE  /\ UNCHANGED <<emitted, output>>
                 /\ delivered' \in [Frame -> {"none", "pending", "true", "false", "cancelled"}]
                 /\ \A f \in Frame : delivered'[f] \in {delivered[f], "cancelled"}
      <4> DEFINE r(f) == IF Waiting(f) /\ f \notin aside
                              /\ (f[1] = Reader \/ Cancelled[f[1]] = "unwinding")
                         THEN "cancelled" ELSE delivered[f]
      <4>1. UNCHANGED <<emitted, output>> /\ delivered' = [f \in Frame |-> r(f)]
        BY <3>2 DEF Disconnected, BadFrame, Shutdown, Close
      <4>2. \A f \in Frame : /\ r(f) \in {delivered[f], "cancelled"}
                              /\ r(f) \in {"none", "pending", "true", "false", "cancelled"}
        BY DEF TypeOK
      <4> HIDE DEF r
      <4> QED BY <4>1, <4>2
    <3> QED BY <1>6, <3>1, <3>2
  <2> QED BY <2>1, CancelKeeps DEF output
<1>7. CASE Gathered
  BY <1>7, PillKeeps DEF Gathered
<1>8. CASE UNCHANGED <<emitted, delivered, output>>
  <2>1. StreamInv'
    BY <1>8, CancelKeeps DEF TypeOK
  <2> QED BY <1>8, <2>1 DEF output
<1> QED
  BY <1>1, <1>2, <1>3, <1>4, <1>5, <1>6, <1>7, <1>8
     DEF Next, CommandNext, SenderNext, ReaderProceeds, Admit, End, Answered, Start, ReadOn,
         Leave, PeerLeaves, vars, tasks, output

-----------------------------------------------------------------------------
(* The tasks *)

LEMMA TypeStep ==
  ASSUME TypeOK, StreamInv, [Next]_vars
  PROVE  TypeOK'
<1>1. OutputTypes'
  BY StreamStep DEF StreamInv
<1>2. peer' \in BOOLEAN
  BY DEF TypeOK, Next, CommandNext, Emit, EmitAside, DropAside, Admit, End, Start, SenderNext, Take, Sent, SendFails,
         SenderStops, ReaderProceeds, Answered, ReadOn, Disconnected, Close, Gathered, Leave,
         Answer, BadFrame, Shutdown, PeerLeaves, vars
<1>3. reader' \in {"receiving", "answering", "admitting", "closing", "stopping", "done"}
  BY DEF TypeOK, Next, CommandNext, Emit, EmitAside, DropAside, Admit, End, Start, SenderNext, Take, Sent, SendFails,
         SenderStops, ReaderProceeds, Answered, ReadOn, Disconnected, Close, Gathered, Leave,
         Answer, BadFrame, Shutdown, PeerLeaves, vars, tasks
<1>4. command' \in [Command -> {"unborn", "working", "unwinding", "done"}] /\ admitted' \subseteq Command
  <2>1. ASSUME NEW c \in Command, Admit(c) \/ End(c) \/ Start(c)
        PROVE  command' \in [Command -> {"unborn", "working", "unwinding", "done"}] /\ admitted' \subseteq Command
    BY <2>1 DEF TypeOK, Admit, End, Start
  <2>2. CASE Disconnected \/ BadFrame \/ Shutdown
    BY <2>2 DEF TypeOK, Disconnected, BadFrame, Shutdown, Close, Cancelled
  <2>3. CASE UNCHANGED <<command, admitted>>
    BY <2>3 DEF TypeOK
  <2> QED
    BY <2>1, <2>2, <2>3
       DEF Next, CommandNext, Emit, EmitAside, DropAside, SenderNext, Take, Sent, SendFails, SenderStops,
           ReaderProceeds, Answered, ReadOn, Gathered, Leave, Answer, PeerLeaves, vars, tasks
<1>5. aside' \subseteq Frame
  <2>1. ASSUME NEW c \in Command, EmitAside(c) PROVE aside' \subseteq Frame
    <3>1. c \in Waiter /\ emitted[c] \in 0..MaxFrames /\ emitted[c] < MaxFrames
      BY <2>1 DEF EmitAside, Enqueue, TypeOK, Waiter
    <3>2. <<c, emitted[c] + 1>> \in Frame
      BY <3>1, BoundType DEF Frame
    <3> QED BY <2>1, <3>2 DEF EmitAside, TypeOK
  <2>2. CASE UNCHANGED aside
    BY <2>2 DEF TypeOK
  <2> QED
    BY <2>1, <2>2
       DEF Next, CommandNext, Emit, DropAside, Admit, End, Start, SenderNext, Take, Sent, SendFails,
           SenderStops, ReaderProceeds, Answered, ReadOn, Disconnected, Close, Gathered, Leave,
           Answer, BadFrame, Shutdown, PeerLeaves, vars
<1> QED BY <1>1, <1>2, <1>3, <1>4, <1>5 DEF TypeOK, OutputTypes

(* Only a running command waits, and once the tasks are gathered none runs:  *)
(* a command starts only while the reader receives.                          *)
LEMMA CommandsStep ==
  ASSUME TypeOK, StreamInv, CommandsAreSound, [Next]_vars
  PROVE  CommandsAreSound'
<1>s. /\ sender = "finished" => sender' = "finished"
      /\ \A c \in Command : Unanswered(c)' => Unanswered(c) \/ Emit(c) \/ EmitAside(c)
  BY StreamStep
<1>t. \A c \in Command : command[c] \in {"unborn", "working", "unwinding", "done"}
  BY DEF TypeOK
<1>1. ASSUME NEW c \in Command, command'[c] \in {"unborn", "done"}
      PROVE  ~Unanswered(c)'
  <2>1. ~Emit(c) /\ ~EmitAside(c)
    BY <1>1 DEF Emit, EmitAside, tasks
  <2>2. CASE command[c] \in {"unborn", "done"}
    BY <2>1, <2>2, <1>s DEF CommandsAreSound
  <2>3. CASE command[c] \notin {"unborn", "done"}
    <3>1. End(c)
      <4>1. ASSUME NEW b \in Command, Start(b) \/ (End(b) /\ b # c) PROVE command'[c] = command[c]
        BY <4>1, <2>3 DEF Start, End, TypeOK
      <4>2. CASE Disconnected \/ BadFrame \/ Shutdown
        BY <4>2, <1>1, <2>3 DEF Disconnected, BadFrame, Shutdown, Close, Cancelled
      <4> QED
        BY <4>1, <4>2, <1>1, <2>3
           DEF Next, CommandNext, Emit, EmitAside, DropAside, Admit, SenderNext, Take, Sent, SendFails, SenderStops,
               ReaderProceeds, Answered, ReadOn, Gathered, Leave, Answer, PeerLeaves, vars, tasks
    <3> QED BY <3>1, <2>1, <1>s DEF End
  <2> QED BY <2>2, <2>3
<1>2. ASSUME reader' \in {"stopping", "done"} PROVE AllGathered'
  <2>1. AllGathered /\ ~(\E c \in Command : Start(c) \/ Emit(c) \/ EmitAside(c))
    BY <1>2 DEF CommandsAreSound, AllGathered, Start, Emit, EmitAside, DropAside, Next, CommandNext, Admit, End, SenderNext,
                Take, Sent, SendFails, SenderStops, ReaderProceeds, Answered, ReadOn, Disconnected,
                Close, Gathered, Leave, Answer, BadFrame, Shutdown, PeerLeaves, vars, tasks
  <2>2. ASSUME NEW c \in Command, End(c) PROVE FALSE
    BY <2>1, <2>2 DEF End, AllGathered
  <2>3. command' = command
    BY <1>2, <2>1, <2>2
       DEF Next, CommandNext, DropAside, Admit, SenderNext, Take, Sent, SendFails, SenderStops,
           ReaderProceeds, Answered, ReadOn, Disconnected, Close, Gathered, Leave, Answer, BadFrame,
           Shutdown, PeerLeaves, vars, tasks
  <2> QED BY <2>1, <2>3 DEF AllGathered
<1>3. ASSUME reader' = "done" PROVE sender' = "finished"
  <2>1. CASE reader = "done"
    BY <2>1, <1>s DEF CommandsAreSound
  <2>2. CASE reader # "done"
    <3>1. Leave
      BY <1>3, <2>2
         DEF Next, CommandNext, Emit, EmitAside, DropAside, Admit, End, Start, SenderNext, Take, Sent, SendFails,
             SenderStops, ReaderProceeds, Answered, ReadOn, Disconnected, Close, Gathered, Answer,
             BadFrame, Shutdown, PeerLeaves, vars, tasks
    <3> QED BY <3>1, <1>s DEF Leave
  <2> QED BY <2>1, <2>2
<1> QED BY <1>1, <1>2, <1>3 DEF CommandsAreSound

-----------------------------------------------------------------------------
(* The theorems *)

LEMMA InvInit == Init => IInv
<1>1. ASSUME Init PROVE TypeOK
  BY <1>1, StreamInit DEF StreamInv, OutputTypes, Init, TypeOK
<1>2. ASSUME Init PROVE CommandsAreSound
  BY <1>2 DEF Init, CommandsAreSound, Unanswered, Waiting
<1> QED BY <1>1, <1>2, StreamInit DEF IInv

LEMMA InvStep == IInv /\ [Next]_vars => IInv'
BY StreamStep, TypeStep, CommandsStep DEF IInv

LEMMA Inductive == Spec => []IInv
BY InvInit, InvStep, PTL DEF Spec

(* Every variable of a connection keeps to its values.                       *)
THEOREM TypeCorrect == Spec => []TypeOK
BY Inductive, PTL DEF IInv

(* enqueue against send_loop: however the sender's end falls between two     *)
(* puts, the only frame whose future stays unresolved is the one the socket  *)
(* was taking when it broke.                                                 *)
THEOREM NoFrameSlipsThrough == Spec => []OnlyFlightIsLost
<1>1. IInv => OnlyFlightIsLost
  BY DEF IInv, StreamInv
<1> QED BY <1>1, Inductive, PTL

(* The futures send_loop resolves: True only for a frame on the wire, False  *)
(* only for one that never gets there.                                       *)
THEOREM FuturesAreHonest == Spec => []OutcomesAreHonest
<1>1. IInv => OutcomesAreHonest
  BY DEF IInv, StreamInv
<1> QED BY <1>1, Inductive, PTL

(* send_loop puts the frames of one command on the wire without a gap.       *)
THEOREM WireHasNoGap == Spec => []NoGapOnTheWire
<1>1. IInv => NoGapOnTheWire
  BY DEF IInv, StreamInv
<1> QED BY <1>1, Inductive, PTL

(* What one waiter emitted goes out in the order in which it was emitted,    *)
(* and no frame goes out twice.                                              *)
WireIsOrdered ==
  \A j \in DOMAIN wire : \A i \in 1..(j - 1) : Before(wire[i], wire[j])

LEMMA OrderedStep ==
  ASSUME IInv, WireIsOrdered, [Next]_vars
  PROVE  WireIsOrdered'
<1>1. CASE Sent
  <2>1. PICK f \in Frame : flight = {f}
    BY <1>1 DEF IInv, StreamInv, SenderIsSound, Sent
  <2>2. wire' = Append(wire, f)
    BY <1>1, <2>1 DEF Sent
  <2>3. /\ Len(wire) \in Nat
        /\ DOMAIN wire = 1..Len(wire) /\ DOMAIN wire' = 1..(Len(wire) + 1)
        /\ \A i \in 1..Len(wire) : wire'[i] = wire[i]
        /\ wire'[Len(wire) + 1] = f
    BY <2>2, AppendProperties, LenProperties DEF IInv, TypeOK
  <2>4. \A i \in DOMAIN wire : Before(wire[i], f)
    BY <2>1 DEF IInv, StreamInv, InOrder
  <2> SUFFICES ASSUME NEW j \in DOMAIN wire', NEW i \in 1..(j - 1)
               PROVE  Before(wire'[i], wire'[j])
    BY DEF WireIsOrdered, Before
  <2>5. i \in DOMAIN wire /\ wire'[i] = wire[i]
    BY <2>3
  <2>6. CASE j = Len(wire) + 1
    BY <2>3, <2>4, <2>5, <2>6
  <2>7. CASE j \in DOMAIN wire
    BY <2>3, <2>5, <2>7 DEF WireIsOrdered
  <2> QED BY <2>3, <2>6, <2>7
<1>2. ASSUME ~Sent PROVE wire' = wire
  BY <1>2
     DEF Next, CommandNext, Emit, EmitAside, DropAside, Admit, End, Start, SenderNext, Take, SendFails, SenderStops,
         ReaderProceeds, Answered, ReadOn, Disconnected, Close, Gathered, Leave, Answer,
         BadFrame, Shutdown, PeerLeaves, vars, output
<1>3. CASE wire' = wire
  BY <1>3 DEF WireIsOrdered, Before
<1> QED BY <1>1, <1>2, <1>3

(* send_loop takes from the queue what enqueue put, in that order, and never *)
(* tries a frame again: with WireHasNoGap, what a browser has of one command *)
(* is at every moment a beginning of what the command emitted, each frame    *)
(* once.                                                                     *)
THEOREM FramesGoOutInOrder == Spec => []WireIsOrdered
<1>1. Init => WireIsOrdered
  BY DEF Init, WireIsOrdered
<1>2. IInv /\ WireIsOrdered /\ [Next]_vars => WireIsOrdered'
  BY OrderedStep
<1> QED BY <1>1, <1>2, Inductive, PTL DEF Spec

(* trip_stream's finally block: when the handler has returned no command     *)
(* runs or waits, the sender has ended and its queue is empty.               *)
THEOREM HandlerLeavesNothing == Spec => []QuietWhenDone
<1>1. IInv => QuietWhenDone
  BY DEF IInv, StreamInv, SenderIsSound, CommandsAreSound, AllGathered, QuietWhenDone
<1> QED BY <1>1, Inductive, PTL

=============================================================================
