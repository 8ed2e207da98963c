--------------------------- MODULE TurnStoreProofs ---------------------------
(* Theorems about TurnStore, for every set of turns, commands, cards and     *)
(* plans, any number of callers and any bound on the trip's version.  All    *)
(* the invariants are inductive relative to the type invariant, so each is   *)
(* proved by showing that a step preserves it.                               *)
EXTENDS TurnStore, SequenceTheorems, TLAPS

-----------------------------------------------------------------------------
(* Types *)

(* The values a command's commit writes are in range. *)
LEMMA CommitTypes ==
  ASSUME TypeOK, NEW t \in Turn, NEW r \in Result, CommitTurnResult(t, r)
  PROVE  /\ NextVersion(t) \in 1..MaxVersion
         /\ NextVersion(t) = trip.version + 1
         /\ r.current \in Plan \cup {Null}
<1> USE BoundType
<1>1. turns[t].base \in Nat /\ trip.version \in Nat /\ trip.plan \in Plan \cup {Null}
  BY DEF TypeOK, TurnRow, Version
<1>2. NextVersion(t) \in 1..MaxVersion /\ NextVersion(t) = trip.version + 1
  BY <1>1 DEF CommitTurnResult, NextVersion, ClaimsVersion
<1>3. r.current \in Plan \cup {Null}
  BY DEF Result
<1> QED BY <1>2, <1>3

(* A commit leaves every table well typed. *)
LEMMA CommitTypeOK ==
  ASSUME TypeOK, NEW t \in Turn, NEW r \in Result, CommitTurnResult(t, r)
  PROVE  TypeOK'
<1> DEFINE v == NextVersion(t)
<1> USE BoundType
<1>0. /\ v \in 1..MaxVersion /\ v \in Version
      /\ r.current \in Plan \cup {Null}
  BY CommitTypes DEF Version
<1> HIDE DEF v
<1>r. /\ r.pending \in Interaction \cup {Null} /\ r.generation \in Generation
      /\ r.plan \in Plan \cup {Null} /\ r.change \in Plan \cup {Null}
  BY DEF Result
<1>1. trip' \in [version : Version, plan : Plan \cup {Null}]
  BY <1>0 DEF CommitTurnResult, v
<1>2. turns' = [turns EXCEPT ![t].status = "committed", ![t].committed = v,
                             ![t].generation = r.generation]
  BY DEF CommitTurnResult, v
<1>3. turns' \in [Turn -> TurnRow]
  <2>1. turns[t] \in TurnRow
    BY DEF TypeOK
  <2>2. [turns[t] EXCEPT !.status = "committed", !.committed = v,
                         !.generation = r.generation] \in TurnRow
    BY <2>1, <1>0, <1>r DEF TurnRow, Status
  <2>3. turns' = [turns EXCEPT
                    ![t] = [turns[t] EXCEPT !.status = "committed", !.committed = v,
                                            !.generation = r.generation]]
    BY <1>2 DEF TypeOK
  <2> QED BY <2>2, <2>3 DEF TypeOK
<1>4. userMessage' \in [Turn -> [status : {"none", "accepted", "committed"},
                                 version : Version]]
  BY <1>0 DEF CommitTurnResult, v, TypeOK
<1>5. answerMessage' \in [Turn -> Version] /\ outbox' \in [Turn -> Version]
  BY <1>0 DEF CommitTurnResult, v, TypeOK
<1>6. snapshots' \in [1..MaxVersion -> [turn : Turn \cup {Null},
                                        pending : Interaction \cup {Null},
                                        plan : Plan \cup {Null}]]
  BY <1>0, <1>r DEF CommitTurnResult, v, TypeOK
<1>7. plans' \in [Plan -> [number : Version, parent : Plan \cup {Null},
                           change : Plan \cup {Null},
                           version : Version, generation : Generation \cup {Null}]]
  <2>1. CASE r.plan = Null
    BY <2>1 DEF CommitTurnResult, PublishPlan, TypeOK
  <2>2. CASE r.plan # Null
    <3>1. PICK n \in 1..MaxVersion :
            plans' = [plans EXCEPT ![r.plan] =
                        [number |-> n, parent |-> trip.plan, change |-> r.change,
                         version |-> v, generation |-> r.generation]]
      BY <2>2 DEF CommitTurnResult, PublishPlan, v
    <3>2. n \in Version /\ trip.plan \in Plan \cup {Null}
      BY DEF Version, TypeOK
    <3> QED BY <3>1, <3>2, <1>0, <1>r DEF TypeOK
  <2> QED BY <2>1, <2>2
<1>8. interactions' \in
        [Interaction -> [status : {"none", "active", "answered", "superseded"},
                         issued : Version, closed : Version]]
  <2>1. interactions' = CardsAfter(t, r)
    BY DEF CommitTurnResult
  <2>2. 0 \in Version
    BY DEF Version
  <2> QED BY <2>1, <2>2, <1>0 DEF CardsAfter, TypeOK, v
<1> QED BY <1>1, <1>3, <1>4, <1>5, <1>6, <1>7, <1>8 DEF CommitTurnResult, TypeOK

(* The type invariant is preserved by every transaction. *)
LEMMA TypeStep == TypeOK /\ [Next]_vars => TypeOK'
<1> SUFFICES ASSUME TypeOK, [Next]_vars PROVE TypeOK'
  OBVIOUS
<1> USE BoundType
<1>1. ASSUME NEW c \in Caller, NEW cmd \in Command, AcceptReplay(c, cmd)
      PROVE  TypeOK'
  BY <1>1 DEF AcceptReplay, Existing, Row, TypeOK, resultVars
<1>2. ASSUME NEW c \in Caller, NEW cmd \in Command, NEW b \in Version,
             NEW g \in Generation \cup {Null}, AcceptFind(c, cmd, b, g)
      PROVE  TypeOK'
  BY <1>2 DEF AcceptFind, TypeOK, resultVars
<1>3. ASSUME NEW c \in Caller, NEW t \in Turn, AcceptInsert(c, t)
      PROVE  TypeOK'
  <2>1. admitting[c] \in [command : Command, base : Version,
                        generation : Generation \cup {Null}]
    BY <1>3 DEF AcceptInsert, TypeOK
  <2>2. 0 \in Version
    BY DEF Version
  <2> QED BY <1>3, <2>1, <2>2 DEF AcceptInsert, TypeOK, TurnRow, resultVars, Status, Live
<1>4. ASSUME NEW c \in Caller, AcceptCollision(c)
      PROVE  TypeOK'
  <2>1. admitting[c] \in [command : Command, base : Version,
                        generation : Generation \cup {Null}]
    BY <1>4 DEF AcceptCollision, TypeOK
  <2>2. answers' \subseteq Command \X Turn
    BY <1>4, <2>1 DEF AcceptCollision, Existing, Row, TypeOK
  <2> QED BY <1>4, <2>2 DEF AcceptCollision, TypeOK, resultVars
<1>5. ASSUME NEW c \in Caller, AcceptStale(c)
      PROVE  TypeOK'
  BY <1>5 DEF AcceptStale, TypeOK, resultVars
<1>6. ASSUME NEW t \in Turn, NEW n \in {0, 1}, AppendSetupFeedback(t, n)
      PROVE  TypeOK'
  BY <1>6 DEF AppendSetupFeedback, TypeOK, resultVars
<1>7. ASSUME NEW t \in Turn, NEW r \in Result, CommitTurnResult(t, r)
      PROVE  TypeOK'
  BY <1>7, CommitTypeOK
<1>8. ASSUME NEW t \in Turn, NEW cancelled \in BOOLEAN, MarkTurnFailed(t, cancelled)
      PROVE  TypeOK'
  <2>1. EndedAs(cancelled) \in Status \cup {"none"}
    BY DEF EndedAs, Status
  <2>2. turns[t] \in TurnRow
    BY DEF TypeOK
  <2>3. [turns[t] EXCEPT !.status = EndedAs(cancelled)] \in TurnRow
    BY <2>1, <2>2 DEF TurnRow
  <2>4. turns' = [turns EXCEPT ![t] = [turns[t] EXCEPT !.status = EndedAs(cancelled)]]
    BY <1>8 DEF MarkTurnFailed, TypeOK
  <2>5. turns' \in [Turn -> TurnRow]
    BY <2>3, <2>4 DEF TypeOK
  <2> QED BY <1>8, <2>5 DEF MarkTurnFailed, TypeOK, resultVars
<1>9. ASSUME UNCHANGED vars PROVE TypeOK'
  BY <1>9 DEF TypeOK, vars
<1> QED BY <1>1, <1>2, <1>3, <1>4, <1>5, <1>6, <1>7, <1>8, <1>9 DEF Next

(* The empty tables of a new trip are well typed. *)
LEMMA TypeInit == Init => TypeOK
BY BoundType DEF Init, TypeOK, Version, NoTurn, TurnRow, NoSnapshot, NoPlan, NoInteraction

(* Every reachable state is well typed: no transaction writes a status, a    *)
(* version or a reference its table does not admit.                          *)
THEOREM TypeCorrect == Spec => []TypeOK
BY TypeInit, TypeStep, PTL DEF Spec

-----------------------------------------------------------------------------
(* What a step may do *)

(* A step that is not a commit publishes nothing, and leaves every turn that *)
(* has ended, with its messages, as it was.                                  *)
Quiet ==
  /\ UNCHANGED <<trip, resultVars>>
  /\ \A t \in Turn :
       \/ turns'[t] = turns[t] /\ userMessage'[t] = userMessage[t]
       \/ /\ turns[t].status \in Live \cup {"none"}
          /\ turns'[t].status \in {"accepted", "failed", "cancelled"}
          /\ userMessage'[t].status = "accepted" \/ userMessage'[t] = userMessage[t]

LEMMA StepShape ==
  ASSUME TypeOK, [Next]_vars
  PROVE  (\E t \in Turn, r \in Result : CommitTurnResult(t, r)) \/ Quiet
<1>1. ASSUME NEW c \in Caller, NEW cmd \in Command, AcceptReplay(c, cmd) PROVE Quiet
  BY <1>1 DEF AcceptReplay, Quiet
<1>2. ASSUME NEW c \in Caller, NEW cmd \in Command, NEW b \in Version,
             NEW g \in Generation \cup {Null}, AcceptFind(c, cmd, b, g)
      PROVE  Quiet
  BY <1>2 DEF AcceptFind, Quiet
<1>3. ASSUME NEW c \in Caller, NEW t \in Turn, AcceptInsert(c, t) PROVE Quiet
  <2>1. /\ turns[t].status = "none"
        /\ turns'[t].status = "accepted" /\ userMessage'[t].status = "accepted"
        /\ \A s \in Turn \ {t} : turns'[s] = turns[s] /\ userMessage'[s] = userMessage[s]
        /\ UNCHANGED <<trip, resultVars>>
    BY <1>3 DEF AcceptInsert, TypeOK
  <2> QED BY <2>1 DEF Quiet
<1>4. ASSUME NEW c \in Caller, AcceptCollision(c) PROVE Quiet
  BY <1>4 DEF AcceptCollision, Quiet
<1>5. ASSUME NEW c \in Caller, AcceptStale(c) PROVE Quiet
  BY <1>5 DEF AcceptStale, Quiet
<1>6. ASSUME NEW t \in Turn, NEW n \in {0, 1}, AppendSetupFeedback(t, n) PROVE Quiet
  BY <1>6 DEF AppendSetupFeedback, Quiet
<1>8. ASSUME NEW t \in Turn, NEW cancelled \in BOOLEAN, MarkTurnFailed(t, cancelled)
      PROVE  Quiet
  <2>1. /\ turns[t].status \in Live
        /\ turns'[t].status \in {"failed", "cancelled"}
        /\ \A s \in Turn \ {t} : turns'[s] = turns[s]
        /\ UNCHANGED <<trip, userMessage, resultVars>>
    <3>1. turns' = [turns EXCEPT ![t].status = EndedAs(cancelled)]
      BY <1>8 DEF MarkTurnFailed
    <3>2. turns'[t].status = EndedAs(cancelled) /\ \A s \in Turn \ {t} : turns'[s] = turns[s]
      BY <3>1 DEF TypeOK, TurnRow
    <3> QED BY <1>8, <3>2 DEF MarkTurnFailed, MayEnd, EndedAs
  <2> QED BY <2>1 DEF Quiet
<1>9. ASSUME UNCHANGED vars PROVE Quiet
  BY <1>9 DEF Quiet, vars, resultVars
<1> QED BY <1>1, <1>2, <1>3, <1>4, <1>5, <1>6, <1>8, <1>9 DEF Next

(* What a commit does to the trip, the rows of turns and the snapshots. *)
New == trip.version + 1

LEMMA CommitShape ==
  ASSUME TypeOK, NEW t \in Turn, NEW r \in Result, CommitTurnResult(t, r)
  PROVE  /\ New \in 1..MaxVersion /\ NextVersion(t) = New
         /\ trip'.version = New /\ trip'.plan = r.current
         /\ turns[t].status \in Live
         /\ turns'[t].status = "committed" /\ turns'[t].committed = New
         /\ turns'[t].base = New - 1
         /\ \A s \in Turn \ {t} : turns'[s] = turns[s]
         /\ snapshots'[New].turn = t
         /\ snapshots'[New].pending = r.pending
         /\ snapshots'[New].plan = r.current
         /\ \A w \in (1..MaxVersion) \ {New} : snapshots'[w] = snapshots[w]
<1>1. New \in 1..MaxVersion /\ NextVersion(t) = New
  BY CommitTypes DEF New
<1>2. turns' = [turns EXCEPT ![t].status = "committed", ![t].committed = New,
                             ![t].generation = r.generation]
  BY <1>1 DEF CommitTurnResult
<1>3. turns[t] \in TurnRow /\ trip.version \in Nat /\ turns[t].base \in Nat
  BY BoundType DEF TypeOK, TurnRow, Version
<1>4. /\ turns'[t].status = "committed" /\ turns'[t].committed = New
      /\ turns'[t].base = turns[t].base
      /\ \A s \in Turn \ {t} : turns'[s] = turns[s]
  BY <1>2, <1>3 DEF TypeOK, TurnRow
<1>5. turns[t].status \in Live /\ turns[t].base = New - 1
  BY <1>3 DEF CommitTurnResult, MayCommit, ClaimsVersion, New
<1>6. snapshots' = [snapshots EXCEPT
                      ![New] = [turn |-> t, pending |-> r.pending, plan |-> r.current]]
  BY <1>1 DEF CommitTurnResult
<1>7. /\ snapshots'[New] = [turn |-> t, pending |-> r.pending, plan |-> r.current]
      /\ \A w \in (1..MaxVersion) \ {New} : snapshots'[w] = snapshots[w]
  BY <1>1, <1>6 DEF TypeOK
<1>8. trip'.version = New /\ trip'.plan = r.current
  BY <1>1 DEF CommitTurnResult
<1> QED BY <1>1, <1>4, <1>5, <1>7, <1>8

-----------------------------------------------------------------------------
(* One line of versions *)

LEMMA LinearStep == TypeOK /\ LinearHistory /\ [Next]_vars => LinearHistory'
<1> SUFFICES ASSUME TypeOK, LinearHistory, [Next]_vars PROVE LinearHistory'
  OBVIOUS
<1>0. trip.version \in Nat /\ MaxVersion \in Nat
  BY BoundType DEF TypeOK, Version
<1>1. CASE Quiet
  <2>1. trip' = trip /\ snapshots' = snapshots
    BY <1>1 DEF Quiet, resultVars
  <2>2. \A t \in Turn : turns[t].status = "committed" => turns'[t] = turns[t]
    BY <1>1 DEF Quiet, Live
  <2>3. \A t \in Turn : turns'[t].status = "committed" => turns'[t] = turns[t]
    BY <1>1 DEF Quiet
  <2> QED BY <2>1, <2>2, <2>3 DEF LinearHistory
<1>2. ASSUME NEW t \in Turn, NEW r \in Result, CommitTurnResult(t, r)
      PROVE  LinearHistory'
  <2> DEFINE v == New
  <2>0. /\ v \in 1..MaxVersion /\ v = trip.version + 1
        /\ trip'.version = v
        /\ turns[t].status \in Live
        /\ turns'[t].status = "committed" /\ turns'[t].committed = v
        /\ turns'[t].base = v - 1
        /\ \A s \in Turn \ {t} : turns'[s] = turns[s]
        /\ snapshots'[v].turn = t
        /\ \A w \in (1..MaxVersion) \ {v} : snapshots'[w] = snapshots[w]
    BY <1>2, CommitShape DEF New
  <2>1. ASSUME NEW w \in 1..v
        PROVE  /\ snapshots'[w].turn \in Turn
               /\ turns'[snapshots'[w].turn].status = "committed"
               /\ turns'[snapshots'[w].turn].committed = w
               /\ turns'[snapshots'[w].turn].base = w - 1
    <3>1. CASE w = v
      BY <2>0, <3>1
    <3>2. CASE w # v
      <4>1. w \in 1..trip.version /\ snapshots'[w] = snapshots[w]
        BY <1>0, <2>0, <3>2
      <4>2. snapshots[w].turn \in Turn \ {t}
        BY <2>0, <4>1 DEF LinearHistory, Live
      <4> QED BY <2>0, <4>1, <4>2 DEF LinearHistory
    <3> QED BY <3>1, <3>2
  <2>2. ASSUME NEW w \in (v + 1)..MaxVersion PROVE snapshots'[w] = NoSnapshot
    BY <1>0, <2>0 DEF LinearHistory
  <2>3. ASSUME NEW s \in Turn, turns'[s].status = "committed"
        PROVE  /\ turns'[s].committed \in 1..v
               /\ snapshots'[turns'[s].committed].turn = s
    <3>1. CASE s = t
      BY <1>0, <2>0, <3>1
    <3>2. CASE s # t
      <4>1. /\ turns[s].status = "committed" /\ turns'[s] = turns[s]
            /\ turns[s].committed \in 1..trip.version
            /\ snapshots[turns[s].committed].turn = s
        BY <2>0, <2>3, <3>2 DEF LinearHistory
      <4>2. turns[s].committed \in (1..MaxVersion) \ {v} /\ turns[s].committed \in 1..v
        BY <1>0, <2>0, <4>1
      <4> QED BY <2>0, <4>1, <4>2
    <3> QED BY <3>1, <3>2
  <2> QED BY <2>0, <2>1, <2>2, <2>3 DEF LinearHistory
<1> QED BY <1>1, <1>2, StepShape

LEMMA LinearInit == Init => LinearHistory
<1> SUFFICES ASSUME Init PROVE LinearHistory
  OBVIOUS
<1>1. trip.version = 0 /\ \A t \in Turn : turns[t].status = "none"
  BY DEF Init, NoTurn
<1>2. \A v \in 1..MaxVersion : snapshots[v] = NoSnapshot
  BY DEF Init
<1> QED BY <1>1, <1>2, BoundType DEF LinearHistory

(* Two turns admitted at the same version may race to the end: the trip's    *)
(* versions are nevertheless one line, each the snapshot of exactly one turn *)
(* that was admitted right before it.                                        *)
THEOREM HistoryIsLinear == Spec => []LinearHistory
BY TypeCorrect, LinearInit, LinearStep, PTL DEF Spec

-----------------------------------------------------------------------------
(* All or nothing *)

LEMMA WholeStep == TypeOK /\ AllOrNothing /\ [Next]_vars => AllOrNothing'
<1> SUFFICES ASSUME TypeOK, AllOrNothing, [Next]_vars PROVE AllOrNothing'
  OBVIOUS
<1>1. CASE Quiet
  <2>1. answerMessage' = answerMessage /\ outbox' = outbox
    BY <1>1 DEF Quiet, resultVars
  <2>2. ASSUME NEW s \in Turn, turns[s].status = "committed"
        PROVE  turns'[s] = turns[s] /\ userMessage'[s] = userMessage[s]
    BY <1>1, <2>2 DEF Quiet, Live
  <2>3. ASSUME NEW s \in Turn, turns[s].status # "committed"
        PROVE  turns'[s].status # "committed" /\ userMessage'[s].status # "committed"
    BY <1>1, <2>3 DEF Quiet, AllOrNothing
  <2> QED BY <2>1, <2>2, <2>3 DEF AllOrNothing
<1>2. ASSUME NEW t \in Turn, NEW r \in Result, CommitTurnResult(t, r)
      PROVE  AllOrNothing'
  <2>1. /\ NextVersion(t) = New
        /\ turns'[t].status = "committed" /\ turns'[t].committed = New
        /\ \A s \in Turn \ {t} : turns'[s] = turns[s]
    BY <1>2, CommitShape
  <2>2. /\ userMessage' = [userMessage EXCEPT ![t] = [status |-> "committed", version |-> New]]
        /\ answerMessage' = [answerMessage EXCEPT ![t] = New]
        /\ outbox' = [outbox EXCEPT ![t] = New]
    BY <1>2, <2>1 DEF CommitTurnResult
  <2>3. /\ userMessage'[t] = [status |-> "committed", version |-> New]
        /\ answerMessage'[t] = New /\ outbox'[t] = New
        /\ \A s \in Turn \ {t} : /\ userMessage'[s] = userMessage[s]
                                 /\ answerMessage'[s] = answerMessage[s]
                                 /\ outbox'[s] = outbox[s]
    BY <2>2 DEF TypeOK
  <2> QED BY <2>1, <2>3 DEF AllOrNothing
<1> QED BY <1>1, <1>2, StepShape

LEMMA WholeInit == Init => AllOrNothing
BY DEF Init, AllOrNothing, NoTurn

(* A question, its answer and its delivery bundle become visible together,   *)
(* at the version of their turn; a turn that ends otherwise leaves none.     *)
THEOREM ResultsAreWhole == Spec => []AllOrNothing
BY TypeCorrect, WholeInit, WholeStep, PTL DEF Spec

-----------------------------------------------------------------------------
(* Admission *)

(* Only AcceptInsert gives a turn its command. *)
LEMMA CommandsAreKept ==
  ASSUME TypeOK, [Next]_vars,
         \A c \in Caller, t \in Turn : ~AcceptInsert(c, t)
  PROVE  \A t \in Turn : /\ turns'[t].command = turns[t].command
                         /\ turns'[t].status = "none" <=> turns[t].status = "none"
<1>1. ASSUME NEW t \in Turn, NEW r \in Result, CommitTurnResult(t, r)
      PROVE  \A s \in Turn : /\ turns'[s].command = turns[s].command
                             /\ turns'[s].status = "none" <=> turns[s].status = "none"
  <2>1. turns' = [turns EXCEPT ![t].status = "committed", ![t].committed = NextVersion(t),
                               ![t].generation = r.generation]
    BY <1>1 DEF CommitTurnResult
  <2>2. turns[t] \in TurnRow /\ turns[t].status # "none"
    BY <1>1 DEF TypeOK, CommitTurnResult, MayCommit, Live
  <2>3. turns'[t].command = turns[t].command /\ turns'[t].status # "none"
    BY <2>1, <2>2 DEF TypeOK, TurnRow
  <2>4. \A s \in Turn \ {t} : turns'[s] = turns[s]
    BY <1>1, CommitShape
  <2> QED BY <2>2, <2>3, <2>4
<1>2. ASSUME NEW t \in Turn, NEW cancelled \in BOOLEAN, MarkTurnFailed(t, cancelled)
      PROVE  \A s \in Turn : /\ turns'[s].command = turns[s].command
                             /\ turns'[s].status = "none" <=> turns[s].status = "none"
  <2>1. turns' = [turns EXCEPT ![t].status = EndedAs(cancelled)]
    BY <1>2 DEF MarkTurnFailed
  <2>2. turns[t] \in TurnRow /\ turns[t].status # "none"
    BY <1>2 DEF TypeOK, MarkTurnFailed, MayEnd, Live
  <2>3. EndedAs(cancelled) # "none"
    BY DEF EndedAs
  <2> QED BY <2>1, <2>2, <2>3 DEF TypeOK, TurnRow
<1>3. CASE UNCHANGED turns
  BY <1>3
<1>4. \/ UNCHANGED turns
      \/ \E t \in Turn, r \in Result : CommitTurnResult(t, r)
      \/ \E t \in Turn, cancelled \in BOOLEAN : MarkTurnFailed(t, cancelled)
  BY DEF Next, vars, AcceptReplay, AcceptFind, AcceptCollision, AcceptStale,
         AppendSetupFeedback
<1> QED BY <1>1, <1>2, <1>3, <1>4

(* What accept_turn answers is a turn the very command was admitted under. *)
LEMMA AnswersAreOwn ==
  ASSUME TypeOK, [Next]_vars, NEW a \in answers', a \notin answers,
         \A c \in Caller, t \in Turn : ~AcceptInsert(c, t)
  PROVE  a[2] \in Row /\ SameCommand(a[2], a[1])
<1>1. ASSUME NEW c \in Caller, NEW cmd \in Command, AcceptReplay(c, cmd)
      PROVE  a[2] \in Row /\ SameCommand(a[2], a[1])
  <2>1. PICK t \in Existing(cmd) : SameCommand(t, cmd) /\ answers' = answers \cup {<<cmd, t>>}
    BY <1>1 DEF AcceptReplay
  <2> QED BY <2>1 DEF Existing
<1>2. ASSUME NEW c \in Caller, AcceptCollision(c)
      PROVE  a[2] \in Row /\ SameCommand(a[2], a[1])
  <2> DEFINE cmd == admitting[c].command
  <2>1. PICK t \in Existing(cmd) : SameCommand(t, cmd) /\ answers' = answers \cup {<<cmd, t>>}
    BY <1>2 DEF AcceptCollision
  <2> QED BY <2>1 DEF Existing
<1> QED BY <1>1, <1>2 DEF Next, vars, AcceptFind, AcceptStale, AppendSetupFeedback,
           CommitTurnResult, MarkTurnFailed

LEMMA AdmissionStep ==
  TypeOK /\ AdmissionIsIdempotent /\ [Next]_vars => AdmissionIsIdempotent'
<1> SUFFICES ASSUME TypeOK, AdmissionIsIdempotent, [Next]_vars
             PROVE  AdmissionIsIdempotent'
  OBVIOUS
<1>1. ASSUME NEW c \in Caller, NEW t \in Turn, AcceptInsert(c, t)
      PROVE  AdmissionIsIdempotent'
  <2> DEFINE cmd == admitting[c].command
  <2>1. /\ turns[t].status = "none"
        /\ turns'[t].status = "accepted" /\ turns'[t].command = cmd
        /\ \A s \in Turn \ {t} : turns'[s] = turns[s]
        /\ answers' = answers \cup {<<cmd, t>>}
        /\ Existing(cmd) = {}
    BY <1>1 DEF AcceptInsert, Collides, TypeOK
  <2>2. Row' = Row \cup {t} /\ t \notin Row /\ Row \subseteq Turn
    BY <2>1 DEF Row
  <2>3. \A s \in Row : turns[s].command.key # cmd.key /\ turns[s].command.request # cmd.request
    BY <2>1 DEF Existing
  <2>4. ASSUME NEW s \in Row', NEW u \in Row',
               \/ turns'[s].command.key = turns'[u].command.key
               \/ turns'[s].command.request = turns'[u].command.request
        PROVE  s = u
    BY <2>1, <2>2, <2>3, <2>4 DEF AdmissionIsIdempotent
  <2>5. ASSUME NEW a \in answers'
        PROVE  a[2] \in Row' /\ SameCommand(a[2], a[1])'
    <3>1. CASE a = <<cmd, t>>
      BY <2>1, <2>2, <3>1 DEF SameCommand
    <3>2. CASE a \in answers
      BY <2>1, <2>2, <3>2 DEF AdmissionIsIdempotent, SameCommand
    <3> QED BY <2>1, <3>1, <3>2
  <2> QED BY <2>4, <2>5 DEF AdmissionIsIdempotent
<1>2. ASSUME \A c \in Caller, t \in Turn : ~AcceptInsert(c, t)
      PROVE  AdmissionIsIdempotent'
  <2>1. /\ \A t \in Turn : turns'[t].command = turns[t].command
        /\ Row' = Row /\ Row \subseteq Turn
    BY <1>2, CommandsAreKept DEF Row
  <2>2. ASSUME NEW a \in answers'
        PROVE  a[2] \in Row /\ SameCommand(a[2], a[1])
    BY <1>2, <2>2, AnswersAreOwn DEF AdmissionIsIdempotent
  <2> QED BY <2>1, <2>2 DEF AdmissionIsIdempotent, SameCommand
<1> QED BY <1>1, <1>2

LEMMA AdmissionInit == Init => AdmissionIsIdempotent
BY DEF Init, AdmissionIsIdempotent, Row, NoTurn

(* However often and from however many callers a command is sent, it is      *)
(* admitted at most once, and every answer is the turn of that very command. *)
THEOREM AdmittedOnce == Spec => []AdmissionIsIdempotent
BY TypeCorrect, AdmissionInit, AdmissionStep, PTL DEF Spec

-----------------------------------------------------------------------------
(* Cards *)

Active == {i \in Interaction : interactions[i].status = "active"}

(* Only a commit moves cards, and it leaves open the card of its result. *)
LEMMA CardsStep ==
  TypeOK /\ PendingCardIsCurrent /\ [Next]_vars => PendingCardIsCurrent'
<1> SUFFICES ASSUME TypeOK, PendingCardIsCurrent, [Next]_vars
             PROVE  PendingCardIsCurrent'
  OBVIOUS
<1>1. CASE Quiet
  BY <1>1 DEF Quiet, resultVars, PendingCardIsCurrent
<1>2. ASSUME NEW t \in Turn, NEW r \in Result, CommitTurnResult(t, r)
      PROVE  PendingCardIsCurrent'
  <2>1. /\ interactions' = CardsAfter(t, r)
        /\ r.pending # Null =>
             \/ r.pending \in ActiveAfterAnswer(r)
             \/ interactions[r.pending].status = "none"
        /\ r.answered # Null => interactions[r.answered].status = "active"
    BY <1>2 DEF CommitTurnResult, CardsMatch
  <2>2. r.pending \in Interaction \cup {Null} /\ Null \notin Interaction
    BY NullType DEF Result
  <2>3. ASSUME NEW i \in Interaction
        PROVE  interactions'[i].status = "active" <=> i = r.pending
    <3>1. interactions[i] \in [status : {"none", "active", "answered", "superseded"},
                               issued : Version, closed : Version]
      BY DEF TypeOK
    <3>2. CASE i = r.answered
      <4>0. interactions[i].status = "active" /\ i \notin ActiveAfterAnswer(r)
        BY <2>1, <2>2, <3>2 DEF ActiveAfterAnswer
      <4>1. interactions'[i] = [interactions[i] EXCEPT !.status = "answered",
                                                       !.closed = NextVersion(t)]
        BY <2>1, <3>2, <4>0 DEF CardsAfter
      <4>2. i # r.pending
        BY <2>1, <2>2, <3>2 DEF ActiveAfterAnswer
      <4> QED BY <3>1, <4>1, <4>2
    <3>3. CASE i # r.answered /\ i = r.pending /\ interactions[i].status = "none"
      BY <2>1, <3>3 DEF CardsAfter
    <3>4. CASE i \in ActiveAfterAnswer(r) /\ i # r.pending
      <4>1. interactions'[i] = [interactions[i] EXCEPT !.status = "superseded",
                                                       !.closed = NextVersion(t)]
        BY <2>1, <3>4 DEF CardsAfter, ActiveAfterAnswer
      <4> QED BY <3>1, <3>4, <4>1
    <3>5. CASE /\ i # r.answered
               /\ ~(i = r.pending /\ interactions[i].status = "none")
               /\ ~(i \in ActiveAfterAnswer(r) /\ i # r.pending)
      <4>1. interactions'[i] = interactions[i]
        BY <2>1, <3>5 DEF CardsAfter
      <4> QED BY <2>1, <2>2, <3>5, <4>1 DEF ActiveAfterAnswer
    <3> QED BY <3>2, <3>3, <3>4, <3>5
  <2>4. Active' = {r.pending} \ {Null}
    BY <2>2, <2>3 DEF Active
  <2>5. trip'.version # 0 /\ snapshots'[trip'.version].pending = r.pending
    BY <1>2, CommitShape
  <2> QED BY <2>4, <2>5 DEF Active, PendingCardIsCurrent
<1> QED BY <1>1, <1>2, StepShape

LEMMA CardsInit == Init => PendingCardIsCurrent
BY DEF Init, PendingCardIsCurrent, NoInteraction

(* Whatever a result does with the cards, the one the database holds open is *)
(* the one the newest snapshot says is open.                                 *)
THEOREM OneCurrentCard == Spec => []PendingCardIsCurrent
BY TypeCorrect, CardsInit, CardsStep, PTL DEF Spec

-----------------------------------------------------------------------------
(* Plans *)

LEMMA PlanStep == TypeOK /\ PlanChain /\ [Next]_vars => PlanChain'
<1> SUFFICES ASSUME TypeOK, PlanChain, [Next]_vars PROVE PlanChain'
  OBVIOUS
<1>0. trip.version \in Nat /\ MaxVersion \in Nat
  BY BoundType DEF TypeOK, Version
<1>1. CASE Quiet
  BY <1>1 DEF Quiet, resultVars, PlanChain
<1>2. ASSUME NEW t \in Turn, NEW r \in Result, CommitTurnResult(t, r)
      PROVE  PlanChain'
  <2>1. /\ New \in 1..MaxVersion /\ NextVersion(t) = New /\ New = trip.version + 1
        /\ trip'.version = New /\ trip'.plan = r.current
        /\ snapshots'[New].plan = r.current
        /\ \A w \in (1..MaxVersion) \ {New} : snapshots'[w] = snapshots[w]
    BY <1>2, CommitShape DEF New
  <2>2. \A v \in 1..trip.version : snapshots'[v] = snapshots[v]
    BY <1>0, <2>1
  <2>3. trip'.plan = IF trip'.version = 0 THEN Null ELSE snapshots'[trip'.version].plan
    BY <2>1
  <2>4. trip.plan = IF New = 1 THEN Null ELSE snapshots'[New - 1].plan
    BY <1>0, <2>1, <2>2 DEF PlanChain
  <2>5. ASSUME NEW p \in Plan, plans[p].number # 0
        PROVE  /\ plans[p].version \in 1..trip.version
               /\ snapshots'[plans[p].version].plan = p
               /\ plans[p].parent = IF plans[p].version = 1 THEN Null
                                    ELSE snapshots'[plans[p].version - 1].plan
               /\ plans[p].change = plans[p].parent
    <3>1. plans[p].version \in 1..trip.version
      BY <2>5 DEF PlanChain
    <3>2. plans[p].version # 1 => plans[p].version - 1 \in 1..trip.version
      BY <1>0, <3>1
    <3> QED BY <2>2, <2>5, <3>1, <3>2 DEF PlanChain
  <2>6. CASE r.plan = Null
    <3>1. plans' = plans
      BY <1>2, <2>6 DEF CommitTurnResult, PublishPlan
    <3>2. \A v \in 1..trip.version : v \in 1..New
      BY <1>0, <2>1
    <3> QED BY <2>1, <2>3, <2>5, <3>1, <3>2 DEF PlanChain
  <2>7. CASE r.plan # Null
    <3>1. /\ r.plan \in Plan /\ plans[r.plan].number = 0
          /\ r.change = trip.plan
          /\ r.current = r.plan
      BY <1>2, <2>7 DEF CommitTurnResult, PublishPlan, PlanIsNew, ChangeMatches,
                        CurrentMatches, Result
    <3>2. PICK n \in 1..MaxVersion :
            /\ NextNumber(n)
            /\ plans' = [plans EXCEPT ![r.plan] =
                           [number |-> n, parent |-> trip.plan, change |-> r.change,
                            version |-> New, generation |-> r.generation]]
      BY <1>2, <2>1, <2>7 DEF CommitTurnResult, PublishPlan
    <3>3. /\ plans'[r.plan].number = n /\ plans'[r.plan].version = New
          /\ plans'[r.plan].parent = trip.plan /\ plans'[r.plan].change = trip.plan
          /\ \A q \in Plan \ {r.plan} : plans'[q] = plans[q]
      BY <3>1, <3>2 DEF TypeOK
    <3>4. ASSUME NEW p \in Plan, plans'[p].number # 0
          PROVE  /\ plans'[p].version \in 1..New
                 /\ snapshots'[plans'[p].version].plan = p
                 /\ plans'[p].parent = IF plans'[p].version = 1 THEN Null
                                       ELSE snapshots'[plans'[p].version - 1].plan
                 /\ plans'[p].change = plans'[p].parent
      <4>1. CASE p = r.plan
        BY <1>0, <2>1, <2>4, <3>1, <3>3, <4>1
      <4>2. CASE p # r.plan
        <5>1. plans'[p] = plans[p] /\ plans[p].version \in 1..trip.version
          BY <2>5, <3>3, <3>4, <4>2
        <5>2. plans[p].version \in 1..New
          BY <1>0, <2>1, <5>1
        <5> QED BY <2>5, <3>4, <5>1, <5>2
      <4> QED BY <4>1, <4>2
    <3>5. ASSUME NEW p \in Plan, NEW q \in Plan,
                 plans'[p].number # 0, plans'[q].number # 0
          PROVE  plans'[p].number < plans'[q].number <=> plans'[p].version < plans'[q].version
      <4>1. \A s \in Plan \ {r.plan} : plans'[s].number # 0 =>
              /\ plans'[s] = plans[s]
              /\ plans[s].number \in Nat /\ plans[s].number < n
              /\ plans[s].version \in Nat /\ plans[s].version < New
        <5>1. ASSUME NEW s \in Plan \ {r.plan}, plans'[s].number # 0
              PROVE  /\ plans'[s] = plans[s]
                     /\ plans[s].number \in Nat /\ plans[s].number < n
                     /\ plans[s].version \in Nat /\ plans[s].version < New
          <6>1. plans'[s] = plans[s] /\ plans[s].version \in 1..trip.version
            BY <2>5, <3>3, <5>1
          <6>2. plans[s].number \in Nat /\ plans[s].number < n
            BY <1>0, <3>2 DEF NextNumber, TypeOK, Version
          <6> QED BY <1>0, <2>1, <6>1, <6>2
        <5> QED BY <5>1
      <4>2. CASE p = r.plan \/ q = r.plan
        BY <1>0, <2>1, <3>3, <3>5, <4>1, <4>2
      <4>3. CASE p # r.plan /\ q # r.plan
        BY <3>5, <4>1, <4>3 DEF PlanChain
      <4> QED BY <4>2, <4>3
    <3> QED BY <2>1, <2>3, <3>4, <3>5 DEF PlanChain
  <2> QED BY <2>6, <2>7
<1> QED BY <1>1, <1>2, StepShape

LEMMA PlanInit == Init => PlanChain
BY DEF Init, PlanChain, NoPlan

(* Formal plans form one chain: a plan grows out of the plan that was        *)
(* current right before it, and the trip points at the newest snapshot's.    *)
THEOREM PlansAreChained == Spec => []PlanChain
BY TypeCorrect, PlanInit, PlanStep, PTL DEF Spec

-----------------------------------------------------------------------------
(* Ended turns *)

LEMMA EndedStep == TypeOK /\ [Next]_vars => [LeavesEnded]_vars
<1> SUFFICES ASSUME TypeOK, [Next]_vars PROVE LeavesEnded \/ UNCHANGED vars
  OBVIOUS
<1>0. trip.version \in Nat /\ MaxVersion \in Nat
  BY BoundType DEF TypeOK, Version
<1>1. ASSUME NEW t \in Turn, NEW r \in Result, CommitTurnResult(t, r)
      PROVE  LeavesEnded
  <2>1. /\ NextVersion(t) = New /\ New = trip.version + 1
        /\ turns[t].status \in Live
        /\ \A s \in Turn \ {t} : turns'[s] = turns[s]
        /\ \A w \in (1..MaxVersion) \ {New} : snapshots'[w] = snapshots[w]
        /\ New \in 1..MaxVersion
    BY <1>1, CommitShape DEF New
  <2>2. \A v \in 1..trip.version : snapshots'[v] = snapshots[v]
    BY <1>0, <2>1
  <2>3. /\ \A s \in Turn \ {t} : /\ userMessage'[s] = userMessage[s]
                                 /\ answerMessage'[s] = answerMessage[s]
                                 /\ outbox'[s] = outbox[s]
        /\ feedback' = feedback
    BY <1>1 DEF CommitTurnResult, TypeOK
  <2> QED BY <2>1, <2>2, <2>3 DEF LeavesEnded, Live
<1>2. CASE Quiet
  <2>1. ASSUME NEW s \in Turn, turns[s].status \in {"committed", "failed", "cancelled"}
        PROVE  /\ turns'[s] = turns[s] /\ userMessage'[s] = userMessage[s]
               /\ answerMessage' = answerMessage /\ outbox' = outbox
               /\ snapshots' = snapshots
    BY <1>2, <2>1 DEF Quiet, Live, resultVars
  <2>2. ASSUME NEW s \in Turn, turns[s].status \in {"committed", "failed", "cancelled"},
               NEW m \in DOMAIN feedback, feedback'[m] = s
        PROVE  feedback[m] = s
    <3>1. CASE feedback' = feedback
      BY <2>2, <3>1
    <3>2. ASSUME NEW t \in Turn, NEW n \in {0, 1}, AppendSetupFeedback(t, n)
          PROVE  feedback[m] = s
      <4>1. feedback' = [feedback EXCEPT ![<<turns[t].generation, n>>] = t]
            /\ turns[t].status \in Live
        BY <3>2 DEF AppendSetupFeedback, MayFeedback
      <4>2. s # t
        BY <2>2, <4>1 DEF Live
      <4> QED BY <2>2, <4>1, <4>2
    <3>3. \/ feedback' = feedback
          \/ \E t \in Turn, n \in {0, 1} : AppendSetupFeedback(t, n)
      BY DEF Next, vars, AcceptReplay, AcceptFind, AcceptInsert, AcceptCollision,
             AcceptStale, CommitTurnResult, MarkTurnFailed
    <3> QED BY <3>1, <3>2, <3>3
  <2> QED BY <2>1, <2>2 DEF LeavesEnded
<1> QED BY <1>1, <1>2, StepShape

(* No step of any caller changes a turn that has ended. *)
THEOREM EndedTurnsAreFrozen == Spec => EndedTurnIsFrozen
BY TypeCorrect, EndedStep, PTL DEF Spec, EndedTurnIsFrozen

-----------------------------------------------------------------------------
(* The journal *)

(* The journal of the refinement mapping, and what it maps turns to. *)
Entries == [v \in 1..trip.version |-> snapshots[v].turn]
Phases == [t \in Turn |-> JournalPhase(t)]
Bases == [t \in Turn |-> turns[t].base]

LEMMA PhaseOf ==
  ASSUME NEW t \in Turn
  PROVE  /\ turns[t].status = "none" => JournalPhase(t) = "new"
         /\ turns[t].status \in Live => JournalPhase(t) = "open"
         /\ turns[t].status \in {"committed", "failed", "cancelled"} =>
              JournalPhase(t) = "ended"
BY DEF JournalPhase, Live

LEMMA JournalInit == Init => Journal!Init
<1> SUFFICES ASSUME Init PROVE Journal!Init
  OBVIOUS
<1>1. trip.version = 0 /\ \A t \in Turn : turns[t].status = "none" /\ turns[t].base = 0
  BY DEF Init, NoTurn
<1>2. Entries = << >>
  BY <1>1 DEF Entries
<1>3. Phases = [t \in Turn |-> "new"]
  BY <1>1, PhaseOf DEF Phases
<1>4. Bases = [t \in Turn |-> 0]
  BY <1>1 DEF Bases
<1> QED BY <1>2, <1>3, <1>4 DEF Journal!Init, Entries, Phases, Bases

(* A step that leaves snapshots, phases and bases alone is a stutter above. *)
LEMMA JournalStutter ==
  ASSUME UNCHANGED <<trip, turns, snapshots>>
  PROVE  UNCHANGED <<Entries, Phases, Bases>>
BY DEF Entries, Phases, Bases, JournalPhase

LEMMA JournalSubmit ==
  ASSUME TypeOK, LinearHistory, NEW c \in Caller, NEW t \in Turn, AcceptInsert(c, t)
  PROVE  Journal!Submit(t)
<1>1. /\ turns[t].status = "none"
      /\ turns'[t].status = "accepted" /\ turns'[t].base = trip.version
      /\ \A s \in Turn \ {t} : turns'[s] = turns[s]
      /\ trip' = trip /\ snapshots' = snapshots
  BY DEF AcceptInsert, TypeOK, resultVars
<1>2. Entries' = Entries
  BY <1>1 DEF Entries
<1>3. trip.version = Len(Entries)
  BY BoundType DEF Entries, TypeOK, Version
<1>4. JournalPhase(t) = "new" /\ JournalPhase(t)' = "open"
  BY <1>1 DEF JournalPhase, Live
<1>5. Phases' = [Phases EXCEPT ![t] = "open"]
  BY <1>1, <1>4 DEF Phases, JournalPhase
<1>6. Bases' = [Bases EXCEPT ![t] = Len(Entries)]
  BY <1>1, <1>3 DEF Bases
<1> QED BY <1>2, <1>4, <1>5, <1>6 DEF Journal!Submit, Entries, Phases, Bases

LEMMA SeqIsFunction ==
  ASSUME NEW S, NEW s \in Seq(S)
  PROVE  s = [i \in 1..Len(s) |-> s[i]]
BY LenProperties

LEMMA JournalPublish ==
  ASSUME TypeOK, LinearHistory, NEW t \in Turn, NEW r \in Result, CommitTurnResult(t, r)
  PROVE  Journal!Publish(t)
<1>1. /\ New \in 1..MaxVersion /\ New = trip.version + 1 /\ trip'.version = New
      /\ turns[t].status \in Live
      /\ turns'[t].status = "committed" /\ turns'[t].base = New - 1
      /\ \A s \in Turn \ {t} : turns'[s] = turns[s]
      /\ snapshots'[New].turn = t
      /\ \A w \in (1..MaxVersion) \ {New} : snapshots'[w] = snapshots[w]
  BY CommitShape DEF New
<1>2. trip.version \in Nat /\ MaxVersion \in Nat
  BY BoundType DEF TypeOK, Version
<1>3. Entries \in Seq(Turn) /\ Len(Entries) = trip.version
  BY <1>2 DEF Entries, LinearHistory
<1>4. Entries' = Append(Entries, t)
  <2>1. Entries' = [v \in 1..(trip.version + 1) |-> snapshots'[v].turn]
    BY <1>1 DEF Entries
  <2>2. \A v \in 1..trip.version : snapshots'[v].turn = Entries[v]
    BY <1>1, <1>2 DEF Entries
  <2>3. /\ Append(Entries, t) \in Seq(Turn)
        /\ Len(Append(Entries, t)) = trip.version + 1
        /\ \A v \in 1..trip.version : Append(Entries, t)[v] = Entries[v]
        /\ Append(Entries, t)[trip.version + 1] = t
    BY <1>3, AppendProperties
  <2>4. Append(Entries, t) = [v \in 1..(trip.version + 1) |-> Append(Entries, t)[v]]
    BY <2>3, SeqIsFunction, Zenon
  <2>5. \A v \in 1..(trip.version + 1) : Append(Entries, t)[v] = snapshots'[v].turn
    BY <1>1, <1>2, <2>2, <2>3
  <2> QED BY <2>1, <2>4, <2>5
<1>5. JournalPhase(t) = "open" /\ JournalPhase(t)' = "ended"
  BY <1>1 DEF JournalPhase, Live
<1>6. Phases' = [Phases EXCEPT ![t] = "ended"]
  <2>1. \A s \in Turn \ {t} : JournalPhase(s)' = JournalPhase(s)
    BY <1>1 DEF JournalPhase
  <2> QED BY <1>5, <2>1 DEF Phases
<1>7. turns[t].base = Len(Entries) /\ Bases' = Bases
  <2>1. turns[t].base = trip.version
    BY <1>2 DEF CommitTurnResult, ClaimsVersion
  <2> QED BY <1>1, <1>2, <1>3, <2>1 DEF Bases
<1> QED BY <1>4, <1>5, <1>6, <1>7 DEF Journal!Publish, Entries, Phases, Bases

LEMMA JournalWithdraw ==
  ASSUME TypeOK, NEW t \in Turn, NEW cancelled \in BOOLEAN, MarkTurnFailed(t, cancelled)
  PROVE  Journal!Withdraw(t)
<1>1. turns' = [turns EXCEPT ![t].status = EndedAs(cancelled)] /\ turns[t].status \in Live
  BY DEF MarkTurnFailed, MayEnd
<1>2. /\ turns'[t].status = EndedAs(cancelled) /\ turns'[t].base = turns[t].base
      /\ \A s \in Turn \ {t} : turns'[s] = turns[s]
      /\ trip' = trip /\ snapshots' = snapshots
  BY <1>1 DEF TypeOK, TurnRow, MarkTurnFailed, resultVars
<1>3. JournalPhase(t) = "open" /\ JournalPhase(t)' = "ended"
  BY <1>1, <1>2 DEF JournalPhase, Live, EndedAs
<1>4. Phases' = [Phases EXCEPT ![t] = "ended"]
  <2>1. \A s \in Turn \ {t} : JournalPhase(s)' = JournalPhase(s)
    BY <1>2 DEF JournalPhase
  <2> QED BY <1>3, <2>1 DEF Phases
<1>5. Entries' = Entries /\ Bases' = Bases
  BY <1>2 DEF Entries, Bases
<1> QED BY <1>3, <1>4, <1>5 DEF Journal!Withdraw, Entries, Phases, Bases

LEMMA JournalStep ==
  TypeOK /\ LinearHistory /\ [Next]_vars => [Journal!Next]_(Journal!journalVars)
<1> SUFFICES ASSUME TypeOK, LinearHistory, [Next]_vars
             PROVE  Journal!Next \/ UNCHANGED Journal!journalVars
  OBVIOUS
<1>1. CASE \E c \in Caller, t \in Turn : AcceptInsert(c, t)
  BY <1>1, JournalSubmit DEF Journal!Next
<1>2. CASE \E t \in Turn, r \in Result : CommitTurnResult(t, r)
  BY <1>2, JournalPublish DEF Journal!Next
<1>3. CASE \E t \in Turn, cancelled \in BOOLEAN : MarkTurnFailed(t, cancelled)
  BY <1>3, JournalWithdraw DEF Journal!Next
<1>4. CASE UNCHANGED <<trip, turns, snapshots>>
  BY <1>4, JournalStutter DEF Journal!journalVars, Entries, Phases, Bases
<1> QED
  BY <1>1, <1>2, <1>3, <1>4
  DEF Next, vars, resultVars, AcceptReplay, AcceptFind, AcceptCollision, AcceptStale,
      AppendSetupFeedback

(* The rows implement the journal: above them, versions are appended one by  *)
(* one by turns submitted at the end of the journal they extend.             *)
THEOREM StoreIsJournal == Spec => ImplementsJournal
BY TypeCorrect, HistoryIsLinear, JournalInit, JournalStep, PTL
   DEF Spec, ImplementsJournal, Journal!Spec
==============================================================================
