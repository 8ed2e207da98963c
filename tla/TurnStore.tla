------------------------------ MODULE TurnStore ------------------------------
(***************************************************************************)
(* The durable half of the V4 turn protocol: the rows of ONE trip that     *)
(* TurnRepository (backend/persistence/turn_repository.py) reads and       *)
(* writes, and its four writing transactions.                              *)
(*                                                                         *)
(*   accept_turn           admits a command: a turn row and its user       *)
(*                         message, both "accepted"                        *)
(*   append_setup_feedback a system message beside a turn still running    *)
(*   commit_turn_result    publishes a turn: the trip's next version, its  *)
(*                         snapshot, formal plan, pending card, the two    *)
(*                         conversation messages and the outbox bundle     *)
(*   mark_turn_failed      ends a turn without a result                    *)
(*                                                                         *)
(* Every transaction but accept_turn starts with SELECT ... FOR UPDATE     *)
(* over agent_turns JOIN trips, which locks the trip row, so two of them   *)
(* never overlap: each is one action.  accept_turn looks for an earlier    *)
(* admission BEFORE it locks the trip, so it is two actions, and what it   *)
(* saw may be stale when it inserts.  A transaction that fails (a rejected *)
(* write, an injected fault, a crash) is rolled back and leaves the rows   *)
(* as they were: it is a stuttering step.                                  *)
(***************************************************************************)
EXTENDS Naturals, FiniteSets

CONSTANTS
  Turn,         \* ids accept_turn may mint (uuid4: never minted twice)
  Command,      \* the commands clients send, see CommandType
  Generation,   \* generation ids
  Interaction,  \* pending-interaction (card) ids
  Plan,         \* plan-version ids
  Caller,       \* concurrent callers of accept_turn
  Null,         \* SQL NULL
  MaxVersion    \* bound on the trip's state_version

(* What admission tells two commands apart by: request_id, idempotency_key, *)
(* the fingerprint of the whole command, and the user message it carries.   *)
ASSUME CommandType ==
  \A c \in Command : DOMAIN c = {"request", "key", "print", "message"}
ASSUME BoundType == MaxVersion \in Nat
ASSUME NullType ==
  Null \notin Turn \cup Command \cup Generation \cup Interaction \cup Plan

VARIABLES
  trip,          \* [version, plan]: trips.state_version, current_plan_version_id
  turns,         \* turns[t]: the agent_turns row
  userMessage,   \* userMessage[t]: status and version of the turn's user message
  answerMessage, \* answerMessage[t]: version of its assistant message, 0 if none
  feedback,      \* feedback[<<g, n>>]: the turn whose system message that is
  snapshots,     \* snapshots[v]: the trip_snapshots row of version v
  plans,         \* plans[p]: the trip_versions row
  interactions,  \* interactions[i]: the pending_interactions row
  outbox,        \* outbox[t]: committed_state_version of its bundle, 0 if none
  admitting,     \* admitting[c]: the command a caller has found no turn for
  answers        \* history: <<command, turn>> pairs accept_turn has returned

vars == <<trip, turns, userMessage, answerMessage, feedback, snapshots, plans,
          interactions, outbox, admitting, answers>>
resultVars == <<answerMessage, snapshots, plans, interactions, outbox>>

-----------------------------------------------------------------------------
(* Rows *)

Live == {"accepted", "running"}
Status == Live \cup {"committed", "failed", "cancelled"}

NoTurn == [status |-> "none", command |-> Null, generation |-> Null,
           base |-> 0, committed |-> 0]
NoSnapshot == [turn |-> Null, pending |-> Null, plan |-> Null]
NoPlan == [number |-> 0, parent |-> Null, change |-> Null, version |-> 0,
           generation |-> Null]
NoInteraction == [status |-> "none", issued |-> 0, closed |-> 0]

Version == 0..MaxVersion
TurnRow == [status : Status \cup {"none"}, command : Command \cup {Null},
            generation : Generation \cup {Null}, base : Version, committed : Version]
Row == {t \in Turn : turns[t].status # "none"}

(* Every row holds values its table admits: the status check constraints, *)
(* and versions no transaction can take beyond the bound.                  *)
TypeOK ==
  /\ trip \in [version : Version, plan : Plan \cup {Null}]
  /\ turns \in [Turn -> TurnRow]
  /\ userMessage \in [Turn -> [status : {"none", "accepted", "committed"},
                               version : Version]]
  /\ answerMessage \in [Turn -> Version]
  /\ feedback \in [Generation \X {0, 1} -> Turn \cup {Null}]
  /\ snapshots \in [1..MaxVersion -> [turn : Turn \cup {Null},
                                      pending : Interaction \cup {Null},
                                      plan : Plan \cup {Null}]]
  /\ plans \in [Plan -> [number : Version, parent : Plan \cup {Null}, change : Plan \cup {Null},
                         version : Version, generation : Generation \cup {Null}]]
  /\ interactions \in
       [Interaction -> [status : {"none", "active", "answered", "superseded"},
                        issued : Version, closed : Version]]
  /\ outbox \in [Turn -> Version]
  /\ admitting \in [Caller -> [command : Command, base : Version,
                               generation : Generation \cup {Null}] \cup {Null}]
  /\ answers \subseteq Command \X Turn

Init ==
  /\ trip = [version |-> 0, plan |-> Null]
  /\ turns = [t \in Turn |-> NoTurn]
  /\ userMessage = [t \in Turn |-> [status |-> "none", version |-> 0]]
  /\ answerMessage = [t \in Turn |-> 0]
  /\ feedback = [m \in Generation \X {0, 1} |-> Null]
  /\ snapshots = [v \in 1..MaxVersion |-> NoSnapshot]
  /\ plans = [p \in Plan |-> NoPlan]
  /\ interactions = [i \in Interaction |-> NoInteraction]
  /\ outbox = [t \in Turn |-> 0]
  /\ admitting = [c \in Caller |-> Null]
  /\ answers = {}

-----------------------------------------------------------------------------
(* accept_turn *)

(* _find_existing_turn: a turn admitted under this key or this request id. *)
Existing(cmd) ==
  {t \in Row : \/ turns[t].command.key = cmd.key
               \/ turns[t].command.request = cmd.request}

(* _accepted_replay hands the turn back only to the very same command. *)
SameCommand(t, cmd) ==
  /\ turns[t].command.key = cmd.key
  /\ turns[t].command.print = cmd.print

Collides_LookupOnly(cmd) == FALSE

(* The unique indexes an insert can hit: uq_agent_turns_idempotency and      *)
(* uq_agent_turns_request, and those of messages (the primary key and        *)
(* uq_messages_client_id, models.py:277).                                    *)
Collides(cmd) ==
  \/ Existing(cmd) # {}
  \/ \E t \in Row : turns[t].command.message = cmd.message

(* The look-up, before any lock: a replay is answered at once. *)
AcceptReplay(c, cmd) ==
  /\ admitting[c] = Null
  /\ \E t \in Existing(cmd) :
       /\ SameCommand(t, cmd)
       /\ answers' = answers \cup {<<cmd, t>>}
  /\ UNCHANGED <<trip, turns, userMessage, feedback, admitting, resultVars>>

(* Nothing found; the transaction goes on to lock the trip row. *)
AcceptFind(c, cmd, base, gen) ==
  /\ admitting[c] = Null
  /\ Existing(cmd) = {}
  /\ admitting' = [admitting EXCEPT
                     ![c] = [command |-> cmd, base |-> base, generation |-> gen]]
  /\ UNCHANGED <<trip, turns, userMessage, feedback, answers, resultVars>>

(* The trip row is locked and its version matches: insert both rows. *)
AcceptInsert(c, t) ==
  LET a == admitting[c] IN
  /\ a # Null
  /\ trip.version = a.base
  /\ ~Collides(a.command)
  /\ turns[t].status = "none"
  /\ turns' = [turns EXCEPT ![t] =
                 [status |-> "accepted", command |-> a.command,
                  generation |-> a.generation, base |-> a.base, committed |-> 0]]
  /\ userMessage' = [userMessage EXCEPT
                       ![t] = [status |-> "accepted", version |-> a.base]]
  /\ answers' = answers \cup {<<a.command, t>>}
  /\ admitting' = [admitting EXCEPT ![c] = Null]
  /\ UNCHANGED <<trip, feedback, resultVars>>

(* The insert hits an index: roll back, look again, replay if it is the same *)
(* command, else report the conflict (nothing is answered).                  *)
AcceptCollision(c) ==
  LET a == admitting[c] IN
  /\ a # Null
  /\ trip.version = a.base
  /\ Collides(a.command)
  /\ \/ \E t \in Existing(a.command) :
          SameCommand(t, a.command) /\ answers' = answers \cup {<<a.command, t>>}
     \/ /\ \/ Existing(a.command) = {}
           \/ \E t \in Existing(a.command) : ~SameCommand(t, a.command)
        /\ UNCHANGED answers
  /\ admitting' = [admitting EXCEPT ![c] = Null]
  /\ UNCHANGED <<trip, turns, userMessage, feedback, resultVars>>

(* TurnStateVersionConflictError, raised under the lock. *)
AcceptStale(c) ==
  /\ admitting[c] # Null
  /\ trip.version # admitting[c].base
  /\ admitting' = [admitting EXCEPT ![c] = Null]
  /\ UNCHANGED <<trip, turns, userMessage, feedback, answers, resultVars>>

-----------------------------------------------------------------------------
(* append_setup_feedback: message n of generation g, at most once *)

MayFeedback_AnyStatus(t) == turns[t].status # "none"

MayFeedback(t) == turns[t].status \in Live

AppendSetupFeedback(t, n) ==
  LET m == <<turns[t].generation, n>> IN
  /\ MayFeedback(t)
  /\ turns[t].generation # Null
  /\ feedback[m] = Null
  /\ feedback' = [feedback EXCEPT ![m] = t]
  /\ UNCHANGED <<trip, turns, userMessage, admitting, answers, resultVars>>

-----------------------------------------------------------------------------
(* commit_turn_result *)

(* What a handler hands over, as far as the transaction tells results apart: *)
(* the generation that produced it, the card it leaves open, the card it     *)
(* answered, the formal plan it publishes with the plan its change request   *)
(* starts from, and the plan its state names as the current one.             *)
Result == [generation : Generation,
           pending : Interaction \cup {Null}, answered : Interaction \cup {Null},
           plan : Plan \cup {Null}, change : Plan \cup {Null},
           current : Plan \cup {Null}]

MayCommit_AnyStatus(t) == turns[t].status # "none" /\ turns[t].status # "committed"

MayCommit(t) == turns[t].status \in Live

NextVersion(t) == turns[t].base + 1

ClaimsVersion_NoCas(t) == TRUE

(* UPDATE trips ... WHERE state_version = base_state_version, rowcount 1. *)
ClaimsVersion(t) == trip.version = turns[t].base

ChangeMatches_Unchecked(r) == TRUE

(* A formal plan that follows another one must start from exactly that one. *)
ChangeMatches(r) ==
  /\ trip.plan # Null => r.change # Null
  /\ r.change # Null => r.change = trip.plan

(* Unique indexes of trip_versions: the id and (trip_id, generation_id). *)
PlanIsNew(r) ==
  /\ plans[r.plan].number = 0
  /\ \A q \in Plan : plans[q].number # 0 => plans[q].generation # r.generation

(* max(version_number) + 1 *)
NextNumber(n) ==
  /\ \A q \in Plan : plans[q].number < n
  /\ n = 1 \/ \E q \in Plan : plans[q].number = n - 1

(* state.current_plan_version_id: the plan just published; else the code     *)
(* checks nothing, and the foreign key of trips asks for a plan of the trip. *)
CurrentMatches(r) ==
  IF r.plan # Null THEN r.current = r.plan
  ELSE r.current # Null => plans[r.current].number # 0

(* The card that is still active once the answered one is closed. *)
ActiveAfterAnswer(r) ==
  {i \in Interaction : interactions[i].status = "active" /\ i # r.answered}

(* rowcount 1 for the answered card; a new card must have a new id. *)
CardsMatch(r) ==
  /\ r.answered # Null => interactions[r.answered].status = "active"
  /\ r.pending # Null =>
       \/ r.pending \in ActiveAfterAnswer(r)
       \/ interactions[r.pending].status = "none"

CardsAfter_NullLeavesCard(t, r) ==
  [i \in Interaction |->
     CASE i = r.answered ->
            [interactions[i] EXCEPT !.status = "answered", !.closed = NextVersion(t)]
       [] i = r.pending /\ interactions[i].status = "none" ->
            [status |-> "active", issued |-> NextVersion(t), closed |-> 0]
       [] i \in ActiveAfterAnswer(r) /\ r.pending # Null /\ i # r.pending ->
            [interactions[i] EXCEPT !.status = "superseded", !.closed = NextVersion(t)]
       [] OTHER -> interactions[i]]

(* Close the answered card; unless the result keeps the active card, *)
(* supersede it and issue the new one.                                *)
CardsAfter(t, r) ==
  [i \in Interaction |->
     CASE i = r.answered ->
            [interactions[i] EXCEPT !.status = "answered", !.closed = NextVersion(t)]
       [] i = r.pending /\ interactions[i].status = "none" ->
            [status |-> "active", issued |-> NextVersion(t), closed |-> 0]
       [] i \in ActiveAfterAnswer(r) /\ i # r.pending ->
            [interactions[i] EXCEPT !.status = "superseded", !.closed = NextVersion(t)]
       [] OTHER -> interactions[i]]

PublishPlan(t, r) ==
  IF r.plan = Null THEN UNCHANGED plans
  ELSE /\ ChangeMatches(r)
       /\ PlanIsNew(r)
       /\ \E n \in 1..MaxVersion :
            /\ NextNumber(n)
            /\ plans' = [plans EXCEPT ![r.plan] =
                           [number |-> n, parent |-> trip.plan, change |-> r.change,
                            version |-> NextVersion(t), generation |-> r.generation]]

CommitTurnResult(t, r) ==
  LET v == NextVersion(t) IN
  /\ MayCommit(t)
  /\ turns[t].generation \in {r.generation, Null}
  /\ v <= MaxVersion
  /\ ClaimsVersion(t)
  /\ CurrentMatches(r)
  /\ CardsMatch(r)
  /\ userMessage[t].status = "accepted"
  /\ trip' = [version |-> v, plan |-> r.current]
  /\ PublishPlan(t, r)
  /\ snapshots' = [snapshots EXCEPT
                     ![v] = [turn |-> t, pending |-> r.pending, plan |-> r.current]]
  /\ interactions' = CardsAfter(t, r)
  /\ userMessage' = [userMessage EXCEPT ![t] = [status |-> "committed", version |-> v]]
  /\ answerMessage' = [answerMessage EXCEPT ![t] = v]
  /\ outbox' = [outbox EXCEPT ![t] = v]
  /\ turns' = [turns EXCEPT ![t].status = "committed", ![t].committed = v,
                            ![t].generation = r.generation]
  /\ UNCHANGED <<feedback, admitting, answers>>

-----------------------------------------------------------------------------
(* mark_turn_failed *)

MayEnd_AnyStatus(t) == turns[t].status # "none"

MayEnd(t) == turns[t].status \in Live

EndedAs_Aborted(cancelled) == IF cancelled THEN "aborted" ELSE "failed"

EndedAs(cancelled) == IF cancelled THEN "cancelled" ELSE "failed"

MarkTurnFailed(t, cancelled) ==
  /\ MayEnd(t)
  /\ turns' = [turns EXCEPT ![t].status = EndedAs(cancelled)]
  /\ UNCHANGED <<trip, userMessage, feedback, admitting, answers, resultVars>>

-----------------------------------------------------------------------------

Next ==
  \/ \E c \in Caller, cmd \in Command : AcceptReplay(c, cmd)
  \/ \E c \in Caller, cmd \in Command, b \in Version, g \in Generation \cup {Null} :
       AcceptFind(c, cmd, b, g)
  \/ \E c \in Caller, t \in Turn : AcceptInsert(c, t)
  \/ \E c \in Caller : AcceptCollision(c)
  \/ \E c \in Caller : AcceptStale(c)
  \/ \E t \in Turn, n \in {0, 1} : AppendSetupFeedback(t, n)
  \/ \E t \in Turn, r \in Result : CommitTurnResult(t, r)
  \/ \E t \in Turn, cancelled \in BOOLEAN : MarkTurnFailed(t, cancelled)

Spec == Init /\ [][Next]_vars

-----------------------------------------------------------------------------
(* Safety *)

(* The trip's history is one line: version v, for every v up to the trip's   *)
(* version, is the snapshot of exactly one committed turn, which was admitted *)
(* at v - 1, and beyond that version there is no snapshot (so the unique      *)
(* index on (trip_id, state_version) never fires).  Two turns admitted at the *)
(* same version may both run to the end; only one of them is ever committed.  *)
LinearHistory ==
  /\ \A v \in 1..trip.version :
       LET t == snapshots[v].turn IN
       /\ t \in Turn
       /\ turns[t].status = "committed"
       /\ turns[t].committed = v
       /\ turns[t].base = v - 1
  /\ \A v \in (trip.version + 1)..MaxVersion : snapshots[v] = NoSnapshot
  /\ \A t \in Turn : turns[t].status = "committed" =>
       /\ turns[t].committed \in 1..trip.version
       /\ snapshots[turns[t].committed].turn = t

(* A command is admitted once however often and however concurrently it is   *)
(* sent: the rows never share an idempotency key or a request id, and what   *)
(* accept_turn answered for a command is always the turn of that command.    *)
AdmissionIsIdempotent ==
  /\ \A s, t \in Row :
       (\/ turns[s].command.key = turns[t].command.key
        \/ turns[s].command.request = turns[t].command.request) => s = t
  /\ \A a \in answers : a[2] \in Row /\ SameCommand(a[2], a[1])

(* The card the database holds open is the one the newest snapshot says is   *)
(* open: none is left active when the state has moved on, and none is closed *)
(* that the state still waits for.                                           *)
PendingCardIsCurrent ==
  {i \in Interaction : interactions[i].status = "active"}
    = IF trip.version = 0 THEN {} ELSE {snapshots[trip.version].pending} \ {Null}

(* The formal plans form a chain in version order: a plan's parent is the    *)
(* plan that was current one version earlier, its change request starts from *)
(* that very plan, and numbers grow with versions.  The trip row points at   *)
(* the plan of its newest snapshot.                                          *)
PlanChain ==
  /\ trip.plan = IF trip.version = 0 THEN Null ELSE snapshots[trip.version].plan
  /\ \A p \in Plan : plans[p].number # 0 =>
       LET v == plans[p].version IN
       /\ v \in 1..trip.version
       /\ snapshots[v].plan = p
       /\ plans[p].parent = IF v = 1 THEN Null ELSE snapshots[v - 1].plan
       /\ plans[p].change = plans[p].parent
  /\ \A p, q \in Plan : plans[p].number # 0 /\ plans[q].number # 0 =>
       (plans[p].number < plans[q].number <=> plans[p].version < plans[q].version)

(* The conversation shows a turn's question, its answer and its delivery     *)
(* bundle together, at the turn's own version, or shows none of them: a turn *)
(* that failed or was cancelled, at whatever moment, leaves none behind.     *)
AllOrNothing ==
  \A t \in Turn :
    IF turns[t].status = "committed"
    THEN LET v == turns[t].committed IN
         /\ userMessage[t] = [status |-> "committed", version |-> v]
         /\ answerMessage[t] = v
         /\ outbox[t] = v
    ELSE /\ userMessage[t].status # "committed"
         /\ answerMessage[t] = 0
         /\ outbox[t] = 0

(* A turn that has ended, with its row, its messages, its bundle and the     *)
(* snapshots published so far, is as it was before the step.                 *)
LeavesEnded ==
  \A t \in Turn : turns[t].status \in {"committed", "failed", "cancelled"} =>
    /\ turns'[t] = turns[t]
    /\ userMessage'[t] = userMessage[t]
    /\ answerMessage'[t] = answerMessage[t]
    /\ outbox'[t] = outbox[t]
    /\ \A m \in DOMAIN feedback : feedback'[m] = t => feedback[m] = t
    /\ \A v \in 1..trip.version : snapshots'[v] = snapshots[v]

(* What a step may never do: change anything of a turn that has ended, or    *)
(* put another message of the program beside it.                             *)
EndedTurnIsFrozen == [][LeavesEnded]_vars

-----------------------------------------------------------------------------
(* Refinement *)

JournalPhase(t) ==
  CASE turns[t].status = "none" -> "new"
    [] turns[t].status \in Live -> "open"
    [] OTHER -> "ended"

Journal == INSTANCE TripJournal WITH
  journal <- [v \in 1..trip.version |-> snapshots[v].turn],
  phase <- [t \in Turn |-> JournalPhase(t)],
  base <- [t \in Turn |-> turns[t].base]

(* The rows implement the journal: whatever the callers do, versions are     *)
(* appended one by one by turns submitted at the end, and never rewritten.   *)
ImplementsJournal == Journal!Spec
==============================================================================
