----------------------------- MODULE PrepareTurn -----------------------------
(***************************************************************************)
(* The runs of one trip's turns and the commands that cancel them:         *)
(* handle_stream and _cancel_command of PrepareJourneyService              *)
(* (backend/application/prepare_journey_service.py), in several server     *)
(* processes.                                                              *)
(*                                                                         *)
(* Three places say whether a turn may still answer: the durable turn row, *)
(* the active-generation key in Redis, and the registries of the process   *)
(* that runs it.  Every await lies between two of them, so runs and        *)
(* cancellations interleave at each; a run's task may be cancelled once    *)
(* (its socket closed), any call it makes may raise, a process may die and *)
(* the Redis key may expire.                                               *)
(*                                                                         *)
(* The rows are those of TripJournal, which TurnStore implements: accept,  *)
(* commit and mark-failed are its Submit, Publish and Withdraw.  A turn    *)
(* and its generation are one name.  What a run thinks, emits on the way   *)
(* or delivers (OutboxDelivery) is left out.                               *)
(***************************************************************************)
EXTENDS Naturals, Sequences

CONSTANTS
  Turn,      \* freshly admitted commands; each has one turn and generation
  Cancel,    \* cancel_generation commands
  Process,   \* server processes
  Nobody     \* no active generation; no process yet

ASSUME NobodyIsNew == Nobody \notin Turn \cup Process

VARIABLES
  journal, phase, base,  \* the rows: see TripJournal
  active,    \* the Redis key: the trip's active generation
  run,       \* run[t]: the execution of handle_stream for t
  known,     \* in _cancellations and _generation_turns of its process
  halted,    \* turns whose ModelCancellation is cancelled
  claimed,   \* <<p, t>>: t in _terminal_generations of process p
  cancel,    \* cancel[c]: the execution of _cancel_command for c
  seen,      \* generations a browser was shown in turn.accepted
  told,      \* <<p, t>>: p handed a socket turn.failed or turn.cancelled for t
  answered   \* turns whose bundle went to the dispatcher

rows == <<journal, phase, base>>
memory == <<known, halted, claimed>>
screen == <<seen, told, answered>>
vars == <<rows, active, run, memory, cancel, screen>>

Rows == INSTANCE TripJournal

-----------------------------------------------------------------------------

(* Before the barrier; in the try block; in an except block; in finally. *)
Early == {"replaced", "running", "barrier"}
Body == {"accepted", "passed", "committing", "returning", "committed", "delivering"} \cup Early
Handlers == {"failing", "claiming", "interrupted"}
Finally == {"leaving", "popping"}

(* saved: result_committed; hit: the task was cancelled; lapsed: an error   *)
(* escaped a handler or came after the commit; prior: the generation it     *)
(* replaced.                                                                *)
Place == {"new", "done", "lost"} \cup Body \cup Handlers \cup Finally
Run == [pc : Place,
        home : Process \cup {Nobody}, prior : Turn \cup {Nobody},
        saved : BOOLEAN, hit : BOOLEAN, lapsed : BOOLEAN]

Command ==
  [pc : {"idle", "clearing", "looking", "marking", "claiming", "done"},
   at : Process \cup {Nobody}, target : Turn \cup {Nobody}]

(* Every variable holds what its column, key or registry can. *)
TypeOK ==
  /\ journal \in Seq(Turn)
  /\ phase \in [Turn -> {"new", "open", "ended"}]
  /\ base \in [Turn -> Nat]
  /\ active \in Turn \cup {Nobody}
  /\ run \in [Turn -> Run]
  /\ known \subseteq Turn /\ halted \subseteq Turn
  /\ claimed \subseteq (Process \cup {Nobody}) \X Turn
  /\ cancel \in [Cancel -> Command]
  /\ \A c \in Cancel : cancel[c].pc \notin {"idle", "done"} => cancel[c].target \in Turn
  /\ seen \subseteq Turn /\ answered \subseteq Turn
  /\ told \subseteq (Process \cup {Nobody}) \X Turn

Init ==
  /\ Rows!Init
  /\ active = Nobody
  /\ run = [t \in Turn |-> [pc |-> "new", home |-> Nobody, prior |-> Nobody,
                            saved |-> FALSE, hit |-> FALSE, lapsed |-> FALSE]]
  /\ known = {} /\ halted = {} /\ claimed = {}
  /\ cancel = [c \in Cancel |-> [pc |-> "idle", at |-> Nobody, target |-> Nobody]]
  /\ seen = {} /\ told = {} /\ answered = {}

Committed(t) == \E v \in DOMAIN journal : journal[v] = t

At(t, pc) == run[t].pc = pc
Goto(t, pc) == run' = [run EXCEPT ![t].pc = pc]

(* The turns process p runs. *)
Homed(p) == {t \in Turn : run[t].home = p}

(* clear_active_generation_if_matches *)
Cleared(t) == IF active = t THEN Nobody ELSE active

(* mark_turn_failed, whose refusals _mark_failed_safely swallows. *)
EndTurn(t) ==
  IF phase[t] = "open" THEN Rows!Withdraw(t) ELSE UNCHANGED rows

(* _claim_terminal_emission, and the event if the claim is won. *)
ClaimAndTell(p, t) ==
  /\ claimed' = claimed \cup {<<p, t>>}
  /\ told' = IF <<p, t>> \in claimed THEN told ELSE told \cup {<<p, t>>}
  /\ UNCHANGED <<known, halted, seen, answered>>

-----------------------------------------------------------------------------
(* The run: admission and generation *)

(* accept_turn inserts the rows. *)
Accept(t, p) ==
  /\ At(t, "new")
  /\ Rows!Submit(t)
  /\ run' = [run EXCEPT ![t].pc = "accepted", ![t].home = p]
  /\ UNCHANGED <<active, memory, cancel, screen>>

(* The call is cancelled, or the memory capture raises, before the try. *)
Abandon(t) ==
  /\ At(t, "accepted")
  /\ Goto(t, "lost")
  /\ UNCHANGED <<rows, active, memory, cancel, screen>>

(* The same command again: the replay shows the generation at once. *)
Replay(t) ==
  /\ ~At(t, "new")
  /\ seen' = seen \cup {t}
  /\ UNCHANGED <<rows, active, run, memory, cancel, told, answered>>

Previous_AsStored == IF active = Nobody THEN "" ELSE active

(* What the script returns, with its '' for a missing key taken as none. *)
Previous == active

(* replace_active_generation *)
Replace(t) ==
  /\ At(t, "accepted")
  /\ active' = t
  /\ run' = [run EXCEPT ![t].pc = "replaced", ![t].prior = Previous]
  /\ UNCHANGED <<rows, memory, cancel, screen>>

(* Register, cancel the replaced generation if this process runs it, admit  *)
(* and show turn.accepted.                                                  *)
Register(t) ==
  /\ At(t, "replaced")
  /\ known' = known \cup {t}
  /\ halted' = halted \cup ({run[t].prior} \cap known \cap Homed(run[t].home))
  /\ seen' = seen \cup {t}
  /\ Goto(t, "running")
  /\ UNCHANGED <<rows, active, claimed, cancel, told, answered>>

(* The graph has a result and cancellation.raise_if_cancelled passes. *)
GraphReturns(t) ==
  /\ At(t, "running")
  /\ t \notin halted
  /\ Goto(t, "barrier")
  /\ UNCHANGED <<rows, active, memory, cancel, screen>>

StillActive_TokenOnly(t) == t \notin halted

StillActive(t) == active = t

(* The commit barrier's read of the active generation. *)
Barrier(t) ==
  /\ At(t, "barrier")
  /\ Goto(t, IF StillActive(t) THEN "passed" ELSE "failing")
  /\ UNCHANGED <<rows, active, memory, cancel, screen>>

(* A result transformer has run, and raise_if_cancelled passes. *)
Transform(t) ==
  /\ At(t, "passed")
  /\ t \notin halted
  /\ Goto(t, "committing")
  /\ UNCHANGED <<rows, active, memory, cancel, screen>>

(* Without a transformer nothing is looked at again. *)
SkipTransform(t) ==
  /\ At(t, "passed")
  /\ Goto(t, "committing")
  /\ UNCHANGED <<rows, active, memory, cancel, screen>>

-----------------------------------------------------------------------------
(* The run: commit, delivery and failure *)

(* commit_turn_result: the turn must be open and its version the newest. *)
Commit(t) ==
  /\ At(t, "committing")
  /\ IF phase[t] = "open" /\ base[t] = Len(journal)
     THEN Rows!Publish(t) /\ Goto(t, "returning")
     ELSE UNCHANGED rows /\ Goto(t, "failing")
  /\ UNCHANGED <<active, memory, cancel, screen>>

(* The commit's acknowledgement arrives: result_committed = True. *)
CommitReturns(t) ==
  /\ At(t, "returning")
  /\ run' = [run EXCEPT ![t].pc = "committed", ![t].saved = TRUE]
  /\ UNCHANGED <<rows, active, memory, cancel, screen>>

(* The generation is no longer active; dispatch_committed starts. *)
ReleaseActive(t) ==
  /\ At(t, "committed")
  /\ active' = Cleared(t)
  /\ Goto(t, "delivering")
  /\ UNCHANGED <<rows, memory, cancel, screen>>

Deliver(t) ==
  /\ At(t, "delivering")
  /\ answered' = answered \cup {t}
  /\ Goto(t, "leaving")
  /\ UNCHANGED <<rows, active, memory, cancel, seen, told>>

(* Any call raises: a cancelled or failed model call, a provider, Redis, the *)
(* database (also after it has committed), or the dispatcher, if it cannot   *)
(* claim the bundle: that is a PrepareJourneyError like any other.           *)
Fail(t) ==
  /\ run[t].pc \in {"accepted", "passed", "committing", "returning", "delivering"} \cup Early
  /\ Goto(t, "failing")
  /\ UNCHANGED <<rows, active, memory, cancel, screen>>

(* After the commit any other error is raised on: audit, Redis, delivery. *)
FailLate(t) ==
  /\ run[t].pc \in {"committed", "delivering"}
  /\ run' = [run EXCEPT ![t].pc = "leaving", ![t].lapsed = TRUE]
  /\ UNCHANGED <<rows, active, memory, cancel, screen>>

(* The except blocks end the turn ... *)
MarkFailed(t) ==
  /\ At(t, "failing")
  /\ EndTurn(t)
  /\ Goto(t, "claiming")
  /\ UNCHANGED <<active, memory, cancel, screen>>

(* ... and say so, unless a cancel command of this process did. *)
TellFailure(t) ==
  /\ At(t, "claiming")
  /\ ClaimAndTell(run[t].home, t)
  /\ Goto(t, "leaving")
  /\ UNCHANGED <<rows, active, cancel>>

AfterInterrupt_NoRecord(t) == "leaving"

(* except CancelledError: a saved result stays, any other turn is ended. *)
AfterInterrupt(t) == IF run[t].saved THEN "leaving" ELSE "interrupted"

(* CancelledError in the try block, where cancellation.cancel() comes first. *)
Interrupt(t) ==
  /\ run[t].pc \in Body /\ ~run[t].hit
  /\ halted' = halted \cup {t}
  /\ run' = [run EXCEPT ![t].pc = AfterInterrupt(t), ![t].hit = TRUE]
  /\ UNCHANGED <<rows, active, known, claimed, cancel, screen>>

(* _record_interrupted_turn; nobody is told. *)
MarkInterrupted(t) ==
  /\ At(t, "interrupted")
  /\ EndTurn(t)
  /\ Goto(t, "leaving")
  /\ UNCHANGED <<active, memory, cancel, screen>>

(* A handler raises (audit and database both can), or is cancelled. *)
HandlerFails(t) ==
  /\ run[t].pc \in Handlers
  /\ run' = [run EXCEPT ![t].pc = "leaving", ![t].lapsed = TRUE]
  /\ UNCHANGED <<rows, active, memory, cancel, screen>>

FinalActive_Any(t) == Nobody

(* The finally block clears the generation ... *)
FinalActive(t) == Cleared(t)

Leave(t) ==
  /\ At(t, "leaving")
  /\ active' = FinalActive(t)
  /\ Goto(t, "popping")
  /\ UNCHANGED <<rows, memory, cancel, screen>>

(* ... and forgets it. *)
Pop(t) ==
  /\ At(t, "popping")
  /\ known' = known \ {t}
  /\ claimed' = claimed \ {<<run[t].home, t>>}
  /\ Goto(t, "done")
  /\ UNCHANGED <<rows, active, halted, cancel, screen>>

(* Redis raises in the finally block, or the task is cancelled there: the   *)
(* registries keep the generation.                                          *)
LeaveFails(t) ==
  /\ run[t].pc \in Finally
  /\ Goto(t, "lost")
  /\ UNCHANGED <<rows, active, memory, cancel, screen>>

-----------------------------------------------------------------------------
(* cancel_generation *)

CancelGoto(c, pc) == cancel' = [cancel EXCEPT ![c].pc = pc]

(* A browser cancels a generation it saw in turn.accepted or a snapshot. *)
Request(c, t, p) ==
  /\ cancel[c].pc = "idle"
  /\ t \in seen \/ active = t
  /\ cancel' = [cancel EXCEPT ![c] = [pc |-> "clearing", at |-> p, target |-> t]]
  /\ UNCHANGED <<rows, active, run, memory, screen>>

(* generation_conflict, unless the generation is the active one. *)
ClearForCancel(c) ==
  /\ cancel[c].pc = "clearing"
  /\ active' = Cleared(cancel[c].target)
  /\ CancelGoto(c, IF active = cancel[c].target THEN "looking" ELSE "done")
  /\ UNCHANGED <<rows, run, memory, screen>>

Registered_Ignored(t, p) == FALSE

Registered(t, p) == t \in known /\ run[t].home = p

LookUp(c) ==
  LET t == cancel[c].target
      p == cancel[c].at
  IN
  /\ cancel[c].pc = "looking"
  /\ IF Registered(t, p)
     THEN /\ halted' = halted \cup {t}
          /\ CancelGoto(c, "marking")
          /\ UNCHANGED <<known, claimed, screen>>
     ELSE /\ ClaimAndTell(p, t)
          /\ CancelGoto(c, "done")
  /\ UNCHANGED <<rows, active, run>>

MarkCancelled(c) ==
  /\ cancel[c].pc = "marking"
  /\ EndTurn(cancel[c].target)
  /\ CancelGoto(c, "claiming")
  /\ UNCHANGED <<active, run, memory, screen>>

TellCancelled(c) ==
  /\ cancel[c].pc = "claiming"
  /\ ClaimAndTell(cancel[c].at, cancel[c].target)
  /\ CancelGoto(c, "done")
  /\ UNCHANGED <<rows, active, run>>

(* Its task is cancelled with its socket, or one of its calls raises. *)
CancelFails(c) ==
  /\ cancel[c].pc \in {"clearing", "looking", "marking", "claiming"}
  /\ CancelGoto(c, "done")
  /\ UNCHANGED <<rows, active, run, memory, screen>>

-----------------------------------------------------------------------------
(* The environment *)

(* generation_ttl_seconds pass. *)
Expire ==
  /\ active # Nobody
  /\ active' = Nobody
  /\ UNCHANGED <<rows, run, memory, cancel, screen>>

(* A process dies, and comes back with empty registries. *)
Crash(p) ==
  /\ run' = [t \in Turn |-> IF run[t].home = p /\ run[t].pc # "done"
                            THEN [run[t] EXCEPT !.pc = "lost"] ELSE run[t]]
  /\ known' = known \ Homed(p)
  /\ claimed' = claimed \ ({p} \X Turn)
  /\ cancel' = [c \in Cancel |-> IF cancel[c].at = p
                                 THEN [cancel[c] EXCEPT !.pc = "done"] ELSE cancel[c]]
  /\ UNCHANGED <<rows, active, halted, screen>>

RunNext(t) ==
  \/ \E p \in Process : Accept(t, p)
  \/ Abandon(t) \/ Replay(t) \/ Replace(t) \/ Register(t)
  \/ GraphReturns(t) \/ Barrier(t) \/ Transform(t) \/ SkipTransform(t)
  \/ Commit(t) \/ CommitReturns(t) \/ ReleaseActive(t) \/ Deliver(t)
  \/ Fail(t) \/ FailLate(t) \/ MarkFailed(t) \/ TellFailure(t)
  \/ Interrupt(t) \/ MarkInterrupted(t) \/ HandlerFails(t)
  \/ Leave(t) \/ Pop(t) \/ LeaveFails(t)

CancelNext(c) ==
  \/ \E t \in Turn, p \in Process : Request(c, t, p)
  \/ ClearForCancel(c) \/ LookUp(c) \/ MarkCancelled(c) \/ TellCancelled(c)
  \/ CancelFails(c)

Next ==
  \/ \E t \in Turn : RunNext(t)
  \/ \E c \in Cancel : CancelNext(c)
  \/ \E p \in Process : Crash(p)
  \/ Expire

Spec == Init /\ [][Next]_vars

-----------------------------------------------------------------------------
(* Properties *)

(* A generation that lost the trip before its commit barrier - replaced by a *)
(* newer command, cancelled, or expired, in whichever process - never        *)
(* becomes a version of the trip, although its run learns of it only later.  *)
SupersededIsLost(t) == [](run[t].pc \in Early /\ active # t => []~Committed(t))
SupersededNeverCommits == \A t \in Turn : SupersededIsLost(t)

(* When the process that runs a turn has told a browser that the turn failed *)
(* or was cancelled, the turn is not committed afterwards: a cancellation    *)
(* that arrives after the barrier ends the row before it is reported.        *)
NotAnsweredAfterTold ==
  \A t \in Turn :
    <<run[t].home, t>> \in told /\ ~Committed(t) => ~Committed(t)'
ToldIsFinal == [][NotAnsweredAfterTold]_vars

(* A run that comes to its regular end, whatever raised or was cancelled on  *)
(* the way, leaves an ended turn; and unless its socket is gone somebody was *)
(* given the answer, or told that there is none, also when run and cancel    *)
(* command compete for the terminal event.                                   *)
OrderlyEnd ==
  \A t \in Turn : run[t].pc = "done" /\ ~run[t].lapsed =>
    /\ phase[t] = "ended"
    /\ run[t].hit \/ t \in answered \/ \E p \in Process : <<p, t>> \in told

(* Run u moves, or a cancel command aimed at it. *)
ActsFor(u) ==
  run'[u] # run[u] \/ \E c \in Cancel : cancel'[c] # cancel[c] /\ cancel[c].target = u

(* The key changes hands only rightly.  A run takes it once, when it is      *)
(* admitted: nobody puts back a generation that was cleared.  What else a    *)
(* run does, and a cancel command aimed at it, spares the key of any other   *)
(* run: a finally block that comes late does not clear a newer generation.   *)
(* And a run whose finally block came through has not left its own behind;   *)
(* one that crashed, or whose finally block raised or was cancelled, may:    *)
(* the key then names it until it expires or is replaced.                    *)
KeyStep ==
  /\ active' \notin {active, Nobody} => At(active', "accepted")
  /\ \A t, u \in Turn : u # t /\ active = t /\ ActsFor(u) => active' \in {t, u}
  /\ \A t \in Turn : run'[t].pc \in {"popping", "done"} => active' # t
KeyChangesHands == [][KeyStep]_vars

(* The comment on admission: once the browser sees this generation it must   *)
(* already be cancellable.                                                   *)
SeenIsCancellable ==
  \A t \in Turn : t \in seen /\ run[t].pc \in Body => t \in known

(* The comment on delivery: once the result is committed it is no longer a   *)
(* cancellable generation; while its run goes on to deliver the answer, no   *)
(* cancel command tells a browser that the turn was cancelled.               *)
CancelComesTooLate ==
  \A c \in Cancel :
    /\ LookUp(c) \/ TellCancelled(c)
    /\ Committed(cancel[c].target) /\ run[cancel[c].target].pc \in Body
    => told' = told
CommittedIsNotCancelled == [][CancelComesTooLate]_vars
==============================================================================
