----------------------------- MODULE PlannerRun -----------------------------
(***************************************************************************)
(* The executions that plan one confirmed task book, and the commands that *)
(* cancel them: handle_stream, _run and _cancel of PlannerJourneyService   *)
(* (backend/application/planner_journey_service.py) with the workspace     *)
(* rows of backend/persistence/checkpoint_repository.py.                   *)
(*                                                                         *)
(* An execution may stop anywhere and leave its turn open; a later command *)
(* resumes its generation from the newest workspace row.  A resumed        *)
(* execution has the same generation and its own lease: the Redis lock     *)
(* holds a token that nobody has twice, lapses by itself and is renewed at *)
(* every barrier.  Four things decide who may still write: the lock, the   *)
(* active-generation key, the turn row and the compare-and-swap on the     *)
(* newest workspace row.                                                   *)
(*                                                                         *)
(* Turn rows are those of TripJournal.  What a plan contains is left out.  *)
(***************************************************************************)
EXTENDS Naturals, Sequences, FiniteSetsExt

CONSTANTS
  Exec,      \* executions of _run; each makes one token and one fresh generation
  Start,     \* the start request of the book: every confirmation repeats it
  Resume,    \* requests that resume, answer or change
  Talk,      \* user messages, which the prepare journey handles
  Cancel,    \* cancel_generation commands
  Process,   \* server processes
  Nobody,
  MaxRev,    \* bound on the revision of a workspace row
  Steps      \* by how much advance() raises the revision between two saves

ASSUME ConstantsAreApart ==
  /\ Nobody \notin Exec \cup Process \cup Talk \cup Resume \cup {Start}
  /\ Start \notin Resume \cup Talk
  /\ Talk \cap (Exec \cup Resume) = {}
  /\ MaxRev \in Nat /\ Steps \subseteq Nat \ {0}

Request == Resume \cup {Start}
Turn == Request \cup Talk

VARIABLES
  journal, phase, base,  \* the turn rows: see TripJournal
  ws,        \* workspace rows in the order of their insertion
  lock,      \* the Redis trip lock: a token
  active,    \* the Redis active-generation key
  run,       \* run[e]: the execution e
  listed,    \* executions whose token is in _cancellations of their process
  cancel     \* cancel[c]: the execution of _cancel

rows == <<journal, phase, base>>
redis == <<lock, active>>
vars == <<rows, ws, redis, run, listed, cancel>>

Rows == INSTANCE TripJournal

-----------------------------------------------------------------------------

Admission == {"held", "taking", "admitting"}
Working == {"ready", "reading", "saving", "planning", "committing"}
Body == Admission \cup {"admitted", "committed"} \cup Working
Handlers == {"failing", "marking"}
Place == {"new", "loaded", "leaving", "done"} \cup Body \cup Handlers

(* version: the trip version it read; saw: the row it resumes, 0 for none;    *)
(* prev: the row it saved last or resumed; goal: what it does if the barrier  *)
(* lets it; halted: its ModelCancellation is cancelled; late: it lost the     *)
(* lease before its last barrier (history).                                   *)
Execution ==
  [pc : Place, req : Request \cup {Nobody}, home : Process \cup {Nobody},
   gen : Exec \cup {Nobody}, version : Nat, saw : Nat, prev : Nat,
   goal : {"saving", "committing"}, halted : BOOLEAN, late : BOOLEAN]

NoExecution == [pc |-> "new", req |-> Nobody, home |-> Nobody, gen |-> Nobody,
                version |-> 0, saw |-> 0, prev |-> 0, goal |-> "saving",
                halted |-> FALSE, late |-> FALSE]

Command ==
  [pc : {"idle", "stopping", "halting", "done"},
   at : Process \cup {Nobody}, gen : Exec \cup {Nobody}, target : Request \cup {Nobody}]

NoCommand == [pc |-> "idle", at |-> Nobody, gen |-> Nobody, target |-> Nobody]

(* basis: the row its content was made from, 0 for none. *)
WorkspaceRow == [gen : Exec, turn : Request, rev : Nat, basis : Nat]

(* Every variable holds what its column, key or registry can. *)
TypeOK ==
  /\ journal \in Seq(Turn)
  /\ phase \in [Turn -> {"new", "open", "ended"}]
  /\ base \in [Turn -> Nat]
  /\ ws \in Seq(WorkspaceRow)
  /\ lock \in Exec \cup {Nobody}
  /\ active \in Exec \cup {Nobody}
  /\ run \in [Exec -> Execution]
  /\ \A e \in Exec :
       /\ run[e].pc \notin {"new", "done"} =>
            run[e].req \in Request /\ run[e].home \in Process /\ run[e].gen \in Exec
       /\ run[e].saw <= Len(ws) /\ run[e].prev <= Len(ws)
  /\ listed \subseteq Exec
  /\ cancel \in [Cancel -> Command]

Init ==
  /\ Rows!Init
  /\ ws = << >>
  /\ lock = Nobody /\ active = Nobody
  /\ run = [e \in Exec |-> NoExecution]
  /\ listed = {}
  /\ cancel = [c \in Cancel |-> NoCommand]

At(e, pc) == run[e].pc = pc
Goto(e, pc) == run' = [run EXCEPT ![e].pc = pc]

(* The call is over; its local variables are gone. *)
Ended == [NoExecution EXCEPT !.pc = "done"]

Depart_Forgets(e) == run' = [run EXCEPT ![e] = [NoExecution EXCEPT !.pc = "leaving"]]

(* To the except block: what was saved and whether the token is cancelled *)
(* still matter.                                                          *)
Raise(e, halted) ==
  run' = [run EXCEPT ![e].pc = "failing", ![e].halted = halted, ![e].saw = 0,
                     ![e].goal = "saving", ![e].late = FALSE]

(* On with the turn, the generation and the token alone. *)
Reduce(e, pc) ==
  run' = [run EXCEPT ![e] = [NoExecution EXCEPT !.pc = pc, !.req = run[e].req,
                               !.home = run[e].home, !.gen = run[e].gen]]

(* To the finally block. *)
Depart(e) == Reduce(e, "leaving")

Committed(t) == \E v \in DOMAIN journal : journal[v] = t

(* The newest row of a generation, 0 if it has none. *)
Newest(g) == Max({i \in DOMAIN ws : ws[i].gen = g} \cup {0})

RevisionOf(i) == IF i = 0 THEN 0 ELSE ws[i].rev

(* _require_live_turn *)
Live(t, v) == phase[t] = "open" /\ base[t] = v /\ v = Len(journal)

(* mark_turn_failed where its TurnNotFoundError is suppressed. *)
EndTurn(t) ==
  IF phase[t] = "open" THEN Rows!Withdraw(t) ELSE UNCHANGED rows

-----------------------------------------------------------------------------
(* Admission: handle_stream before _run, the lock, the takeover, accept_turn *)

(* The snapshot gives the trip's version, _current_record the newest row.   *)
(* A confirmation starts a book that has no row yet.  A resume or an answer *)
(* goes on with the newest row's generation, a change of a published plan   *)
(* works on a fresh one; both take the row over.  A resume of an attempt    *)
(* that used up its revisions starts afresh.  Other commands end here.      *)
Load(e, q, p, how) ==
  LET n == Len(ws) IN
  /\ At(e, "new")
  /\ (q = Start) = (n = 0)
  /\ q = Start => how = "fresh"
  /\ how = "change" => journal # << >>
  /\ ~Committed(q)
  /\ run' = [run EXCEPT ![e] =
               [NoExecution EXCEPT !.pc = "loaded", !.req = q, !.home = p,
                  !.version = Len(journal),
                  !.gen = IF how = "resume" THEN ws[n].gen ELSE e,
                  !.saw = IF how = "fresh" THEN 0 ELSE n,
                  !.prev = IF how = "resume" THEN n ELSE 0]]
  /\ UNCHANGED <<rows, ws, redis, listed, cancel>>

(* acquire_trip_lock: SET NX, else planner_already_processing. *)
Acquire(e) ==
  /\ At(e, "loaded")
  /\ IF lock = Nobody THEN lock' = e /\ Goto(e, "held")
                      ELSE UNCHANGED lock /\ run' = [run EXCEPT ![e] = Ended]
  /\ UNCHANGED <<rows, ws, active, listed, cancel>>

Abandoned_Ignored(e) == FALSE

(* planner_turn_status of the row it resumes. *)
Abandoned(e) == run[e].saw # 0 /\ phase[ws[run[e].saw].turn] = "open"

CheckTurn(e) ==
  /\ At(e, "held")
  /\ Goto(e, IF Abandoned(e) THEN "taking" ELSE "admitting")
  /\ UNCHANGED <<rows, ws, redis, listed, cancel>>

(* mark_turn_failed(planner_execution_resumed); if the turn has ended in    *)
(* between, TurnNotFoundError leaves _run before anything was accepted.     *)
TakeOver(e) ==
  LET t == ws[run[e].saw].turn IN
  /\ At(e, "taking")
  /\ IF phase[t] = "open" THEN Rows!Withdraw(t) /\ Goto(e, "admitting")
                          ELSE UNCHANGED rows /\ Depart(e)
  /\ UNCHANGED <<ws, redis, listed, cancel>>

(* accept_turn inserts the turn, unless the trip has moved on. *)
Admit(e) ==
  LET q == run[e].req IN
  /\ At(e, "admitting")
  /\ phase[q] = "new"
  /\ IF run[e].version = Len(journal)
     THEN Rows!Submit(q) /\ Goto(e, "admitted")
     ELSE UNCHANGED rows /\ Depart(e)
  /\ UNCHANGED <<ws, redis, listed, cancel>>

(* The request was admitted before: a replay, which plans nothing. *)
Repeat(e) ==
  /\ At(e, "admitting")
  /\ phase[run[e].req] # "new"
  /\ Depart(e)
  /\ UNCHANGED <<rows, ws, redis, listed, cancel>>

(* replace_active_generation; the token is listed, the heartbeat starts. *)
Activate(e) ==
  /\ At(e, "admitted")
  /\ active' = run[e].gen
  /\ listed' = {e} \cup {d \in listed : run[d].home # run[e].home
                                        \/ run[d].gen # run[e].gen}
  /\ Goto(e, "ready")
  /\ UNCHANGED <<rows, ws, lock, cancel>>

-----------------------------------------------------------------------------
(* The barrier, checkpoints and the plan *)

HasLease_TokenOnly(e) == ~run[e].halted

(* raise_if_cancelled, and renew_trip_lock with this execution's token. *)
HasLease(e) == ~run[e].halted /\ lock = e

(* The barrier of checkpoint(), or the one before the result is committed. *)
Barrier(e, goal) ==
  /\ \/ At(e, "ready") /\ goal = "saving"
     \/ At(e, "planning")
  /\ IF HasLease(e) THEN run' = [run EXCEPT ![e].pc = "reading", ![e].goal = goal]
                    ELSE Raise(e, TRUE)
  /\ UNCHANGED <<rows, ws, redis, listed, cancel>>

(* get_active_generation *)
ReadActive(e) ==
  /\ At(e, "reading")
  /\ IF active = run[e].gen THEN Goto(e, run[e].goal) ELSE Raise(e, TRUE)
  /\ UNCHANGED <<rows, ws, redis, listed, cancel>>

MaySave_NoCas(e, rev) ==
  /\ Live(run[e].req, run[e].version)
  /\ rev > RevisionOf(Newest(run[e].gen))

(* save_planner_workspace: the turn is live, the revision is new, and the   *)
(* newest row of the generation is the one this execution goes on from.     *)
MaySave(e, rev) ==
  /\ Live(run[e].req, run[e].version)
  /\ rev > RevisionOf(Newest(run[e].gen))
  /\ Newest(run[e].gen) = run[e].prev

Append1(e, rev) ==
  ws' = Append(ws, [gen |-> run[e].gen, turn |-> run[e].req,
                    rev |-> rev, basis |-> run[e].prev])

Save(e) ==
  /\ At(e, "saving")
  /\ \E rev \in 1..MaxRev :
       /\ IF run[e].prev = 0 THEN rev = 1 ELSE rev - RevisionOf(run[e].prev) \in Steps
       /\ IF MaySave(e, rev)
          THEN /\ Append1(e, rev)
               /\ run' = [run EXCEPT ![e].pc = "planning", ![e].prev = Len(ws) + 1]
          ELSE UNCHANGED ws /\ Raise(e, run[e].halted)
  /\ UNCHANGED <<rows, redis, listed, cancel>>

(* The same value again: the row is there, with the same revision and hash. *)
SaveAgain(e) ==
  /\ At(e, "saving")
  /\ run[e].prev # 0 /\ ws[run[e].prev].turn = run[e].req
  /\ IF Live(run[e].req, run[e].version) /\ Newest(run[e].gen) = run[e].prev
     THEN Goto(e, "planning") ELSE Raise(e, run[e].halted)
  /\ UNCHANGED <<rows, ws, redis, listed, cancel>>

(* The heartbeat finds the key or the lease gone.  It may also never look:  *)
(* an error of Redis ends it unnoticed.                                     *)
Beat(e) ==
  /\ run[e].pc \in Working
  /\ lock # e \/ active # run[e].gen
  /\ run' = [run EXCEPT ![e].halted = TRUE]
  /\ UNCHANGED <<rows, ws, redis, listed, cancel>>

-----------------------------------------------------------------------------
(* Result, delivery and failure *)

(* commit_turn_result *)
Commit(e) ==
  LET q == run[e].req IN
  /\ At(e, "committing")
  /\ IF Live(q, base[q]) THEN Rows!Publish(q) /\ Goto(e, "committed")
                         ELSE UNCHANGED rows /\ Raise(e, run[e].halted)
  /\ UNCHANGED <<ws, redis, listed, cancel>>

(* What finish_planner_execution makes of the key, with the token compared. *)
KeyAfterFinish_AnyToken(e) == IF active = run[e].gen THEN Nobody ELSE active

KeyAfterFinish(e) ==
  IF lock = e /\ active = run[e].gen THEN Nobody ELSE active

(* finish_planner_execution(release_lock=False), and dispatch_committed if  *)
(* this execution still has the lease: see OutboxDelivery.                  *)
Deliver(e) ==
  /\ At(e, "committed")
  /\ active' = KeyAfterFinish(e)
  /\ Depart(e)
  /\ UNCHANGED <<rows, ws, lock, listed, cancel>>

(* Any call raises: a cancelled or failed model call, the audit, Redis, the *)
(* database (also when it has committed and its answer is lost).            *)
Fail(e) ==
  /\ run[e].pc \in {"admitted", "committed"} \cup Working
  /\ Raise(e, run[e].halted)
  /\ UNCHANGED <<rows, ws, redis, listed, cancel>>

(* Before accept_turn has returned and after the commit errors are raised on; *)
(* a handler can raise itself.                                                *)
Escape(e) ==
  /\ run[e].pc \in Admission \cup {"committed"} \cup Handlers
  /\ Depart(e)
  /\ UNCHANGED <<rows, ws, redis, listed, cancel>>

(* except CancelledError: the turn stays open, the checkpoints stay. *)
Interrupt(e) ==
  /\ run[e].pc \in Body
  /\ Depart(e)
  /\ UNCHANGED <<rows, ws, redis, listed, cancel>>

(* except Exception: a FAILED row, without a barrier, unless cancelled; its *)
(* errors are passed over.                                                  *)
SaveFailed(e) ==
  LET rev == RevisionOf(run[e].prev) + 1 IN
  /\ At(e, "failing")
  /\ \/ ~run[e].halted /\ rev <= MaxRev /\ MaySave(e, rev) /\ Append1(e, rev)
     \/ UNCHANGED ws
  /\ Reduce(e, "marking")
  /\ UNCHANGED <<rows, redis, listed, cancel>>

MarkFailed(e) ==
  /\ At(e, "marking")
  /\ EndTurn(run[e].req)
  /\ Depart(e)
  /\ UNCHANGED <<ws, redis, listed, cancel>>

(* finally: the token is unlisted if it is its own; then                    *)
(* finish_planner_execution(release_lock=True).                             *)
Release(e) ==
  /\ At(e, "leaving")
  /\ listed' = listed \ {e}
  /\ active' = KeyAfterFinish(e)
  /\ lock' = IF lock = e THEN Nobody ELSE lock
  /\ run' = [run EXCEPT ![e] = Ended]
  /\ UNCHANGED <<rows, ws, cancel>>

(* Redis raises there, or the task is cancelled there. *)
ReleaseFails(e) ==
  /\ At(e, "leaving")
  /\ listed' = listed \ {e}
  /\ run' = [run EXCEPT ![e] = Ended]
  /\ UNCHANGED <<rows, ws, redis, cancel>>

-----------------------------------------------------------------------------
(* _cancel: a cancel_generation command, or a user message that finds the   *)
(* generation active                                                        *)

CancelGoto(c, pc) == cancel' = [cancel EXCEPT ![c].pc = pc]
CancelDone(c) == cancel' = [cancel EXCEPT ![c] = [NoCommand EXCEPT !.pc = "done"]]

(* handle_stream has loaded the record the command names, perhaps a while   *)
(* ago; cancel_v4_planner_workspace reads the newest row of its generation  *)
(* before it locks a turn ...                                               *)
Find(c, g, p) ==
  /\ cancel[c].pc = "idle"
  /\ Newest(g) # 0
  /\ cancel' = [cancel EXCEPT ![c] = [pc |-> "stopping", at |-> p, gen |-> g,
                                      target |-> ws[Newest(g)].turn]]
  /\ UNCHANGED <<rows, ws, redis, run, listed>>

(* ... and, if that turn is live, appends a cancelled row to the newest one. *)
Stop(c) ==
  LET g == cancel[c].gen
      t == cancel[c].target
      n == Newest(g)
  IN
  /\ cancel[c].pc = "stopping"
  /\ IF Live(t, base[t])
     THEN /\ ws' = Append(ws, [gen |-> g, turn |-> t, rev |-> RevisionOf(n) + 1, basis |-> n])
          /\ Rows!Withdraw(t)
          /\ CancelGoto(c, "halting")
     ELSE UNCHANGED <<rows, ws>> /\ CancelDone(c)
  /\ UNCHANGED <<redis, run, listed>>

(* The token, if this process runs the generation, and the key             *)
(* (clear_active_generation_if_matches).                                    *)
HaltAndClear(c) ==
  LET g == cancel[c].gen IN
  /\ cancel[c].pc = "halting"
  /\ run' = [e \in Exec |->
               IF e \in listed /\ run[e].home = cancel[c].at /\ run[e].gen = g
               THEN [run[e] EXCEPT !.halted = TRUE] ELSE run[e]]
  /\ active' = IF active = g THEN Nobody ELSE active
  /\ CancelDone(c)
  /\ UNCHANGED <<rows, ws, lock, listed>>

CancelFails(c) ==
  /\ cancel[c].pc \notin {"idle", "done"}
  /\ CancelDone(c)
  /\ UNCHANGED <<rows, ws, redis, run, listed>>

-----------------------------------------------------------------------------
(* The environment *)

(* A user message's turn (PrepareTurn) is admitted and its generation takes  *)
(* the key ...                                                              *)
TalkStarts(t) ==
  /\ phase[t] = "new"
  /\ Rows!Submit(t)
  /\ active' = Nobody
  /\ UNCHANGED <<ws, lock, run, listed, cancel>>

(* ... and its result may become the trip's next version. *)
TalkCommits(t) ==
  /\ Rows!Publish(t)
  /\ UNCHANGED <<ws, redis, run, listed, cancel>>

(* Its last barrier has not renewed the lease yet. *)
BeforeLastBarrier(e) ==
  \/ run[e].pc \in Admission \cup {"admitted", "ready", "saving", "planning"}
  \/ At(e, "reading") /\ run[e].goal = "saving"

(* 75 seconds without a renewal. *)
LeaseLapses ==
  /\ lock # Nobody
  /\ lock' = Nobody
  /\ run' = [run EXCEPT ![lock].late = @ \/ BeforeLastBarrier(lock)]
  /\ UNCHANGED <<rows, ws, active, listed, cancel>>

(* A process dies, and comes back with empty registries. *)
Crash(p) ==
  /\ run' = [e \in Exec |->
               IF run[e].home = p THEN Ended ELSE run[e]]
  /\ listed' = {e \in listed : run[e].home # p}
  /\ cancel' = [c \in Cancel |-> IF cancel[c].at = p
                                 THEN [NoCommand EXCEPT !.pc = "done"] ELSE cancel[c]]
  /\ UNCHANGED <<rows, ws, redis>>

-----------------------------------------------------------------------------

ExecNext(e) ==
  \/ \E q \in Request, p \in Process, how \in {"resume", "change", "fresh"} :
       Load(e, q, p, how)
  \/ Acquire(e) \/ CheckTurn(e) \/ TakeOver(e) \/ Admit(e) \/ Repeat(e) \/ Activate(e)
  \/ \E goal \in {"saving", "committing"} : Barrier(e, goal)
  \/ ReadActive(e) \/ Save(e) \/ SaveAgain(e) \/ Beat(e)
  \/ Commit(e) \/ Deliver(e) \/ Fail(e) \/ Escape(e) \/ Interrupt(e)
  \/ SaveFailed(e) \/ MarkFailed(e)
  \/ Release(e) \/ ReleaseFails(e)

CancelNext(c) ==
  \/ \E g \in Exec, p \in Process : Find(c, g, p)
  \/ Stop(c) \/ HaltAndClear(c) \/ CancelFails(c)

Next ==
  \/ \E e \in Exec : ExecNext(e)
  \/ \E c \in Cancel : CancelNext(c)
  \/ \E t \in Talk : TalkStarts(t) \/ TalkCommits(t)
  \/ LeaseLapses
  \/ \E p \in Process : Crash(p)

Spec == Init /\ [][Next]_vars

-----------------------------------------------------------------------------
(* Properties *)

(* The rows of a generation are a chain: each is made from the row before   *)
(* it and has a higher revision, although executions that took over from    *)
(* one another, their failure handlers and cancel commands all append.  No  *)
(* work that was saved is lost under what an older execution saves.         *)
NoLostUpdate ==
  \A i \in DOMAIN ws :
    LET older == {j \in 1..(i - 1) : ws[j].gen = ws[i].gen} IN
    /\ ws[i].basis = Max(older \cup {0})
    /\ \A j \in older : ws[j].rev < ws[i].rev

(* An execution that loses its lease before its last barrier never commits, *)
(* although a resumed execution works under the same    *)
(* generation, so that the active-generation key tells them not apart.      *)
LapsedNeverPublishes ==
  \A e \in Exec : run[e].late => ~At(e, "committed")

(* Whatever another execution does, the holder of the lease keeps it, and   *)
(* keeps its key unless the other one activates a generation of its own:    *)
(* what ends late does not disturb a resumed run of its generation.         *)
OthersSpareTheHolder ==
  \A e, d \in Exec :
    /\ e # d /\ run'[d].pc # run[d].pc /\ lock = e
    => /\ lock' = e
       /\ active = run[e].gen => active' = active \/ Activate(d)
OthersSpare == [][OthersSpareTheHolder]_vars

(* Once an execution is admitted, neither the turn of the row it took over   *)
(* nor any turn that saved an older row of its generation may still publish. *)
(* (A turn that had saved nothing when the execution looked still may: the   *)
(* takeover knows only the newest row's turn.)                               *)
TakeoverEndsThePast ==
  \A e \in Exec : run[e].pc \in {"admitted"} \cup Working =>
    \A i \in 1..run[e].saw :
      i = run[e].saw \/ ws[i].gen = run[e].gen => phase[ws[i].turn] = "ended"
=============================================================================
