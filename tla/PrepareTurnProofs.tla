-------------------------- MODULE PrepareTurnProofs --------------------------
(* Theorems about PrepareTurn, for any number of turns, cancel commands and  *)
(* processes.  The invariants below locate each fact of the registries, the  *)
(* Redis key and the rows at the places of a run where it holds.             *)
EXTENDS PrepareTurn, TLAPS

-----------------------------------------------------------------------------
(* Types *)

(* The places of a run. *)
LEMMA Places ==
  /\ {"new", "done", "lost", "failing", "claiming", "leaving", "popping", "interrupted"}
       \subseteq Place
  /\ {"accepted", "replaced", "running", "barrier", "passed", "committing", "returning",
      "committed", "delivering"} \subseteq Place
BY DEF Place, Body, Early, Handlers, Finally

(* A run that only moves stays well typed. *)
LEMMA MoveTypes ==
  ASSUME TypeOK, NEW t \in Turn, NEW pc \in Place, Goto(t, pc)
  PROVE  run' \in [Turn -> Run]
<1>1. run[t] \in Run
  BY DEF TypeOK
<1>2. [run[t] EXCEPT !.pc = pc] \in Run
  BY <1>1 DEF Run
<1>3. run' = [run EXCEPT ![t] = [run[t] EXCEPT !.pc = pc]]
  BY DEF Goto
<1> QED BY <1>2, <1>3 DEF TypeOK

(* mark_turn_failed keeps the rows well typed. *)
LEMMA EndTypes ==
  ASSUME TypeOK, NEW t \in Turn, EndTurn(t)
  PROVE  /\ journal' \in Seq(Turn)
         /\ phase' \in [Turn -> {"new", "open", "ended"}]
         /\ base' \in [Turn -> Nat]
BY DEF TypeOK, EndTurn, rows, Rows!Withdraw

(* A step of a run keeps every variable well typed. *)
LEMMA RunTypeStep ==
  ASSUME TypeOK, NEW t \in Turn, RunNext(t)
  PROVE  TypeOK'
<1> USE Places DEF rows, memory, screen
<1>c. Cleared(t) \in Turn \cup {Nobody}
  BY DEF Cleared, TypeOK
<1>h. run[t].home \in Process \cup {Nobody} /\ run[t] \in Run
  BY DEF TypeOK, Run
<1>1. ASSUME NEW p \in Process, Accept(t, p) PROVE TypeOK'
  <2>1. run' = [run EXCEPT ![t] = [run[t] EXCEPT !.pc = "accepted", !.home = p]]
    BY <1>1 DEF Accept
  <2>2. [run[t] EXCEPT !.pc = "accepted", !.home = p] \in Run
    BY <1>h DEF Run
  <2>3. run' \in [Turn -> Run]
    BY <2>1, <2>2 DEF TypeOK
  <2>4. phase' \in [Turn -> {"new", "open", "ended"}] /\ base' \in [Turn -> Nat]
    BY <1>1 DEF Accept, Rows!Submit, TypeOK
  <2> QED BY <1>1, <2>3, <2>4 DEF Accept, Rows!Submit, TypeOK
<1>2. CASE Replace(t)
  <2>1. run' = [run EXCEPT ![t] = [run[t] EXCEPT !.pc = "replaced", !.prior = active]]
    BY <1>2 DEF Replace, Previous
  <2>2. [run[t] EXCEPT !.pc = "replaced", !.prior = active] \in Run
    BY <1>h DEF Run, TypeOK
  <2>3. run' \in [Turn -> Run]
    BY <2>1, <2>2 DEF TypeOK
  <2> QED BY <1>2, <2>3 DEF Replace, TypeOK
<1>3. CASE Register(t)
  <2>1. run' \in [Turn -> Run]
    BY <1>3, MoveTypes DEF Register
  <2> QED BY <1>3, <2>1 DEF Register, TypeOK
<1>4. CASE Replay(t)
  BY <1>4 DEF Replay, TypeOK
<1>5. CASE Abandon(t) \/ GraphReturns(t) \/ Transform(t) \/ SkipTransform(t)
           \/ Fail(t) \/ LeaveFails(t)
  <2>1. run' \in [Turn -> Run]
    BY <1>5, MoveTypes DEF Abandon, GraphReturns, Transform, SkipTransform, Fail, LeaveFails
  <2> QED BY <1>5, <2>1
        DEF Abandon, GraphReturns, Transform, SkipTransform, Fail, LeaveFails, TypeOK
<1>6. CASE Barrier(t)
  <2>1. run' \in [Turn -> Run]
    BY <1>6, MoveTypes DEF Barrier
  <2> QED BY <1>6, <2>1 DEF Barrier, TypeOK
<1>7. CASE Commit(t)
  <2>1. run' \in [Turn -> Run]
    BY <1>7, MoveTypes DEF Commit
  <2>2. /\ journal' \in {journal, Append(journal, t)}
        /\ phase' \in {phase, [phase EXCEPT ![t] = "ended"]}
        /\ base' = base
    BY <1>7 DEF Commit, Rows!Publish
  <2>3. journal' \in Seq(Turn)
    <3>1. journal \in Seq(Turn) /\ Append(journal, t) \in Seq(Turn)
      BY DEF TypeOK
    <3> QED BY <2>2, <3>1
  <2>4. phase' \in [Turn -> {"new", "open", "ended"}]
    BY <2>2 DEF TypeOK
  <2> QED BY <1>7, <2>1, <2>2, <2>3, <2>4 DEF Commit, TypeOK
<1>8. CASE CommitReturns(t)
  <2>1. run' = [run EXCEPT ![t] = [run[t] EXCEPT !.pc = "committed", !.saved = TRUE]]
    BY <1>8 DEF CommitReturns
  <2>2. [run[t] EXCEPT !.pc = "committed", !.saved = TRUE] \in Run
    BY <1>h DEF Run
  <2> QED BY <1>8, <2>1, <2>2 DEF CommitReturns, TypeOK
<1>9. CASE ReleaseActive(t) \/ Leave(t)
  <2>1. run' \in [Turn -> Run]
    BY <1>9, MoveTypes DEF ReleaseActive, Leave
  <2> QED BY <1>9, <1>c, <2>1 DEF ReleaseActive, Leave, FinalActive, TypeOK
<1>10. CASE Deliver(t) \/ Pop(t)
  <2>1. run' \in [Turn -> Run]
    BY <1>10, MoveTypes DEF Deliver, Pop
  <2> QED BY <1>10, <2>1 DEF Deliver, Pop, TypeOK
<1>11. CASE FailLate(t) \/ HandlerFails(t)
  <2>1. run' = [run EXCEPT ![t] = [run[t] EXCEPT !.pc = "leaving", !.lapsed = TRUE]]
    BY <1>11 DEF FailLate, HandlerFails
  <2>2. [run[t] EXCEPT !.pc = "leaving", !.lapsed = TRUE] \in Run
    BY <1>h DEF Run
  <2> QED BY <1>11, <2>1, <2>2 DEF FailLate, HandlerFails, TypeOK
<1>12. CASE MarkFailed(t) \/ MarkInterrupted(t)
  <2>1. run' \in [Turn -> Run]
    BY <1>12, MoveTypes DEF MarkFailed, MarkInterrupted
  <2>2. EndTurn(t)
    BY <1>12 DEF MarkFailed, MarkInterrupted
  <2> QED BY <1>12, <2>1, <2>2, EndTypes DEF MarkFailed, MarkInterrupted, TypeOK
<1>13. CASE TellFailure(t)
  <2>1. run' \in [Turn -> Run]
    BY <1>13, MoveTypes DEF TellFailure
  <2> QED BY <1>13, <1>h, <2>1 DEF TellFailure, ClaimAndTell, TypeOK
<1>14. CASE Interrupt(t)
  <2>1. run' = [run EXCEPT ![t] = [run[t] EXCEPT !.pc = AfterInterrupt(t), !.hit = TRUE]]
    BY <1>14 DEF Interrupt
  <2>2. [run[t] EXCEPT !.pc = AfterInterrupt(t), !.hit = TRUE] \in Run
    BY <1>h DEF Run, AfterInterrupt
  <2> QED BY <1>14, <2>1, <2>2 DEF Interrupt, TypeOK
<1> QED BY <1>1, <1>2, <1>3, <1>4, <1>5, <1>6, <1>7, <1>8, <1>9, <1>10, <1>11, <1>12,
           <1>13, <1>14 DEF RunNext

(* A cancel command that only moves stays well typed. *)
LEMMA CancelMoveTypes ==
  ASSUME TypeOK, NEW c \in Cancel, cancel[c].pc \notin {"idle", "done"},
         NEW pc \in {"looking", "marking", "claiming", "done"}, CancelGoto(c, pc)
  PROVE  /\ cancel' \in [Cancel -> Command]
         /\ \A d \in Cancel : cancel'[d].pc \notin {"idle", "done"} => cancel'[d].target \in Turn
<1>1. cancel[c] \in Command /\ cancel[c].target \in Turn
  BY DEF TypeOK
<1>2. cancel' = [cancel EXCEPT ![c] = [cancel[c] EXCEPT !.pc = pc]]
  BY DEF CancelGoto
<1>3. [cancel[c] EXCEPT !.pc = pc] \in Command
  BY <1>1 DEF Command
<1>4. [cancel[c] EXCEPT !.pc = pc].target = cancel[c].target
  BY <1>1 DEF Command
<1> QED BY <1>1, <1>2, <1>3, <1>4 DEF TypeOK

(* A step of a cancel command keeps every variable well typed. *)
LEMMA CancelTypeStep ==
  ASSUME TypeOK, NEW c \in Cancel, CancelNext(c)
  PROVE  TypeOK'
<1> USE DEF rows, memory, screen
<1>0. cancel[c].at \in Process \cup {Nobody}
  BY DEF TypeOK, Command
<1>1. ASSUME NEW t \in Turn, NEW p \in Process, Request(c, t, p) PROVE TypeOK'
  <2>1. [pc |-> "clearing", at |-> p, target |-> t] \in Command
    BY DEF Command
  <2>2. /\ cancel' \in [Cancel -> Command]
        /\ \A d \in Cancel : cancel'[d].pc \notin {"idle", "done"} => cancel'[d].target \in Turn
    BY <1>1, <2>1 DEF Request, TypeOK
  <2> QED BY <1>1, <2>2 DEF Request, TypeOK
<1>2. CASE ClearForCancel(c)
  <2>1. active' \in Turn \cup {Nobody}
    BY <1>2 DEF ClearForCancel, Cleared, TypeOK
  <2> QED BY <1>2, <2>1, CancelMoveTypes DEF ClearForCancel, TypeOK
<1>3. CASE LookUp(c)
  <2>1. cancel[c].target \in Turn
    BY <1>3 DEF LookUp, TypeOK
  <2>2. /\ cancel' \in [Cancel -> Command]
        /\ \A d \in Cancel : cancel'[d].pc \notin {"idle", "done"} => cancel'[d].target \in Turn
    BY <1>3, CancelMoveTypes DEF LookUp
  <2>3. <<cancel[c].at, cancel[c].target>> \in (Process \cup {Nobody}) \X Turn
    BY <1>0, <2>1
  <2> QED BY <1>3, <2>1, <2>2, <2>3 DEF LookUp, ClaimAndTell, TypeOK
<1>4. CASE MarkCancelled(c)
  <2>1. cancel[c].target \in Turn
    BY <1>4 DEF MarkCancelled, TypeOK
  <2>2. EndTurn(cancel[c].target)
    BY <1>4 DEF MarkCancelled
  <2> QED BY <1>4, <2>1, <2>2, EndTypes, CancelMoveTypes DEF MarkCancelled, TypeOK
<1>5. CASE TellCancelled(c)
  <2>1. cancel[c].target \in Turn
    BY <1>5 DEF TellCancelled, TypeOK
  <2>2. /\ cancel' \in [Cancel -> Command]
        /\ \A d \in Cancel : cancel'[d].pc \notin {"idle", "done"} => cancel'[d].target \in Turn
    BY <1>5, CancelMoveTypes DEF TellCancelled
  <2>3. <<cancel[c].at, cancel[c].target>> \in (Process \cup {Nobody}) \X Turn
    BY <1>0, <2>1
  <2> QED BY <1>5, <2>2, <2>3 DEF TellCancelled, ClaimAndTell, TypeOK
<1>6. CASE CancelFails(c)
  BY <1>6, CancelMoveTypes DEF CancelFails, TypeOK
<1> QED BY <1>1, <1>2, <1>3, <1>4, <1>5, <1>6 DEF CancelNext

(* A step keeps every variable well typed. *)
LEMMA TypeStep == TypeOK /\ [Next]_vars => TypeOK'
<1> SUFFICES ASSUME TypeOK, [Next]_vars PROVE TypeOK'
  OBVIOUS
<1>1. ASSUME NEW t \in Turn, RunNext(t) PROVE TypeOK'
  BY <1>1, RunTypeStep
<1>2. ASSUME NEW c \in Cancel, CancelNext(c) PROVE TypeOK'
  BY <1>2, CancelTypeStep
<1>3. ASSUME NEW p \in Process, Crash(p) PROVE TypeOK'
  <2>1. ASSUME NEW t \in Turn PROVE run'[t] \in Run
    BY <1>3, Places DEF Crash, TypeOK, Run
  <2>2. ASSUME NEW c \in Cancel PROVE cancel'[c] \in Command
    BY <1>3 DEF Crash, TypeOK, Command
  <2>3. ASSUME NEW c \in Cancel, cancel'[c].pc \notin {"idle", "done"}
        PROVE  cancel'[c].target \in Turn
    BY <1>3, <2>3 DEF Crash, TypeOK, Command
  <2>4. run' \in [Turn -> Run]
    BY <1>3, <2>1 DEF Crash
  <2>5. cancel' \in [Cancel -> Command]
    BY <1>3, <2>2 DEF Crash
  <2> QED BY <1>3, <2>3, <2>4, <2>5 DEF Crash, rows, screen, TypeOK
<1>4. CASE Expire
  BY <1>4 DEF Expire, rows, memory, screen, TypeOK
<1>5. CASE UNCHANGED vars
  BY <1>5 DEF vars, rows, memory, screen, TypeOK
<1> QED BY <1>1, <1>2, <1>3, <1>4, <1>5 DEF Next

(* Every variable holds what its column, key or registry can. *)
THEOREM TypeCorrect == Spec => []TypeOK
<1>1. Init => TypeOK
  BY Places DEF Init, TypeOK, Run, Command, Rows!Init
<1> QED BY <1>1, TypeStep, PTL DEF Spec

-----------------------------------------------------------------------------
(* The invariant *)

(* Between registration and the end of the try block a generation can be     *)
(* cancelled; once superseded, a run can only fail.                          *)
Cancellable == {"running", "barrier", "passed", "committing", "returning", "committed",
                "delivering"}
Over == {"done", "lost"} \cup Handlers \cup Finally
Superseded(t) == run[t].pc \in Over \/ (run[t].pc \in Early /\ active # t)

(* The row of a turn and the place of its run. *)
RowsFollow ==
  \A t \in Turn :
    /\ run[t].pc = "new" <=> phase[t] = "new"
    /\ Committed(t) => /\ phase[t] = "ended"
                       /\ run[t].pc \in {"returning", "committed", "delivering"} \cup Over
    /\ run[t].pc \in {"returning", "committed", "delivering"} => Committed(t)
    /\ run[t].saved => Committed(t)
    /\ run[t].pc = "claiming" => phase[t] = "ended"
    /\ run[t].pc \in Finally \cup {"done"} /\ ~run[t].lapsed => phase[t] = "ended"

(* Whom a run that leaves has told, and that a claim means an event. *)
Reported ==
  /\ claimed \subseteq told
  /\ \A t \in Turn :
       /\ run[t].pc = "interrupted" => run[t].hit
       /\ run[t].pc \in Finally \cup {"done"} /\ ~run[t].lapsed =>
            run[t].hit \/ t \in answered \/ \E p \in Process : <<p, t>> \in told

(* Nothing is known of a turn before it is accepted; then it has a process,  *)
(* and while its try block runs that process can cancel it.                  *)
Registry ==
  \A t \in Turn :
    /\ run[t].pc = "new" =>
         /\ run[t].home = Nobody /\ t \notin seen
         /\ \A p \in Process \cup {Nobody} : <<p, t>> \notin told
    /\ run[t].pc # "new" => run[t].home \in Process
    /\ run[t].pc \in Cancellable => t \in known

(* A cancel command aims at a turn that was accepted; past its first step    *)
(* the generation is no longer active, and it reports an ended turn.         *)
CancelFollows ==
  \A c \in Cancel :
    LET t == cancel[c].target IN
    /\ cancel[c].pc \notin {"idle", "done"} =>
         cancel[c].at \in Process /\ run[t].pc # "new"
    /\ cancel[c].pc \in {"looking", "marking", "claiming"} =>
         run[t].pc # "accepted" /\ (run[t].pc \in Early => active # t)
    /\ cancel[c].pc = "claiming" => phase[t] = "ended"

(* A failure told at home is final. *)
ToldFollows ==
  \A t \in Turn : <<run[t].home, t>> \in told /\ ~Committed(t) =>
    phase[t] = "ended" \/ Superseded(t)

(* The key names no run before it replaces the old one, nor one whose        *)
(* finally block has cleared it.                                             *)
KeyFollows ==
  \A t \in Turn : active = t => run[t].pc \notin {"new", "accepted", "popping", "done"}

IInv ==
  /\ TypeOK /\ RowsFollow /\ Reported /\ Registry /\ KeyFollows
  /\ CancelFollows /\ ToldFollows

-----------------------------------------------------------------------------
(* What the steps of a run do to run and to the rows *)

(* Run t is now at pc, and nothing else of it or of the other runs changed. *)
Moved(t, pc) ==
  /\ \A u \in Turn : u # t => run'[u] = run[u]
  /\ run'[t].pc = pc /\ run'[t].home = run[t].home /\ run'[t].saved = run[t].saved
  /\ run'[t].hit = run[t].hit /\ run'[t].lapsed = run[t].lapsed

LEMMA Moves ==
  ASSUME TypeOK, NEW t \in Turn, NEW pc, Goto(t, pc)
  PROVE  Moved(t, pc)
<1>1. run \in [Turn -> Run] /\ run[t] \in Run
  BY DEF TypeOK
<1>2. run' = [run EXCEPT ![t] = [run[t] EXCEPT !.pc = pc]]
  BY DEF Goto
<1>3. \A u \in Turn : u # t => run'[u] = run[u]
  BY <1>1, <1>2
<1>4. run'[t] = [run[t] EXCEPT !.pc = pc]
  BY <1>1, <1>2
<1> QED BY <1>1, <1>3, <1>4 DEF Moved, Run

(* The steps that change more of a run than its place. *)
LEMMA Changes ==
  ASSUME TypeOK, NEW t \in Turn
  PROVE  /\ \A p \in Process : Accept(t, p) =>
              /\ \A u \in Turn : u # t => run'[u] = run[u]
              /\ run'[t].pc = "accepted" /\ run'[t].home = p /\ run'[t].saved = run[t].saved
              /\ run'[t].hit = run[t].hit /\ run'[t].lapsed = run[t].lapsed
         /\ Replace(t) => Moved(t, "replaced")
         /\ CommitReturns(t) =>
              /\ \A u \in Turn : u # t => run'[u] = run[u]
              /\ run'[t].pc = "committed" /\ run'[t].home = run[t].home /\ run'[t].saved
              /\ run'[t].hit = run[t].hit /\ run'[t].lapsed = run[t].lapsed
         /\ FailLate(t) \/ HandlerFails(t) =>
              /\ \A u \in Turn : u # t => run'[u] = run[u]
              /\ run'[t].pc = "leaving" /\ run'[t].home = run[t].home
              /\ run'[t].saved = run[t].saved
              /\ run'[t].hit = run[t].hit /\ run'[t].lapsed
         /\ Interrupt(t) =>
              /\ \A u \in Turn : u # t => run'[u] = run[u]
              /\ run'[t].pc = AfterInterrupt(t) /\ run'[t].home = run[t].home
              /\ run'[t].saved = run[t].saved
              /\ run'[t].hit /\ run'[t].lapsed = run[t].lapsed
<1>0. run \in [Turn -> Run] /\ run[t] \in Run
  BY DEF TypeOK
<1>1. ASSUME NEW p \in Process, Accept(t, p)
      PROVE  /\ \A u \in Turn : u # t => run'[u] = run[u]
             /\ run'[t].pc = "accepted" /\ run'[t].home = p /\ run'[t].saved = run[t].saved
             /\ run'[t].hit = run[t].hit /\ run'[t].lapsed = run[t].lapsed
  <2>1. run' = [run EXCEPT ![t] = [run[t] EXCEPT !.pc = "accepted", !.home = p]]
    BY <1>1 DEF Accept
  <2> QED BY <1>0, <2>1 DEF Run
<1>2. ASSUME Replace(t) PROVE Moved(t, "replaced")
  <2>1. run' = [run EXCEPT ![t] = [run[t] EXCEPT !.pc = "replaced", !.prior = active]]
    BY <1>2 DEF Replace, Previous
  <2> QED BY <1>0, <2>1 DEF Run, Moved
<1>3. ASSUME CommitReturns(t)
      PROVE  /\ \A u \in Turn : u # t => run'[u] = run[u]
             /\ run'[t].pc = "committed" /\ run'[t].home = run[t].home /\ run'[t].saved
             /\ run'[t].hit = run[t].hit /\ run'[t].lapsed = run[t].lapsed
  <2>1. run' = [run EXCEPT ![t] = [run[t] EXCEPT !.pc = "committed", !.saved = TRUE]]
    BY <1>3 DEF CommitReturns
  <2> QED BY <1>0, <2>1 DEF Run
<1>4. ASSUME FailLate(t) \/ HandlerFails(t)
      PROVE  /\ \A u \in Turn : u # t => run'[u] = run[u]
             /\ run'[t].pc = "leaving" /\ run'[t].home = run[t].home
             /\ run'[t].saved = run[t].saved
             /\ run'[t].hit = run[t].hit /\ run'[t].lapsed
  <2>1. run' = [run EXCEPT ![t] = [run[t] EXCEPT !.pc = "leaving", !.lapsed = TRUE]]
    BY <1>4 DEF FailLate, HandlerFails
  <2> QED BY <1>0, <2>1 DEF Run
<1>5. ASSUME Interrupt(t)
      PROVE  /\ \A u \in Turn : u # t => run'[u] = run[u]
             /\ run'[t].pc = AfterInterrupt(t) /\ run'[t].home = run[t].home
             /\ run'[t].saved = run[t].saved
             /\ run'[t].hit /\ run'[t].lapsed = run[t].lapsed
  <2>1. run' = [run EXCEPT ![t] = [run[t] EXCEPT !.pc = AfterInterrupt(t), !.hit = TRUE]]
    BY <1>5 DEF Interrupt
  <2> QED BY <1>0, <2>1 DEF Run
<1> QED BY <1>1, <1>2, <1>3, <1>4, <1>5

(* A step of a process that dies. *)
LEMMA CrashRun ==
  ASSUME TypeOK, NEW p \in Process, Crash(p), NEW t \in Turn
  PROVE  /\ run'[t].home = run[t].home /\ run'[t].saved = run[t].saved
         /\ run'[t].hit = run[t].hit /\ run'[t].lapsed = run[t].lapsed
         /\ run'[t].pc = IF run[t].home = p /\ run[t].pc # "done" THEN "lost" ELSE run[t].pc
<1>1. run[t] \in Run
  BY DEF TypeOK
<1>2. run'[t] = IF run[t].home = p /\ run[t].pc # "done"
                THEN [run[t] EXCEPT !.pc = "lost"] ELSE run[t]
  BY DEF Crash
<1> QED BY <1>1, <1>2 DEF Run

(* Only a commit adds a version, and it adds its own turn. *)
LEMMA CommittedStays ==
  ASSUME TypeOK, UNCHANGED journal
  PROVE  \A u \in Turn : Committed(u)' <=> Committed(u)
BY DEF Committed

LEMMA CommittedGrows ==
  ASSUME TypeOK, NEW t \in Turn, Rows!Publish(t)
  PROVE  /\ Committed(t)'
         /\ \A u \in Turn : u # t => (Committed(u)' <=> Committed(u))
<1>1. journal \in Seq(Turn) /\ journal' = Append(journal, t)
  BY DEF TypeOK, Rows!Publish
<1>2. /\ DOMAIN journal = 1..Len(journal) /\ Len(journal) \in Nat
      /\ DOMAIN journal' = 1..(Len(journal) + 1)
      /\ journal'[Len(journal) + 1] = t
      /\ \A v \in 1..Len(journal) : journal'[v] = journal[v]
  BY <1>1
<1>3. Committed(t)'
  BY <1>2 DEF Committed
<1>4. ASSUME NEW u \in Turn, u # t PROVE Committed(u)' <=> Committed(u)
  BY <1>2, <1>4 DEF Committed
<1> QED BY <1>3, <1>4

(* mark_turn_failed adds no version and leaves an accepted turn ended. *)
LEMMA Ends ==
  ASSUME TypeOK, NEW t \in Turn, EndTurn(t)
  PROVE  /\ UNCHANGED <<journal, base>>
         /\ phase[t] # "new" => phase'[t] = "ended"
         /\ phase[t] = "new" => phase'[t] = "new"
         /\ \A u \in Turn : u # t => phase'[u] = phase[u]
BY DEF TypeOK, EndTurn, rows, Rows!Withdraw
-----------------------------------------------------------------------------
(* The rows follow the runs *)

LEMMA RowsRunStep ==
  ASSUME TypeOK, RowsFollow, NEW t \in Turn, RunNext(t)
  PROVE  RowsFollow'
<1> USE CommittedStays, Moves, Changes DEF rows
<1> DEFINE Follow(u) ==
      /\ run[u].pc = "new" <=> phase[u] = "new"
      /\ Committed(u) => /\ phase[u] = "ended"
                         /\ run[u].pc \in {"returning", "committed", "delivering"} \cup Over
      /\ run[u].pc \in {"returning", "committed", "delivering"} => Committed(u)
      /\ run[u].saved => Committed(u)
      /\ run[u].pc = "claiming" => phase[u] = "ended"
      /\ run[u].pc \in Finally \cup {"done"} /\ ~run[u].lapsed => phase[u] = "ended"
<1>0. \A u \in Turn : Follow(u)
  BY DEF RowsFollow
<1>p. phase \in [Turn -> {"new", "open", "ended"}]
  BY DEF TypeOK
<1> SUFFICES ASSUME NEW u \in Turn PROVE Follow(u)'
  BY DEF RowsFollow
<1> HIDE DEF Follow
<1>k. ASSUME run'[u] = run[u], phase'[u] = phase[u], Committed(u)' <=> Committed(u)
      PROVE  Follow(u)'
  BY <1>0, <1>k DEF Follow
<1>1. ASSUME NEW p \in Process, Accept(t, p) PROVE Follow(u)'
  <2>1. /\ phase[t] = "new" /\ phase'[t] = "open" /\ UNCHANGED journal
        /\ \A w \in Turn : w # t => phase'[w] = phase[w]
    BY <1>1, <1>p DEF Accept, Rows!Submit
  <2> QED BY <1>0, <1>1, <1>k, <2>1 DEF Follow, Over, Handlers, Finally
<1>2. CASE Abandon(t) \/ Replay(t) \/ Replace(t) \/ Register(t) \/ GraphReturns(t) \/ Barrier(t)
           \/ Transform(t) \/ SkipTransform(t) \/ CommitReturns(t) \/ ReleaseActive(t) \/ Deliver(t)
  <2>1. UNCHANGED <<journal, phase>>
    BY <1>2 DEF Abandon, Replay, Replace, Register, GraphReturns, Barrier, Transform,
                SkipTransform, CommitReturns, ReleaseActive, Deliver
  <2>2. CASE Abandon(t) \/ Replace(t) \/ Register(t) \/ GraphReturns(t) \/ Barrier(t)
             \/ Transform(t) \/ SkipTransform(t)
    <3>1. /\ run[t].pc \in {"accepted", "replaced", "running", "barrier", "passed"}
          /\ \/ Moved(t, "lost") \/ Moved(t, "replaced") \/ Moved(t, "running")
             \/ Moved(t, "barrier") \/ Moved(t, "passed") \/ Moved(t, "committing")
             \/ Moved(t, "failing")
      BY <2>2 DEF Abandon, Replace, Register, GraphReturns, Barrier, Transform, SkipTransform, At
    <3> QED BY <1>0, <1>k, <2>1, <3>1 DEF Moved, Follow, Over, Handlers, Finally
  <2>3. CASE ReleaseActive(t) \/ Deliver(t)
    <3>1. /\ run[t].pc \in {"committed", "delivering"}
          /\ Moved(t, "delivering") \/ Moved(t, "leaving")
      BY <2>3 DEF ReleaseActive, Deliver, At
    <3> QED BY <1>0, <1>k, <2>1, <3>1 DEF Moved, Follow, Over, Handlers, Finally
  <2>4. CASE CommitReturns(t)
    BY <1>0, <1>k, <2>1, <2>4 DEF CommitReturns, At, Follow, Over, Handlers, Finally
  <2>5. CASE Replay(t)
    BY <1>0, <1>k, <2>1, <2>5 DEF Replay, Follow
  <2> QED BY <1>2, <2>2, <2>3, <2>4, <2>5
<1>3. CASE Commit(t)
  <2>1. CASE phase[t] = "open" /\ base[t] = Len(journal)
    <3>1. Rows!Publish(t) /\ Moved(t, "returning")
      BY <1>3, <2>1 DEF Commit
    <3>2. phase'[t] = "ended" /\ \A w \in Turn : w # t => phase'[w] = phase[w]
      BY <1>p, <3>1 DEF Rows!Publish
    <3> QED BY <1>0, <1>k, <3>1, <3>2, CommittedGrows DEF Moved, Follow, Over, Handlers, Finally
  <2>2. CASE ~(phase[t] = "open" /\ base[t] = Len(journal))
    <3>1. UNCHANGED <<journal, phase>> /\ Moved(t, "failing")
      BY <1>3, <2>2 DEF Commit
    <3> QED BY <1>0, <1>3, <1>k, <3>1 DEF Commit, At, Moved, Follow, Over, Handlers, Finally
  <2> QED BY <2>1, <2>2
<1>4. CASE Fail(t) \/ FailLate(t) \/ TellFailure(t) \/ HandlerFails(t) \/ Leave(t)
           \/ Pop(t) \/ LeaveFails(t)
  <2>1. UNCHANGED <<journal, phase>>
    BY <1>4 DEF Fail, FailLate, TellFailure, HandlerFails, Leave, Pop, LeaveFails
  <2>2. CASE Fail(t)
    BY <1>0, <1>k, <2>1, <2>2 DEF Fail, Moved, Follow, Early, Over, Handlers, Finally
  <2>3. CASE FailLate(t) \/ HandlerFails(t)
    BY <1>0, <1>k, <2>1, <2>3 DEF FailLate, HandlerFails, Follow, Over, Handlers, Finally
  <2>4. CASE TellFailure(t) \/ Leave(t) \/ Pop(t) \/ LeaveFails(t)
    <3>1. \/ At(t, "claiming") /\ Moved(t, "leaving")
          \/ At(t, "leaving") /\ (Moved(t, "popping") \/ Moved(t, "lost"))
          \/ At(t, "popping") /\ (Moved(t, "done") \/ Moved(t, "lost"))
      BY <2>4 DEF TellFailure, Leave, Pop, LeaveFails, At, Finally
    <3> QED BY <1>0, <1>k, <2>1, <3>1 DEF At, Moved, Follow, Over, Handlers, Finally
  <2> QED BY <1>4, <2>2, <2>3, <2>4
<1>5. CASE MarkFailed(t) \/ MarkInterrupted(t)
  <2>1. UNCHANGED journal /\ EndTurn(t) /\ (Moved(t, "claiming") \/ Moved(t, "leaving"))
    BY <1>5, Ends DEF MarkFailed, MarkInterrupted
  <2>2. run[t].pc # "new" /\ phase[t] # "new"
    BY <1>0, <1>5 DEF MarkFailed, MarkInterrupted, At, Follow
  <2>3. phase'[t] = "ended" /\ \A w \in Turn : w # t => phase'[w] = phase[w]
    BY <2>1, <2>2, Ends
  <2> QED BY <1>0, <1>5, <1>k, <2>1, <2>3 DEF Moved, Follow, Over, Handlers, Finally
<1>6. CASE Interrupt(t)
  <2>1. UNCHANGED <<journal, phase>>
    BY <1>6 DEF Interrupt
  <2>2. /\ \A w \in Turn : w # t => run'[w] = run[w]
        /\ run[t].pc # "new" /\ (run'[t].saved <=> run[t].saved)
        /\ run'[t].lapsed <=> run[t].lapsed
        /\ run'[t].pc = IF run[t].saved THEN "leaving" ELSE "interrupted"
    <3>1. run[t].pc # "new"
      BY <1>6 DEF Interrupt, Body, Early
    <3> QED BY <1>6, <3>1 DEF AfterInterrupt
  <2> QED BY <1>0, <1>k, <2>1, <2>2 DEF Follow, Over, Handlers, Finally
<1> QED BY <1>1, <1>2, <1>3, <1>4, <1>5, <1>6 DEF RunNext

LEMMA RowsStep ==
  ASSUME TypeOK, RowsFollow, Registry, CancelFollows, [Next]_vars
  PROVE  RowsFollow'
<1>1. ASSUME NEW t \in Turn, RunNext(t) PROVE RowsFollow'
  BY <1>1, RowsRunStep
<1>2. ASSUME NEW c \in Cancel, CancelNext(c) PROVE RowsFollow'
  <2>1. CASE MarkCancelled(c)
    <3>1. PICK t \in Turn : t = cancel[c].target /\ EndTurn(t) /\ run[t].pc # "new"
      BY <2>1 DEF MarkCancelled, TypeOK, CancelFollows
    <3>2. run' = run
      BY <2>1 DEF MarkCancelled
    <3>3. phase[t] # "new"
      BY <3>1 DEF RowsFollow
    <3>4. /\ phase'[t] = "ended" /\ \A u \in Turn : u # t => phase'[u] = phase[u]
          /\ \A u \in Turn : Committed(u)' <=> Committed(u)
      BY <3>1, <3>3, Ends, CommittedStays
    <3> QED BY <3>1, <3>2, <3>4 DEF RowsFollow
  <2>2. CASE ~MarkCancelled(c)
    <3>1. UNCHANGED <<journal, phase, run>>
      BY <1>2, <2>2 DEF CancelNext, Request, ClearForCancel, LookUp, TellCancelled, CancelFails,
                        rows
    <3> QED BY <3>1, CommittedStays DEF RowsFollow
  <2> QED BY <2>1, <2>2
<1>3. ASSUME NEW p \in Process, Crash(p) PROVE RowsFollow'
  <2>1. UNCHANGED <<journal, phase>>
    BY <1>3 DEF Crash, rows
  <2>2. \A u \in Turn : run[u].pc = "new" => run[u].home # p
    BY NobodyIsNew DEF Registry
  <2> QED BY <1>3, <2>1, <2>2, CrashRun, CommittedStays
        DEF RowsFollow, Over, Handlers, Finally
<1>4. CASE Expire \/ UNCHANGED vars
  <2>1. UNCHANGED <<journal, phase, run>>
    BY <1>4 DEF Expire, vars, rows
  <2> QED BY <2>1, CommittedStays DEF RowsFollow
<1> QED BY <1>1, <1>2, <1>3, <1>4 DEF Next
-----------------------------------------------------------------------------
(* The registries and the reports follow the runs *)

(* Reports and answers are never taken back. *)
LEMMA ReportsStay ==
  ASSUME [Next]_vars
  PROVE  told \subseteq told' /\ answered \subseteq answered' /\ seen \subseteq seen'
<1>1. ASSUME NEW t \in Turn, RunNext(t)
      PROVE told \subseteq told' /\ answered \subseteq answered' /\ seen \subseteq seen'
  BY <1>1 DEF RunNext, Accept, Abandon, Replay, Replace, Register, GraphReturns, Barrier,
              Transform, SkipTransform, Commit, CommitReturns, ReleaseActive, Deliver, Fail,
              FailLate, MarkFailed, TellFailure, ClaimAndTell, Interrupt, MarkInterrupted,
              HandlerFails, Leave, Pop, LeaveFails, screen
<1>2. ASSUME NEW c \in Cancel, CancelNext(c)
      PROVE told \subseteq told' /\ answered \subseteq answered' /\ seen \subseteq seen'
  BY <1>2 DEF CancelNext, Request, ClearForCancel, LookUp, MarkCancelled, TellCancelled,
              CancelFails, ClaimAndTell, screen
<1>3. ASSUME NEW p \in Process, Crash(p)
      PROVE told \subseteq told' /\ answered \subseteq answered' /\ seen \subseteq seen'
  BY <1>3 DEF Crash, screen
<1>4. CASE Expire \/ UNCHANGED vars
  BY <1>4 DEF Expire, vars, screen
<1> QED BY <1>1, <1>2, <1>3, <1>4 DEF Next

LEMMA ReportedRunStep ==
  ASSUME TypeOK, Reported, Registry, NEW t \in Turn, RunNext(t)
  PROVE  Reported'
<1> USE Moves, Changes
<1> DEFINE Told(u) ==
      /\ run[u].pc = "interrupted" => run[u].hit
      /\ run[u].pc \in Finally \cup {"done"} /\ ~run[u].lapsed =>
           run[u].hit \/ u \in answered \/ \E p \in Process : <<p, u>> \in told
<1>0. \A u \in Turn : Told(u)
  BY DEF Reported
<1>s. told \subseteq told' /\ answered \subseteq answered'
  BY ReportsStay DEF Next
<1>1. claimed' \subseteq told'
  BY <1>s DEF Reported, RunNext, Accept, Abandon, Replay, Replace, Register, GraphReturns,
              Barrier, Transform, SkipTransform, Commit, CommitReturns, ReleaseActive, Deliver,
              Fail, FailLate, MarkFailed, TellFailure, ClaimAndTell, Interrupt,
              MarkInterrupted, HandlerFails, Leave, Pop, LeaveFails, memory
<1> SUFFICES ASSUME NEW u \in Turn PROVE Told(u)'
  BY <1>1 DEF Reported
<1> HIDE DEF Told
<1>k. ASSUME run'[u] = run[u] PROVE Told(u)'
  BY <1>0, <1>k, <1>s DEF Told
<1>2. ASSUME NEW p \in Process, Accept(t, p) PROVE Told(u)'
  BY <1>2, <1>k DEF Told, Finally
<1>3. CASE Abandon(t) \/ Replay(t) \/ Replace(t) \/ Register(t) \/ GraphReturns(t) \/ Barrier(t)
           \/ Transform(t) \/ SkipTransform(t) \/ Commit(t) \/ CommitReturns(t)
           \/ ReleaseActive(t) \/ Fail(t) \/ MarkFailed(t) \/ LeaveFails(t)
  <2>1. CASE CommitReturns(t)
    BY <1>k, <2>1 DEF Told, Finally
  <2>2. CASE Replay(t)
    BY <1>k, <2>2 DEF Replay
  <2>3. CASE Replace(t)
    BY <1>k, <2>3 DEF Told, Finally, Moved
  <2>4. CASE Barrier(t) \/ Commit(t)
    <3>1. Moved(t, "passed") \/ Moved(t, "failing") \/ Moved(t, "returning")
      BY <2>4 DEF Barrier, Commit
    <3> QED BY <1>k, <3>1 DEF Told, Finally, Moved
  <2>5. CASE Abandon(t) \/ Register(t) \/ GraphReturns(t) \/ Transform(t) \/ SkipTransform(t)
             \/ ReleaseActive(t) \/ Fail(t) \/ MarkFailed(t) \/ LeaveFails(t)
    <3>1. \E pc \in {"lost", "running", "barrier", "committing", "delivering", "failing",
                     "claiming"} : Moved(t, pc)
      BY <2>5 DEF Abandon, Register, GraphReturns, Transform, SkipTransform, ReleaseActive, Fail,
                  MarkFailed, LeaveFails
    <3> QED BY <1>k, <3>1 DEF Told, Finally, Moved
  <2> QED BY <1>3, <2>1, <2>2, <2>3, <2>4, <2>5
<1>4. CASE Deliver(t)
  <2>1. t \in answered' /\ Moved(t, "leaving")
    BY <1>4 DEF Deliver
  <2> QED BY <1>k, <2>1 DEF Told, Moved
<1>5. CASE TellFailure(t)
  <2>1. Moved(t, "leaving") /\ run[t].home \in Process
    BY <1>5 DEF TellFailure, At, Registry
  <2>2. <<run[t].home, t>> \in told'
    BY <1>5 DEF TellFailure, ClaimAndTell, Reported
  <2> QED BY <1>k, <2>1, <2>2 DEF Told, Moved
<1>6. CASE MarkInterrupted(t)
  <2>1. Moved(t, "leaving") /\ run[t].hit
    BY <1>0, <1>6 DEF MarkInterrupted, At, Told
  <2> QED BY <1>k, <2>1 DEF Told, Moved
<1>7. CASE Interrupt(t)
  <2>1. run'[t].hit /\ \A w \in Turn : w # t => run'[w] = run[w]
    BY <1>7
  <2> QED BY <1>k, <2>1 DEF Told
<1>8. CASE FailLate(t) \/ HandlerFails(t)
  BY <1>k, <1>8 DEF Told
<1>9. CASE Leave(t) \/ Pop(t)
  <2>1. /\ run[t].pc \in {"leaving", "popping"}
        /\ Moved(t, "popping") \/ Moved(t, "done")
    BY <1>9 DEF Leave, Pop, At
  <2> QED BY <1>0, <1>k, <1>s, <2>1 DEF Told, Moved, Finally
<1> QED BY <1>2, <1>3, <1>4, <1>5, <1>6, <1>7, <1>8, <1>9 DEF RunNext

LEMMA ReportedStep ==
  ASSUME TypeOK, Reported, Registry, [Next]_vars
  PROVE  Reported'
<1>s. told \subseteq told' /\ answered \subseteq answered'
  BY ReportsStay
<1>1. ASSUME NEW t \in Turn, RunNext(t) PROVE Reported'
  BY <1>1, ReportedRunStep
<1>2. ASSUME NEW c \in Cancel, CancelNext(c) PROVE Reported'
  <2>1. claimed' \subseteq told' /\ run' = run
    BY <1>2, <1>s DEF CancelNext, Request, ClearForCancel, LookUp, MarkCancelled, TellCancelled,
                      CancelFails, ClaimAndTell, memory, Reported
  <2> QED BY <1>s, <2>1 DEF Reported
<1>3. ASSUME NEW p \in Process, Crash(p) PROVE Reported'
  <2>1. claimed' \subseteq told'
    BY <1>3, <1>s DEF Crash, Reported
  <2> QED BY <1>3, <1>s, <2>1, CrashRun DEF Reported, Finally
<1>4. CASE Expire \/ UNCHANGED vars
  <2>1. UNCHANGED <<claimed, told, answered, run>>
    BY <1>4 DEF Expire, vars, memory, screen
  <2> QED BY <2>1 DEF Reported
<1> QED BY <1>1, <1>2, <1>3, <1>4 DEF Next
(* The registries of the process that runs a turn. *)
LEMMA RegistryRunStep ==
  ASSUME TypeOK, Registry, NEW t \in Turn, RunNext(t)
  PROVE  Registry'
<1> USE Moves, Changes
<1> DEFINE Reg(u) ==
      /\ run[u].pc = "new" =>
           /\ run[u].home = Nobody /\ u \notin seen
           /\ \A p \in Process \cup {Nobody} : <<p, u>> \notin told
      /\ run[u].pc # "new" => run[u].home \in Process
      /\ run[u].pc \in Cancellable => u \in known
<1>0. \A u \in Turn : Reg(u)
  BY DEF Registry
<1> SUFFICES ASSUME NEW u \in Turn PROVE Reg(u)'
  BY DEF Registry
<1> HIDE DEF Reg
<1>k. ASSUME run'[u] = run[u], u \in known => u \in known',
             u \in seen' => u \in seen,
             \A p \in Process \cup {Nobody} : <<p, u>> \in told' => <<p, u>> \in told
      PROVE  Reg(u)'
  BY <1>0, <1>k DEF Reg
<1>1. ASSUME NEW p \in Process, Accept(t, p) PROVE Reg(u)'
  <2>1. UNCHANGED <<known, seen, told>>
    BY <1>1 DEF Accept, memory, screen
  <2> QED BY <1>1, <1>k, <2>1 DEF Reg, Cancellable
<1>2. CASE Replay(t)
  <2>1. run[t].pc # "new" /\ UNCHANGED <<run, known, told>> /\ \A w \in Turn : w # t => (w \in seen' => w \in seen)
    BY <1>2 DEF Replay, At, memory
  <2> QED BY <1>0, <1>k, <2>1 DEF Reg
<1>3. CASE Abandon(t) \/ Replace(t) \/ GraphReturns(t) \/ Barrier(t) \/ Transform(t)
           \/ SkipTransform(t) \/ Commit(t) \/ ReleaseActive(t) \/ Deliver(t) \/ Fail(t)
           \/ MarkFailed(t) \/ MarkInterrupted(t) \/ Leave(t) \/ LeaveFails(t)
  <2>1. UNCHANGED <<known, seen, told>> /\ run[t].pc # "new"
    BY <1>3 DEF Abandon, Replace, GraphReturns, Barrier, Transform, SkipTransform, Commit,
                ReleaseActive, Deliver, Fail, MarkFailed, MarkInterrupted, Leave, LeaveFails,
                memory, screen, At, Early, Finally
  <2>2. \/ \E pc \in {"lost", "replaced", "failing", "claiming", "leaving", "popping"} :
             Moved(t, pc)
        \/ run[t].pc \in Cancellable /\ \E pc \in Cancellable : Moved(t, pc)
    <3>1. CASE Abandon(t) \/ Replace(t) \/ Fail(t) \/ MarkFailed(t) \/ MarkInterrupted(t)
               \/ Leave(t) \/ LeaveFails(t)
      BY <3>1 DEF Abandon, Fail, MarkFailed, MarkInterrupted, Leave, LeaveFails
    <3>2. CASE GraphReturns(t) \/ Transform(t) \/ SkipTransform(t) \/ ReleaseActive(t)
               \/ Deliver(t)
      BY <3>2 DEF GraphReturns, Transform, SkipTransform, ReleaseActive, Deliver, At,
                  Cancellable
    <3>3. CASE Barrier(t) \/ Commit(t)
      BY <3>3 DEF Barrier, Commit, At, Cancellable
    <3> QED BY <1>3, <3>1, <3>2, <3>3
  <2> QED BY <1>0, <1>k, <2>1, <2>2 DEF Reg, Moved, Cancellable
<1>4. CASE Register(t)
  <2>1. /\ Moved(t, "running") /\ run[t].pc # "new" /\ t \in known' /\ known \subseteq known'
        /\ told' = told /\ \A w \in Turn : w # t => (w \in seen' => w \in seen)
    BY <1>4 DEF Register, At
  <2> QED BY <1>0, <1>k, <2>1 DEF Reg, Moved
<1>5. CASE CommitReturns(t) \/ FailLate(t) \/ HandlerFails(t) \/ Interrupt(t)
  <2>1. UNCHANGED <<known, seen, told>> /\ run[t].pc # "new"
    BY <1>5 DEF CommitReturns, FailLate, HandlerFails, Interrupt, memory, screen, At, Body,
                Early, Handlers
  <2>2. CASE CommitReturns(t)
    <3>1. run[t].pc = "returning"
      BY <2>2 DEF CommitReturns, At
    <3> QED BY <1>0, <1>k, <2>1, <2>2, <3>1 DEF Reg, Cancellable
  <2>3. CASE FailLate(t) \/ HandlerFails(t)
    BY <1>0, <1>k, <2>1, <2>3 DEF Reg, Cancellable
  <2>4. CASE Interrupt(t)
    <3>1. /\ run'[t].pc \in {"leaving", "interrupted"} /\ run'[t].home = run[t].home
          /\ \A w \in Turn : w # t => run'[w] = run[w]
      BY <2>4 DEF AfterInterrupt
    <3> QED BY <1>0, <1>k, <2>1, <3>1 DEF Reg, Cancellable
  <2> QED BY <1>5, <2>2, <2>3, <2>4
<1>6. CASE TellFailure(t)
  <2>1. /\ Moved(t, "leaving") /\ run[t].pc # "new" /\ UNCHANGED <<known, seen>>
        /\ told' \subseteq told \cup {<<run[t].home, t>>}
    BY <1>6 DEF TellFailure, ClaimAndTell, At
  <2>2. \A w \in Turn, p \in Process \cup {Nobody} :
          w # t => (<<p, w>> \in told' => <<p, w>> \in told)
    BY <2>1
  <2> QED BY <1>0, <1>k, <2>1, <2>2 DEF Reg, Moved, Cancellable
<1>7. CASE Pop(t)
  <2>1. /\ Moved(t, "done") /\ run[t].pc # "new" /\ UNCHANGED <<seen, told>>
        /\ known' = known \ {t}
    BY <1>7 DEF Pop, At, screen
  <2> QED BY <1>0, <1>k, <2>1 DEF Reg, Moved, Cancellable
<1> QED BY <1>1, <1>2, <1>3, <1>4, <1>5, <1>6, <1>7 DEF RunNext

LEMMA RegistryStep ==
  ASSUME TypeOK, Registry, CancelFollows, [Next]_vars
  PROVE  Registry'
<1>1. ASSUME NEW t \in Turn, RunNext(t) PROVE Registry'
  BY <1>1, RegistryRunStep
<1>2. ASSUME NEW c \in Cancel, CancelNext(c) PROVE Registry'
  <2>1. UNCHANGED <<run, known, seen>>
    BY <1>2 DEF CancelNext, Request, ClearForCancel, LookUp, MarkCancelled, TellCancelled,
                CancelFails, ClaimAndTell, memory, screen
  <2>2. CASE LookUp(c) \/ TellCancelled(c)
    <3>1. /\ told' \subseteq told \cup {<<cancel[c].at, cancel[c].target>>}
          /\ run[cancel[c].target].pc # "new"
      BY <2>2 DEF LookUp, TellCancelled, ClaimAndTell, screen, CancelFollows
    <3>2. \A t \in Turn : run[t].pc = "new" =>
            \A p \in Process \cup {Nobody} : <<p, t>> \in told' => <<p, t>> \in told
      BY <3>1
    <3> QED BY <2>1, <3>2 DEF Registry
  <2>3. CASE ~(LookUp(c) \/ TellCancelled(c))
    <3>1. told' = told
      BY <1>2, <2>3 DEF CancelNext, Request, ClearForCancel, MarkCancelled, CancelFails, screen
    <3> QED BY <2>1, <3>1 DEF Registry
  <2> QED BY <2>2, <2>3
<1>3. ASSUME NEW p \in Process, Crash(p) PROVE Registry'
  <2>1. UNCHANGED <<seen, told>>
    BY <1>3 DEF Crash, screen
  <2>2. \A t \in Turn : run[t].pc = "new" => run[t].home # p
    BY NobodyIsNew DEF Registry
  <2>3. \A t \in Turn : t \in known /\ run[t].home # p => t \in known'
    BY <1>3 DEF Crash, Homed
  <2> QED BY <1>3, <2>1, <2>2, <2>3, CrashRun DEF Registry, Cancellable
<1>4. CASE Expire \/ UNCHANGED vars
  <2>1. UNCHANGED <<run, known, seen, told>>
    BY <1>4 DEF Expire, vars, memory, screen
  <2> QED BY <2>1 DEF Registry
<1> QED BY <1>1, <1>2, <1>3, <1>4 DEF Next

(* The active-generation key. *)
LEMMA ActiveStep ==
  ASSUME TypeOK, KeyFollows, [Next]_vars
  PROVE  KeyFollows'
<1> USE Moves, Changes
<1> SUFFICES ASSUME NEW u \in Turn, active' = u
             PROVE  run'[u].pc \notin {"new", "accepted", "popping", "done"}
  BY DEF KeyFollows
<1>n. u # Nobody
  BY NobodyIsNew
<1>1. ASSUME NEW t \in Turn, RunNext(t)
      PROVE  run'[u].pc \notin {"new", "accepted", "popping", "done"}
  <2>1. CASE Replace(t)
    <3>1. Moved(t, "replaced")
      BY <2>1
    <3>2. active' = t
      BY <2>1 DEF Replace
    <3> QED BY <3>1, <3>2 DEF Moved
  <2>2. CASE ~Replace(t)
    <3>1. active = u
      BY <1>1, <1>n, <2>2 DEF RunNext, Accept, Abandon, Replay, Register, GraphReturns,
              Barrier, Transform, SkipTransform, Commit, CommitReturns, ReleaseActive, Deliver,
              Fail, FailLate, MarkFailed, TellFailure, Interrupt, MarkInterrupted,
              HandlerFails, Leave, FinalActive, Pop, LeaveFails, Cleared
    <3>2. run[u].pc \notin {"new", "accepted", "popping", "done"}
      BY <3>1 DEF KeyFollows
    <3>3. CASE u # t
      <4>1. run'[u] = run[u]
        BY <1>1, <2>2, <3>3 DEF RunNext, Abandon, Replay, Register, GraphReturns, Barrier,
              Transform, SkipTransform, Commit, ReleaseActive, Deliver, Fail, MarkFailed,
              TellFailure, MarkInterrupted, Leave, Pop, LeaveFails, Moved
      <4> QED BY <3>2, <4>1
    <3>4. CASE u = t
      <4>1. ~Leave(t)
        BY <1>n, <3>1, <3>4 DEF Leave, FinalActive, Cleared
      <4>2. ~Pop(t) /\ \A p \in Process : ~Accept(t, p)
        BY <3>2, <3>4 DEF Pop, Accept, At
      <4>3. CASE Commit(t) \/ Barrier(t)
        <5>1. Moved(t, "returning") \/ Moved(t, "failing") \/ Moved(t, "passed")
          BY <4>3 DEF Commit, Barrier
        <5> QED BY <3>4, <5>1 DEF Moved
      <4>4. CASE Interrupt(t) \/ Replay(t) \/ CommitReturns(t) \/ FailLate(t) \/ HandlerFails(t)
        <5>1. CASE Interrupt(t)
          BY <3>4, <5>1 DEF AfterInterrupt
        <5>2. CASE Replay(t)
          BY <3>2, <5>2 DEF Replay
        <5> QED BY <3>4, <4>4, <5>1, <5>2
      <4>5. CASE Abandon(t) \/ Register(t) \/ GraphReturns(t) \/ Transform(t) \/ SkipTransform(t)
                 \/ ReleaseActive(t) \/ Deliver(t) \/ Fail(t) \/ MarkFailed(t) \/ TellFailure(t)
                 \/ MarkInterrupted(t) \/ LeaveFails(t)
        <5>1. \E pc \in {"lost", "running", "barrier", "committing", "delivering", "leaving",
                         "failing", "claiming"} : Moved(t, pc)
          BY <4>5 DEF Abandon, Register, GraphReturns, Transform, SkipTransform, ReleaseActive,
                      Deliver, Fail, MarkFailed, TellFailure, MarkInterrupted, LeaveFails
        <5> QED BY <3>4, <5>1 DEF Moved
      <4> QED BY <1>1, <2>2, <4>1, <4>2, <4>3, <4>4, <4>5 DEF RunNext
    <3> QED BY <3>3, <3>4
  <2> QED BY <2>1, <2>2
<1>2. ASSUME NEW c \in Cancel, CancelNext(c)
      PROVE  run'[u].pc \notin {"new", "accepted", "popping", "done"}
  <2>1. run' = run /\ active = u
    BY <1>2, <1>n DEF CancelNext, Request, ClearForCancel, LookUp, MarkCancelled, TellCancelled,
                      CancelFails, Cleared
  <2> QED BY <2>1 DEF KeyFollows
<1>3. ASSUME NEW p \in Process, Crash(p)
      PROVE  run'[u].pc \notin {"new", "accepted", "popping", "done"}
  <2>1. active = u
    BY <1>3 DEF Crash
  <2> QED BY <1>3, <2>1, CrashRun DEF KeyFollows
<1>4. CASE Expire \/ UNCHANGED vars
  BY <1>4, <1>n DEF Expire, vars, KeyFollows
<1> QED BY <1>1, <1>2, <1>3, <1>4 DEF Next
-----------------------------------------------------------------------------
(* The course of a run, whatever step is taken *)

Onward(u) ==
  /\ run[u].pc # "new" => run'[u].pc # "new" /\ run'[u].home = run[u].home
  /\ run'[u].pc = "accepted" => run[u].pc \in {"new", "accepted"}
  /\ run'[u].pc \in Early => run[u].pc \in Early \cup {"accepted"}
  /\ run[u].pc \in Over => run'[u].pc \in Over
  /\ run[u].pc \in Early /\ active # u => run'[u].pc \in Early \cup Over
  /\ active' = u => active = u \/ run[u].pc = "accepted"

LEMMA RunCourse ==
  ASSUME TypeOK, NEW t \in Turn, RunNext(t), NEW u \in Turn
  PROVE  Onward(u)
<1> USE Moves, Changes
<1>n. u # Nobody
  BY NobodyIsNew
<1>a. active' = u => active = u \/ run[u].pc = "accepted"
  <2>1. ASSUME Replace(t), active' = u PROVE run[u].pc = "accepted"
    BY <2>1 DEF Replace, At
  <2>2. ASSUME ~Replace(t), active' = u PROVE active = u
    BY <1>n, <2>2 DEF RunNext, Accept, Abandon, Replay, Register, GraphReturns,
            Barrier, Transform, SkipTransform, Commit, CommitReturns, ReleaseActive, Deliver,
            Fail, FailLate, MarkFailed, TellFailure, Interrupt, MarkInterrupted,
            HandlerFails, Leave, FinalActive, Pop, LeaveFails, Cleared
  <2> QED BY <2>1, <2>2
<1>k. ASSUME run'[u] = run[u] PROVE Onward(u)
  BY <1>a, <1>k DEF Onward
<1>m. ASSUME NEW pc, Moved(t, pc), run[t].pc # "new", pc \notin {"new", "accepted"} \cup Early,
             run[t].pc \in Over \cup Early /\ (run[t].pc \in Early => active # t) => pc \in Over
      PROVE  Onward(u)
  <2>1. CASE u # t
    BY <1>k, <1>m, <2>1 DEF Moved
  <2>2. CASE u = t
    <3>1. run'[u].pc = pc /\ run'[u].home = run[u].home
      BY <1>m, <2>2 DEF Moved
    <3>2. run[u].pc \in Over => pc \in Over
      BY <1>m, <2>2 DEF Over, Early, Handlers, Finally
    <3>3. run[u].pc \in Early /\ active # u => pc \in Early \cup Over
      BY <1>m, <2>2
    <3> QED BY <1>a, <1>m, <2>2, <3>1, <3>2, <3>3 DEF Onward
  <2> QED BY <2>1, <2>2
<1>1. ASSUME NEW p \in Process, Accept(t, p) PROVE Onward(u)
  <2>1. run[t].pc = "new"
    BY <1>1 DEF Accept, At
  <2> QED BY <1>1, <1>a, <1>k, <2>1 DEF Onward, Early, Over, Handlers, Finally
<1>2. CASE Replay(t)
  BY <1>2, <1>k DEF Replay
<1>3. CASE Replace(t)
  <2>1. run[t].pc = "accepted" /\ Moved(t, "replaced")
    <3>1. run[t].pc = "accepted"
      BY <1>3 DEF Replace, At
    <3> QED BY <1>3, <3>1
  <2> QED BY <1>a, <1>k, <2>1 DEF Moved, Onward, Early, Over, Handlers, Finally
<1>4. CASE Register(t) \/ GraphReturns(t)
  <2>1. /\ run[t].pc \in {"replaced", "running"}
        /\ Moved(t, "running") \/ Moved(t, "barrier")
    BY <1>4 DEF Register, GraphReturns, At
  <2> QED BY <1>a, <1>k, <2>1 DEF Moved, Onward, Early, Over, Handlers, Finally
<1>5. CASE Barrier(t)
  <2>1. run[t].pc = "barrier" /\ Moved(t, IF active = t THEN "passed" ELSE "failing")
    BY <1>5 DEF Barrier, At, StillActive
  <2>2. CASE active = t
    <3>1. Moved(t, "passed")
      BY <2>1, <2>2
    <3> QED BY <1>m, <2>1, <2>2, <3>1 DEF Early, Over, Handlers, Finally
  <2>3. CASE active # t
    <3>1. Moved(t, "failing")
      BY <2>1, <2>3
    <3> QED BY <1>m, <2>1, <3>1 DEF Early, Over, Handlers, Finally
  <2> QED BY <2>2, <2>3
<1>6. CASE Transform(t) \/ SkipTransform(t) \/ Commit(t) \/ ReleaseActive(t)
  <2>1. /\ run[t].pc \in {"passed", "committing", "committed"}
        /\ Moved(t, "committing") \/ Moved(t, "returning") \/ Moved(t, "delivering")
           \/ Moved(t, "failing")
    BY <1>6 DEF Transform, SkipTransform, Commit, ReleaseActive, At
  <2> QED BY <1>m, <2>1 DEF Early, Over, Handlers, Finally
<1>7. CASE CommitReturns(t)
  <2>1. run[t].pc = "returning"
    BY <1>7 DEF CommitReturns, At
  <2> QED BY <1>7, <1>a, <1>k, <2>1 DEF Onward, Early, Over, Handlers, Finally
<1>8. CASE Abandon(t) \/ Deliver(t) \/ Fail(t) \/ MarkFailed(t) \/ TellFailure(t)
           \/ MarkInterrupted(t) \/ Leave(t) \/ Pop(t) \/ LeaveFails(t)
  <2>1. /\ run[t].pc # "new"
        /\ \E pc \in Over : Moved(t, pc)
    BY <1>8 DEF Abandon, Deliver, Fail, MarkFailed, TellFailure, MarkInterrupted, Leave, Pop,
                LeaveFails, At, Early, Over, Handlers, Finally
  <2> QED BY <1>m, <2>1 DEF Early, Over, Handlers, Finally
<1>9. CASE FailLate(t) \/ HandlerFails(t)
  <2>1. run[t].pc # "new"
    BY <1>9 DEF FailLate, HandlerFails, Handlers
  <2> QED BY <1>9, <1>a, <1>k, <2>1 DEF Onward, Early, Over, Handlers, Finally
<1>10. CASE Interrupt(t)
  <2>1. /\ \A w \in Turn : w # t => run'[w] = run[w]
        /\ run'[t].pc \in {"leaving", "interrupted"} /\ run'[t].home = run[t].home
    BY <1>10 DEF AfterInterrupt
  <2>2. run[t].pc # "new"
    BY <1>10 DEF Interrupt, Body, Early
  <2> QED BY <1>a, <1>k, <2>1, <2>2 DEF Onward, Early, Over, Handlers, Finally
<1> QED BY <1>1, <1>2, <1>3, <1>4, <1>5, <1>6, <1>7, <1>8, <1>9, <1>10 DEF RunNext

LEMMA Course ==
  ASSUME TypeOK, Registry, [Next]_vars, NEW u \in Turn
  PROVE  Onward(u)
<1>n. u # Nobody
  BY NobodyIsNew
<1>1. ASSUME NEW t \in Turn, RunNext(t) PROVE Onward(u)
  BY <1>1, RunCourse
<1>2. ASSUME NEW c \in Cancel, CancelNext(c) PROVE Onward(u)
  <2>1. run' = run /\ (active' = u => active = u)
    BY <1>2, <1>n DEF CancelNext, Request, ClearForCancel, LookUp, MarkCancelled, TellCancelled,
                      CancelFails, Cleared
  <2> QED BY <2>1 DEF Onward
<1>3. ASSUME NEW p \in Process, Crash(p) PROVE Onward(u)
  <2>1. active' = active
    BY <1>3 DEF Crash
  <2>2. run[u].pc = "new" => run[u].home # p
    BY NobodyIsNew DEF Registry
  <2> QED BY <1>3, <2>1, <2>2, CrashRun DEF Onward, Early, Over, Handlers, Finally
<1>4. CASE Expire \/ UNCHANGED vars
  <2>1. run' = run /\ (active' = u => active = u)
    BY <1>4, <1>n DEF Expire, vars
  <2> QED BY <2>1 DEF Onward
<1> QED BY <1>1, <1>2, <1>3, <1>4 DEF Next

(* A row that ended stays ended. *)
LEMMA EndedStays ==
  ASSUME TypeOK, [Next]_vars, NEW u \in Turn, phase[u] = "ended"
  PROVE  phase'[u] = "ended"
<1>p. phase \in [Turn -> {"new", "open", "ended"}]
  BY DEF TypeOK
<1>e. ASSUME NEW t \in Turn, EndTurn(t) PROVE phase'[u] = "ended"
  BY <1>e, Ends
<1>1. ASSUME NEW t \in Turn, RunNext(t) PROVE phase'[u] = "ended"
  <2>1. CASE \E p \in Process : Accept(t, p)
    BY <1>p, <2>1 DEF Accept, Rows!Submit
  <2>2. CASE Commit(t)
    BY <1>p, <2>2 DEF Commit, Rows!Publish, rows
  <2>3. CASE MarkFailed(t) \/ MarkInterrupted(t)
    BY <1>e, <2>3 DEF MarkFailed, MarkInterrupted
  <2>4. CASE ~(\/ \E p \in Process : Accept(t, p)
               \/ Commit(t) \/ MarkFailed(t) \/ MarkInterrupted(t))
    <3>1. phase' = phase
      BY <1>1, <2>4 DEF RunNext, Abandon, Replay, Replace, Register, GraphReturns, Barrier,
              Transform, SkipTransform, CommitReturns, ReleaseActive, Deliver, Fail, FailLate,
              TellFailure, Interrupt, HandlerFails, Leave, Pop, LeaveFails, rows
    <3> QED BY <3>1
  <2> QED BY <2>1, <2>2, <2>3, <2>4
<1>2. ASSUME NEW c \in Cancel, CancelNext(c) PROVE phase'[u] = "ended"
  <2>1. CASE MarkCancelled(c)
    BY <1>e, <2>1 DEF MarkCancelled, TypeOK
  <2>2. CASE ~MarkCancelled(c)
    <3>1. phase' = phase
      BY <1>2, <2>2 DEF CancelNext, Request, ClearForCancel, LookUp, TellCancelled, CancelFails,
                        rows
    <3> QED BY <3>1
  <2> QED BY <2>1, <2>2
<1>3. CASE (\E p \in Process : Crash(p)) \/ Expire \/ UNCHANGED vars
  <2>1. phase' = phase
    BY <1>3 DEF Crash, Expire, vars, rows
  <2> QED BY <2>1
<1> QED BY <1>1, <1>2, <1>3 DEF Next

(* Once superseded, a run stays so. *)
LEMMA SupersededStays ==
  ASSUME TypeOK, Registry, [Next]_vars, NEW u \in Turn, Superseded(u)
  PROVE  Superseded(u)'
BY Course DEF Superseded, Onward, Early, Over, Handlers, Finally
-----------------------------------------------------------------------------
(* Cancel commands and reports *)

(* Where a cancel command is when it has just taken a step. *)
LEMMA CancelMoves ==
  ASSUME TypeOK, NEW c \in Cancel, NEW pc, CancelGoto(c, pc)
  PROVE  /\ \A d \in Cancel : d # c => cancel'[d] = cancel[d]
         /\ cancel'[c].pc = pc /\ cancel'[c].at = cancel[c].at
         /\ cancel'[c].target = cancel[c].target
<1>1. cancel \in [Cancel -> Command] /\ cancel[c] \in Command
  BY DEF TypeOK
<1>2. cancel' = [cancel EXCEPT ![c] = [cancel[c] EXCEPT !.pc = pc]]
  BY DEF CancelGoto
<1> QED BY <1>1, <1>2 DEF Command

LEMMA CancelStep ==
  ASSUME TypeOK, RowsFollow, Registry, KeyFollows, CancelFollows, [Next]_vars
  PROVE  CancelFollows'
<1> DEFINE Follow(d) ==
      /\ cancel[d].pc \notin {"idle", "done"} =>
           cancel[d].at \in Process /\ run[cancel[d].target].pc # "new"
      /\ cancel[d].pc \in {"looking", "marking", "claiming"} =>
           /\ run[cancel[d].target].pc # "accepted"
           /\ run[cancel[d].target].pc \in Early => active # cancel[d].target
      /\ cancel[d].pc = "claiming" => phase[cancel[d].target] = "ended"
<1>0. \A d \in Cancel : Follow(d)
  BY DEF CancelFollows
<1> SUFFICES ASSUME NEW d \in Cancel PROVE Follow(d)'
  BY DEF CancelFollows
<1>k. ASSUME cancel'[d] = cancel[d] PROVE Follow(d)'
  <2>1. CASE cancel[d].pc \in {"idle", "done"}
    BY <1>k, <2>1
  <2>2. CASE cancel[d].pc \notin {"idle", "done"}
    <3>1. PICK t \in Turn : t = cancel[d].target
      BY <2>2 DEF TypeOK
    <3>2. Onward(t)
      BY Course
    <3>3. phase[t] = "ended" => phase'[t] = "ended"
      BY EndedStays
    <3> QED BY <1>0, <1>k, <2>2, <3>1, <3>2, <3>3 DEF Onward
  <2> QED BY <2>1, <2>2
<1>1. ASSUME NEW t \in Turn, RunNext(t) PROVE Follow(d)'
  <2>1. cancel' = cancel
    BY <1>1 DEF RunNext, Accept, Abandon, Replay, Replace, Register, GraphReturns, Barrier,
            Transform, SkipTransform, Commit, CommitReturns, ReleaseActive, Deliver, Fail,
            FailLate, MarkFailed, TellFailure, Interrupt, MarkInterrupted, HandlerFails, Leave,
            Pop, LeaveFails
  <2> QED BY <1>k, <2>1
<1>2. ASSUME NEW c \in Cancel, CancelNext(c) PROVE Follow(d)'
  <2>r. run' = run
    BY <1>2 DEF CancelNext, Request, ClearForCancel, LookUp, MarkCancelled, TellCancelled,
                CancelFails
  <2>1. CASE d # c
    <3>1. CASE \E t \in Turn, p \in Process : Request(c, t, p)
      <4>1. cancel'[d] = cancel[d]
        BY <2>1, <3>1 DEF Request, TypeOK
      <4> QED BY <1>k, <4>1
    <3>2. CASE ClearForCancel(c) \/ LookUp(c) \/ MarkCancelled(c) \/ TellCancelled(c)
               \/ CancelFails(c)
      <4>1. \E pc : CancelGoto(c, pc)
        BY <3>2 DEF ClearForCancel, LookUp, MarkCancelled, TellCancelled, CancelFails
      <4>2. cancel'[d] = cancel[d]
        BY <2>1, <4>1, CancelMoves
      <4> QED BY <1>k, <4>2
    <3> QED BY <1>2, <3>1, <3>2 DEF CancelNext
  <2>2. ASSUME d = c, NEW t \in Turn, NEW p \in Process, Request(c, t, p) PROVE Follow(d)'
    <3>1. cancel'[d] = [pc |-> "clearing", at |-> p, target |-> t]
      BY <2>2 DEF Request, TypeOK
    <3>2. run[t].pc # "new"
      BY <2>2 DEF Request, Registry, KeyFollows
    <3> QED BY <2>r, <3>1, <3>2
  <2>3. CASE d = c /\ ClearForCancel(c)
    <3>1. PICK t \in Turn : t = cancel[c].target
      BY <2>3 DEF ClearForCancel, TypeOK
    <3>2. /\ cancel'[d].pc = IF active = t THEN "looking" ELSE "done"
          /\ cancel'[d].at = cancel[d].at /\ cancel'[d].target = t
      BY <2>3, <3>1, CancelMoves DEF ClearForCancel
    <3>3. active' = IF active = t THEN Nobody ELSE active
      BY <2>3, <3>1 DEF ClearForCancel, Cleared
    <3>4. cancel[d].at \in Process /\ run[t].pc # "new"
      BY <1>0, <2>3, <3>1 DEF ClearForCancel
    <3>5. active = t => run[t].pc # "accepted" /\ active' # t
      BY <3>3, NobodyIsNew DEF KeyFollows
    <3> QED BY <2>r, <3>2, <3>4, <3>5
  <2>4. CASE d = c /\ LookUp(c)
    <3>1. /\ cancel[d].pc = "looking" /\ active' = active
          /\ cancel'[d].pc \in {"marking", "done"}
          /\ cancel'[d].at = cancel[d].at /\ cancel'[d].target = cancel[d].target
      BY <2>4, CancelMoves DEF LookUp
    <3> QED BY <1>0, <2>r, <3>1
  <2>5. CASE d = c /\ MarkCancelled(c)
    <3>1. /\ cancel[d].pc = "marking" /\ active' = active
          /\ cancel'[d].pc = "claiming"
          /\ cancel'[d].at = cancel[d].at /\ cancel'[d].target = cancel[d].target
      BY <2>5, CancelMoves DEF MarkCancelled
    <3>2. PICK t \in Turn : t = cancel[d].target /\ EndTurn(t)
      BY <2>5 DEF MarkCancelled, TypeOK
    <3>3. run[t].pc # "new"
      BY <1>0, <3>1, <3>2
    <3>4. phase'[t] = "ended"
      BY <3>2, <3>3, Ends DEF RowsFollow
    <3> QED BY <1>0, <2>r, <3>1, <3>2, <3>4
  <2>6. CASE d = c /\ (TellCancelled(c) \/ CancelFails(c))
    <3>1. cancel'[d].pc = "done"
      BY <2>6, CancelMoves DEF TellCancelled, CancelFails
    <3> QED BY <3>1
  <2> QED BY <1>2, <2>1, <2>2, <2>3, <2>4, <2>5, <2>6 DEF CancelNext
<1>3. ASSUME NEW p \in Process, Crash(p) PROVE Follow(d)'
  <2>1. cancel'[d] = cancel[d] \/ cancel'[d].pc = "done"
    BY <1>3 DEF Crash, TypeOK, Command
  <2> QED BY <1>k, <2>1
<1>4. CASE Expire \/ UNCHANGED vars
  <2>1. cancel' = cancel
    BY <1>4 DEF Expire, vars
  <2> QED BY <1>k, <2>1
<1> QED BY <1>1, <1>2, <1>3, <1>4 DEF Next

(* A version is added only by the run at its commit, of a row still open. *)
LEMMA OnlyCommitCommits ==
  ASSUME TypeOK, [Next]_vars, NEW u \in Turn, Committed(u)', ~Committed(u)
  PROVE  run[u].pc = "committing" /\ phase[u] = "open"
<1>k. ASSUME journal' = journal PROVE FALSE
  BY <1>k, CommittedStays
<1>1. ASSUME NEW t \in Turn, RunNext(t) PROVE run[u].pc = "committing" /\ phase[u] = "open"
  <2>1. CASE Commit(t)
    <3>1. Rows!Publish(t)
      BY <1>k, <2>1 DEF Commit, rows
    <3>2. u = t
      BY <3>1, CommittedGrows
    <3> QED BY <2>1, <3>1, <3>2 DEF Commit, At, Rows!Publish
  <2>2. CASE MarkFailed(t) \/ MarkInterrupted(t)
    BY <1>k, <2>2, Ends DEF MarkFailed, MarkInterrupted
  <2>3. CASE ~(Commit(t) \/ MarkFailed(t) \/ MarkInterrupted(t))
    <3>1. journal' = journal
      BY <1>1, <2>3 DEF RunNext, Accept, Rows!Submit, Abandon, Replay, Replace, Register,
              GraphReturns, Barrier, Transform, SkipTransform, CommitReturns, ReleaseActive,
              Deliver, Fail, FailLate, TellFailure, Interrupt, HandlerFails, Leave, Pop,
              LeaveFails, rows
    <3> QED BY <1>k, <3>1
  <2> QED BY <2>1, <2>2, <2>3
<1>2. ASSUME NEW c \in Cancel, CancelNext(c) PROVE FALSE
  <2>1. journal' = journal
    <3>1. CASE MarkCancelled(c)
      BY <3>1, Ends DEF MarkCancelled, TypeOK
    <3>2. CASE ~MarkCancelled(c)
      BY <1>2, <3>2 DEF CancelNext, Request, ClearForCancel, LookUp, TellCancelled,
                        CancelFails, rows
    <3> QED BY <3>1, <3>2
  <2> QED BY <1>k, <2>1
<1>3. CASE (\E p \in Process : Crash(p)) \/ Expire \/ UNCHANGED vars
  <2>1. journal' = journal
    BY <1>3 DEF Crash, Expire, vars, rows
  <2> QED BY <1>k, <2>1
<1> QED BY <1>1, <1>2, <1>3 DEF Next

(* A report by the home process of a turn is of a row that ended, or of a    *)
(* run that cannot commit any more.                                          *)
LEMMA TellsOnlyTheEnd ==
  ASSUME TypeOK, RowsFollow, Registry, CancelFollows, [Next]_vars, NEW u \in Turn,
         <<run[u].home, u>> \in told', <<run[u].home, u>> \notin told
  PROVE  phase[u] = "ended" \/ Superseded(u)
<1>1. ASSUME NEW t \in Turn, RunNext(t) PROVE phase[u] = "ended"
  <2>1. TellFailure(t)
    BY <1>1 DEF RunNext, Accept, Abandon, Replay, Replace, Register, GraphReturns, Barrier,
            Transform, SkipTransform, Commit, CommitReturns, ReleaseActive, Deliver, Fail,
            FailLate, MarkFailed, Interrupt, MarkInterrupted, HandlerFails, Leave, Pop,
            LeaveFails, screen
  <2>2. u = t /\ run[t].pc = "claiming"
    BY <2>1 DEF TellFailure, ClaimAndTell, At
  <2> QED BY <2>2 DEF RowsFollow
<1>2. ASSUME NEW c \in Cancel, CancelNext(c) PROVE phase[u] = "ended" \/ Superseded(u)
  <2>1. CASE TellCancelled(c)
    <3>1. u = cancel[c].target /\ cancel[c].pc = "claiming"
      BY <2>1 DEF TellCancelled, ClaimAndTell
    <3> QED BY <3>1 DEF CancelFollows
  <2>2. CASE LookUp(c)
    <3>1. /\ ~Registered(cancel[c].target, cancel[c].at)
          /\ cancel[c].at = run[u].home /\ cancel[c].target = u /\ cancel[c].pc = "looking"
      BY <2>2 DEF LookUp, ClaimAndTell, screen
    <3>2. u \notin known
      BY <3>1 DEF Registered
    <3>3. run[u].pc \notin {"new", "accepted"} \cup Cancellable
      BY <3>1, <3>2 DEF CancelFollows, Registry
    <3>4. run[u].pc \in Early => active # u
      BY <3>1 DEF CancelFollows
    <3>5. run[u].pc \in Place
      BY DEF TypeOK, Run
    <3> QED BY <3>3, <3>4, <3>5
          DEF Superseded, Place, Cancellable, Body, Early, Over, Handlers, Finally
  <2>3. CASE ~(TellCancelled(c) \/ LookUp(c))
    BY <1>2, <2>3 DEF CancelNext, Request, ClearForCancel, MarkCancelled, CancelFails, screen
  <2> QED BY <2>1, <2>2, <2>3
<1>3. CASE (\E p \in Process : Crash(p)) \/ Expire \/ UNCHANGED vars
  BY <1>3 DEF Crash, Expire, vars, screen
<1> QED BY <1>1, <1>2, <1>3 DEF Next

(* Nothing is reported of a turn that is not accepted. *)
LEMMA NewIsNotTold ==
  ASSUME TypeOK, Registry, CancelFollows, [Next]_vars, NEW u \in Turn, run[u].pc = "new"
  PROVE  \A p \in Process \cup {Nobody} : <<p, u>> \notin told'
<1>0. \A p \in Process \cup {Nobody} : <<p, u>> \notin told
  BY DEF Registry
<1>1. ASSUME NEW t \in Turn, RunNext(t)
      PROVE  \A p \in Process \cup {Nobody} : <<p, u>> \notin told'
  <2>1. CASE TellFailure(t)
    BY <1>0, <2>1 DEF TellFailure, ClaimAndTell, At
  <2>2. CASE ~TellFailure(t)
    <3>1. told' = told
      BY <1>1, <2>2 DEF RunNext, Accept, Abandon, Replay, Replace, Register, GraphReturns,
            Barrier, Transform, SkipTransform, Commit, CommitReturns, ReleaseActive, Deliver,
            Fail, FailLate, MarkFailed, Interrupt, MarkInterrupted, HandlerFails, Leave, Pop,
            LeaveFails, screen
    <3> QED BY <1>0, <3>1
  <2> QED BY <2>1, <2>2
<1>2. ASSUME NEW c \in Cancel, CancelNext(c)
      PROVE  \A p \in Process \cup {Nobody} : <<p, u>> \notin told'
  <2>1. CASE LookUp(c) \/ TellCancelled(c)
    <3>1. /\ told' \subseteq told \cup {<<cancel[c].at, cancel[c].target>>}
          /\ run[cancel[c].target].pc # "new"
      BY <2>1 DEF LookUp, TellCancelled, ClaimAndTell, screen, CancelFollows
    <3> QED BY <1>0, <3>1
  <2>2. CASE ~(LookUp(c) \/ TellCancelled(c))
    <3>1. told' = told
      BY <1>2, <2>2 DEF CancelNext, Request, ClearForCancel, MarkCancelled, CancelFails, screen
    <3> QED BY <1>0, <3>1
  <2> QED BY <2>1, <2>2
<1>3. CASE (\E p \in Process : Crash(p)) \/ Expire \/ UNCHANGED vars
  <2>1. told' = told
    BY <1>3 DEF Crash, Expire, vars, screen
  <2> QED BY <1>0, <2>1
<1> QED BY <1>1, <1>2, <1>3 DEF Next

LEMMA ToldStep ==
  ASSUME TypeOK, RowsFollow, Registry, CancelFollows, ToldFollows, [Next]_vars
  PROVE  ToldFollows'
<1> SUFFICES ASSUME NEW u \in Turn, <<run'[u].home, u>> \in told', ~Committed(u)'
             PROVE  phase'[u] = "ended" \/ Superseded(u)'
  BY DEF ToldFollows
<1>1. run'[u].home \in Process \cup {Nobody}
  <2>1. TypeOK'
    BY TypeStep
  <2> QED BY <2>1 DEF TypeOK, Run
<1>2. run[u].pc # "new"
  BY <1>1, NewIsNotTold
<1>3. run'[u].home = run[u].home
  BY <1>2, Course DEF Onward
<1>4. phase[u] = "ended" \/ Superseded(u)
  <2>1. CASE <<run[u].home, u>> \notin told
    BY <1>3, <2>1, TellsOnlyTheEnd
  <2>2. CASE <<run[u].home, u>> \in told /\ ~Committed(u)
    BY <2>2 DEF ToldFollows
  <2>3. CASE Committed(u)
    BY <2>3 DEF RowsFollow
  <2> QED BY <2>1, <2>2, <2>3
<1> QED BY <1>4, EndedStays, SupersededStays

-----------------------------------------------------------------------------
(* The theorems *)

LEMMA Inductive == Spec => []IInv
<1>1. Init => IInv
  <2> SUFFICES ASSUME Init PROVE IInv
    OBVIOUS
  <2>1. TypeOK
    BY Places DEF Init, TypeOK, Run, Command, Rows!Init
  <2>2. /\ journal = << >> /\ phase = [t \in Turn |-> "new"]
        /\ active = Nobody /\ claimed = {} /\ told = {} /\ seen = {}
    BY DEF Init, Rows!Init
  <2>7. \A t \in Turn : run[t].pc = "new" /\ run[t].home = Nobody /\ run[t].saved = FALSE
    BY DEF Init
  <2>8. \A c \in Cancel : cancel[c].pc = "idle"
    BY DEF Init
  <2>3. \A t \in Turn : ~Committed(t)
    <3>1. DOMAIN journal = {}
      BY <2>2
    <3> QED BY <3>1 DEF Committed
  <2>4. RowsFollow
    BY <2>2, <2>3, <2>7 DEF RowsFollow, Finally
  <2>5. Reported /\ Registry
    BY <2>2, <2>7 DEF Reported, Registry, Finally, Cancellable
  <2>6. KeyFollows /\ CancelFollows /\ ToldFollows
    BY <2>2, <2>8, NobodyIsNew DEF KeyFollows, CancelFollows, ToldFollows
  <2> QED BY <2>1, <2>4, <2>5, <2>6 DEF IInv
<1>2. IInv /\ [Next]_vars => IInv'
  BY TypeStep, RowsStep, ReportedStep, RegistryStep, ActiveStep, CancelStep, ToldStep DEF IInv
<1> QED BY <1>1, <1>2, PTL DEF Spec

(* A run that comes to its regular end leaves an ended turn, and somebody    *)
(* was given the answer or told that there is none.                          *)
THEOREM RunsEndOrderly == Spec => []OrderlyEnd
<1>1. IInv => OrderlyEnd
  BY DEF IInv, RowsFollow, Reported, OrderlyEnd
<1> QED BY <1>1, Inductive, PTL

(* A step of run t, and what it may do to the key. *)
LEMMA RunSparesKey ==
  ASSUME TypeOK, NEW t \in Turn, RunNext(t)
  PROVE  /\ \A u \in Turn : u # t => run'[u] = run[u]
         /\ cancel' = cancel
         /\ active' = active \/ active' = Cleared(t) \/ (active' = t /\ At(t, "accepted"))
<1>1. cancel' = cancel
  BY DEF RunNext, Accept, Abandon, Replay, Replace, Register, GraphReturns, Barrier, Transform,
         SkipTransform, Commit, CommitReturns, ReleaseActive, Deliver, Fail, FailLate, MarkFailed,
         TellFailure, Interrupt, MarkInterrupted, HandlerFails, Leave, Pop, LeaveFails
<1>2. active' = active \/ active' = Cleared(t) \/ (active' = t /\ At(t, "accepted"))
  BY DEF RunNext, Accept, Abandon, Replay, Replace, Register, GraphReturns, Barrier, Transform,
         SkipTransform, Commit, CommitReturns, ReleaseActive, Deliver, Fail, FailLate, MarkFailed,
         TellFailure, Interrupt, MarkInterrupted, HandlerFails, Leave, FinalActive, Pop, LeaveFails
<1>3. \A u \in Turn : u # t => run'[u] = run[u]
  <2>1. CASE \E p \in Process : Accept(t, p)
    BY <2>1, Changes
  <2>2. CASE Replace(t) \/ CommitReturns(t) \/ FailLate(t) \/ HandlerFails(t) \/ Interrupt(t)
    BY <2>2, Changes DEF Moved
  <2>3. CASE Replay(t)
    BY <2>3 DEF Replay
  <2>4. ASSUME NEW pc, Goto(t, pc) PROVE \A u \in Turn : u # t => run'[u] = run[u]
    BY <2>4, Moves DEF Moved
  <2> QED BY <2>1, <2>2, <2>3, <2>4
        DEF RunNext, Abandon, Register, GraphReturns, Barrier, Transform, SkipTransform, Commit,
            ReleaseActive, Deliver, Fail, MarkFailed, TellFailure, MarkInterrupted, Leave, Pop,
            LeaveFails
<1> QED BY <1>1, <1>2, <1>3

(* A step of cancel command c moves no run, and only its own target loses    *)
(* the key.                                                                  *)
LEMMA CancelSparesKey ==
  ASSUME TypeOK, NEW c \in Cancel, CancelNext(c)
  PROVE  /\ run' = run
         /\ \A d \in Cancel : d # c => cancel'[d] = cancel[d]
         /\ active' = active \/ active' = Cleared(cancel[c].target)
BY DEF TypeOK, CancelNext, Request, ClearForCancel, LookUp, MarkCancelled, TellCancelled,
       CancelFails, CancelGoto

(* The key is taken by an admission only, and cleared only for the run it    *)
(* names: a late finally block or cancel command spares a newer generation.  *)
THEOREM NewerRunKeepsTheKey == Spec => KeyChangesHands
<1>1. IInv /\ [Next]_vars => [KeyStep]_vars
  <2> SUFFICES ASSUME IInv, [Next]_vars PROVE KeyStep
    OBVIOUS
  <2>t. TypeOK
    BY DEF IInv
  <2>1. active' \notin {active, Nobody} => At(active', "accepted")
    <3>1. ASSUME NEW t \in Turn, RunNext(t)
          PROVE  active' \notin {active, Nobody} => At(active', "accepted")
      BY <2>t, <3>1, RunSparesKey DEF Cleared
    <3>2. ASSUME NEW c \in Cancel, CancelNext(c) PROVE active' \in {active, Nobody}
      BY <2>t, <3>2, CancelSparesKey DEF Cleared
    <3> QED BY <3>1, <3>2 DEF Next, Crash, Expire, vars
  <2>2. ASSUME NEW t \in Turn, NEW u \in Turn, u # t, active = t, ActsFor(u)
        PROVE  active' \in {t, u}
    <3>1. ASSUME NEW w \in Turn, RunNext(w) PROVE active' \in {t, u}
      <4>1. w = u
        BY <2>t, <2>2, <3>1, RunSparesKey DEF ActsFor
      <4> QED BY <2>t, <2>2, <3>1, <4>1, RunSparesKey DEF Cleared
    <3>2. ASSUME NEW c \in Cancel, CancelNext(c) PROVE active' \in {t, u}
      <4>1. cancel[c].target = u
        BY <2>t, <2>2, <3>2, CancelSparesKey DEF ActsFor
      <4> QED BY <2>t, <2>2, <3>2, <4>1, CancelSparesKey DEF Cleared
    <3>3. CASE Expire
      BY <2>2, <3>3 DEF ActsFor, Expire
    <3> QED BY <2>2, <3>1, <3>2, <3>3 DEF Next, Crash, vars
  <2>3. \A t \in Turn : run'[t].pc \in {"popping", "done"} => active' # t
    BY <2>t, ActiveStep DEF IInv, KeyFollows
  <2> QED BY <2>1, <2>2, <2>3 DEF KeyStep
<1> QED BY <1>1, Inductive, PTL DEF Spec, KeyChangesHands

(* A turn its own process reported failed or cancelled is not committed      *)
(* afterwards: the report follows the end of the row, or the run can no      *)
(* longer come to its commit.                                                *)
THEOREM CancelAtHomeIsFinal == Spec => ToldIsFinal
<1>1. IInv /\ [Next]_vars => [NotAnsweredAfterTold]_vars
  <2> SUFFICES ASSUME IInv, [Next]_vars, NEW u \in Turn, <<run[u].home, u>> \in told,
                      ~Committed(u), Committed(u)'
               PROVE  FALSE
    BY DEF NotAnsweredAfterTold
  <2>1. run[u].pc = "committing" /\ phase[u] = "open"
    BY OnlyCommitCommits DEF IInv
  <2>2. phase[u] = "ended" \/ Superseded(u)
    BY DEF IInv, ToldFollows
  <2> QED BY <2>1, <2>2 DEF Superseded, Early, Over, Handlers, Finally
<1> QED BY <1>1, Inductive, PTL DEF Spec, ToldIsFinal

(* A generation that lost the trip before its barrier never becomes a        *)
(* version: superseded and not committed is a state no step leaves.          *)
THEOREM SupersededIsDead == Spec => SupersededNeverCommits
<1>0. ASSUME NEW u \in Turn PROVE Spec => SupersededIsLost(u)
  <2> DEFINE Dead == Superseded(u) /\ ~Committed(u)
             Lost == run[u].pc \in Early /\ active # u
  <2>1. IInv /\ Lost => Dead
    BY DEF IInv, RowsFollow, Superseded, Early, Over, Handlers, Finally
  <2>2. IInv /\ Dead /\ [Next]_vars => Dead'
    <3> SUFFICES ASSUME IInv, Dead, [Next]_vars PROVE Dead'
      OBVIOUS
    <3>1. Superseded(u)'
      BY SupersededStays DEF IInv
    <3>2. ~Committed(u)'
      BY OnlyCommitCommits DEF IInv, Superseded, Early, Over, Handlers, Finally
    <3> QED BY <3>1, <3>2
  <2>3. Dead => ~Committed(u)
    OBVIOUS
  <2> HIDE DEF Dead, Lost
  <2>4. Spec => [](Lost => []~Committed(u))
    BY <2>1, <2>2, <2>3, Inductive, PTL DEF Spec
  <2> QED BY <2>4 DEF Lost, SupersededIsLost
<1> QED BY <1>0 DEF SupersededNeverCommits

LEMMA RowStep ==
  ASSUME TypeOK, [Next]_vars
  PROVE  [Rows!Next]_(Rows!journalVars)
<1> USE DEF Rows!journalVars
<1>1. ASSUME NEW t \in Turn, EndTurn(t) PROVE Rows!Next \/ UNCHANGED rows
  BY <1>1 DEF EndTurn, Rows!Next
<1>2. ASSUME NEW t \in Turn, RunNext(t) PROVE Rows!Next \/ UNCHANGED rows
  <2>1. ASSUME NEW p \in Process, Accept(t, p) PROVE Rows!Next
    BY <2>1 DEF Accept, Rows!Next
  <2>2. CASE Commit(t)
    BY <2>2 DEF Commit, Rows!Next
  <2>3. CASE MarkFailed(t) \/ MarkInterrupted(t)
    BY <1>1, <2>3 DEF MarkFailed, MarkInterrupted
  <2> QED BY <1>2, <2>1, <2>2, <2>3
          DEF RunNext, Abandon, Replay, Replace, Register, GraphReturns, Barrier, Transform,
              SkipTransform, CommitReturns, ReleaseActive, Deliver, Fail, FailLate, TellFailure,
              Interrupt, HandlerFails, Leave, Pop, LeaveFails
<1>3. ASSUME NEW c \in Cancel, CancelNext(c) PROVE Rows!Next \/ UNCHANGED rows
  <2>1. CASE MarkCancelled(c)
    <3>1. cancel[c].target \in Turn
      BY <2>1 DEF TypeOK, MarkCancelled
    <3> QED BY <1>1, <2>1, <3>1 DEF MarkCancelled
  <2> QED BY <1>3, <2>1 DEF CancelNext, Request, ClearForCancel, LookUp, TellCancelled, CancelFails
<1> QED BY <1>2, <1>3 DEF Next, Crash, Expire, vars, rows

(* Whatever runs, cancel commands, crashes and expiries do to the rows of a  *)
(* trip is what the contract of the store (TripJournal, which TurnStore      *)
(* implements: StoreIsJournal) lets a client do: a turn is submitted once,   *)
(* ends once, and publishes only from the newest version.                    *)
THEOREM RunsKeepTheContract == Spec => Rows!Spec
<1>1. Init => Rows!Init
  BY DEF Init
<1> QED BY <1>1, RowStep, TypeCorrect, PTL DEF Spec, Rows!Spec
==============================================================================
