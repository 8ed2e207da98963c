--------------------------- MODULE PlannerRunProofs ---------------------------
(* Theorems about PlannerRun, for any number of executions, commands and     *)
(* processes.                                                                *)
EXTENDS PlannerRun, SequenceTheorems, WellFoundedInduction, TLAPS

-----------------------------------------------------------------------------
(* The newest row of a generation *)

(* A nonempty set of bounded numbers has a largest member.                   *)
LEMMA LargestExists ==
  ASSUME NEW n \in Nat, NEW S, S \subseteq 0..n, S # {}
  PROVE  /\ Max(S) \in S
         /\ \A y \in S : Max(S) >= y
<1> DEFINE T == {n - y : y \in S}
           R == {p \in Nat \X Nat : p[1] < p[2]}
<1>1. T \subseteq Nat /\ T # {}
  <2>1. \A y \in S : n - y \in Nat
    OBVIOUS
  <2>2. PICK y \in S : TRUE
    OBVIOUS
  <2>3. n - y \in T
    BY <2>2
  <2> QED BY <2>1, <2>3
<1>2. IsWellFoundedOn(R, Nat)
  BY NatLessThanWellFounded DEF OpToRel
<1>3. PICK x \in T : \A y \in T : ~ (<<y, x>> \in R)
  <2> HIDE DEF T, R
  <2> QED BY <1>1, <1>2, WFMin
<1>4. PICK z \in S : x = n - z
  BY <1>3
<1>5. \A y \in S : z >= y
  <2> TAKE y \in S
  <2>1. n - y \in T /\ n - y \in Nat /\ x \in Nat
    BY <1>1, <1>3
  <2>2. ~ (n - y < x)
    BY <2>1, <1>3
  <2> QED BY <2>1, <2>2, <1>4
<1> QED BY <1>5 DEF Max

(* Newest(g) is the last row of g, or 0. *)
LEMMA NewestIsLast ==
  ASSUME ws \in Seq(WorkspaceRow), NEW g
  PROVE  /\ Newest(g) \in 0..Len(ws)
         /\ Newest(g) # 0 => ws[Newest(g)].gen = g
         /\ \A i \in DOMAIN ws : ws[i].gen = g => Newest(g) # 0 /\ i <= Newest(g)
<1> DEFINE S == {i \in DOMAIN ws : ws[i].gen = g} \cup {0}
<1>1. Len(ws) \in Nat /\ DOMAIN ws = 1..Len(ws)
  BY LenProperties
<1>2. S \subseteq 0..Len(ws) /\ S # {}
  BY <1>1
<1>3. Max(S) \in S /\ \A y \in S : Max(S) >= y
  <2> HIDE DEF S
  <2> QED BY <1>1, <1>2, LargestExists
<1>4. Newest(g) = Max(S)
  BY DEF Newest
<1>5. \A i \in DOMAIN ws : ws[i].gen = g => i \in S /\ i >= 1
  BY <1>1
<1> HIDE DEF S
<1>6. Newest(g) \in 0..Len(ws) /\ \A y \in S : Newest(g) >= y
  BY <1>2, <1>3, <1>4
<1>7. Newest(g) # 0 => ws[Newest(g)].gen = g
  BY <1>3, <1>4 DEF S
<1>8. \A i \in DOMAIN ws : ws[i].gen = g => Newest(g) # 0 /\ i <= Newest(g)
  BY <1>1, <1>5, <1>6
<1> QED BY <1>6, <1>7, <1>8

-----------------------------------------------------------------------------
(* What the helpers do to the executions *)

LEMMA Places ==
  /\ {"new", "loaded", "leaving", "done", "failing", "marking"} \subseteq Place
  /\ {"held", "taking", "admitting", "admitted", "committed"} \subseteq Place
  /\ {"ready", "reading", "saving", "planning", "committing"} \subseteq Place
BY DEF Place, Body, Handlers, Admission, Working

LEMMA BlankIsTyped == NoExecution \in Execution /\ Ended \in Execution
<1>1. NoExecution \in Execution
  BY Places DEF NoExecution, Execution
<1>2. Ended \in Execution
  BY Places, <1>1 DEF Ended, Execution
<1> QED BY <1>1, <1>2

LEMMA GotoDoes ==
  ASSUME TypeOK, NEW e \in Exec, NEW pc \in Place, Goto(e, pc)
  PROVE  /\ run' \in [Exec -> Execution]
         /\ \A d \in Exec \ {e} : run'[d] = run[d]
         /\ run'[e] = [run[e] EXCEPT !.pc = pc]
<1>1. run[e] \in Execution /\ run \in [Exec -> Execution]
  BY DEF TypeOK
<1>2. [run[e] EXCEPT !.pc = pc] \in Execution
  BY <1>1 DEF Execution
<1>3. run' = [run EXCEPT ![e] = [run[e] EXCEPT !.pc = pc]]
  BY DEF Goto
<1> QED BY <1>1, <1>2, <1>3

LEMMA RaiseDoes ==
  ASSUME TypeOK, NEW e \in Exec, NEW halted \in BOOLEAN, Raise(e, halted)
  PROVE  /\ run' \in [Exec -> Execution]
         /\ \A d \in Exec \ {e} : run'[d] = run[d]
         /\ run'[e] = [run[e] EXCEPT !.pc = "failing", !.halted = halted, !.saw = 0,
                                    !.goal = "saving", !.late = FALSE]
<1> DEFINE r == [run[e] EXCEPT !.pc = "failing", !.halted = halted, !.saw = 0,
                               !.goal = "saving", !.late = FALSE]
<1>1. run[e] \in Execution /\ run \in [Exec -> Execution]
  BY DEF TypeOK
<1>2. r \in Execution
  BY <1>1, Places DEF Execution
<1>3. run' = [run EXCEPT ![e] = r]
  BY DEF Raise
<1> QED BY <1>1, <1>2, <1>3

(* A new record for one execution. *)
LEMMA ReplaceDoes ==
  ASSUME TypeOK, NEW e \in Exec, NEW r \in Execution, run' = [run EXCEPT ![e] = r]
  PROVE  /\ run' \in [Exec -> Execution]
         /\ \A d \in Exec \ {e} : run'[d] = run[d]
         /\ run'[e] = r
BY DEF TypeOK

LEMMA ReduceDoes ==
  ASSUME TypeOK, NEW e \in Exec, NEW pc \in Place, Reduce(e, pc)
  PROVE  /\ run' \in [Exec -> Execution]
         /\ \A d \in Exec \ {e} : run'[d] = run[d]
         /\ run'[e].pc = pc /\ run'[e].req = run[e].req
         /\ run'[e].home = run[e].home /\ run'[e].gen = run[e].gen
         /\ run'[e].saw = 0 /\ run'[e].prev = 0 /\ ~run'[e].late
<1> DEFINE r == [NoExecution EXCEPT !.pc = pc, !.req = run[e].req,
                                    !.home = run[e].home, !.gen = run[e].gen]
<1>1. run[e] \in Execution
  BY DEF TypeOK
<1>2. r \in Execution
  BY <1>1, BlankIsTyped DEF Execution
<1>3. /\ r.pc = pc /\ r.req = run[e].req /\ r.home = run[e].home /\ r.gen = run[e].gen
      /\ r.saw = 0 /\ r.prev = 0 /\ ~r.late
  BY DEF NoExecution
<1>4. run' = [run EXCEPT ![e] = r]
  BY DEF Reduce
<1> HIDE DEF r
<1> QED BY <1>2, <1>3, <1>4, ReplaceDoes

LEMMA EndDoes ==
  ASSUME TypeOK, NEW e \in Exec, run' = [run EXCEPT ![e] = Ended]
  PROVE  /\ run' \in [Exec -> Execution]
         /\ \A d \in Exec \ {e} : run'[d] = run[d]
         /\ run'[e].pc = "done" /\ run'[e].gen = Nobody
         /\ run'[e].saw = 0 /\ run'[e].prev = 0 /\ ~run'[e].late
<1>1. /\ Ended.pc = "done" /\ Ended.gen = Nobody
      /\ Ended.saw = 0 /\ Ended.prev = 0 /\ ~Ended.late
  BY DEF Ended, NoExecution
<1> QED BY <1>1, BlankIsTyped, ReplaceDoes

-----------------------------------------------------------------------------
(* The turn rows and the workspace rows *)

(* Turns only go on: from new to open to ended. *)
RowsGoOn ==
  /\ journal' \in Seq(Turn)
  /\ phase' \in [Turn -> {"new", "open", "ended"}]
  /\ base' \in [Turn -> Nat]
  /\ \A t \in Turn : /\ phase[t] = "ended" => phase'[t] = "ended"
                     /\ phase[t] # "new" => phase'[t] # "new"

LEMMA SubmitGoesOn == ASSUME TypeOK, NEW t \in Turn, Rows!Submit(t) PROVE RowsGoOn
<1>1. Len(journal) \in Nat
  BY LenProperties DEF TypeOK
<1> QED BY <1>1 DEF TypeOK, Rows!Submit, RowsGoOn

LEMMA PublishGoesOn == ASSUME TypeOK, NEW t \in Turn, Rows!Publish(t) PROVE RowsGoOn
<1>1. Append(journal, t) \in Seq(Turn)
  BY AppendProperties DEF TypeOK
<1> QED BY <1>1 DEF TypeOK, Rows!Publish, RowsGoOn

LEMMA WithdrawGoesOn == ASSUME TypeOK, NEW t, Rows!Withdraw(t) PROVE RowsGoOn
BY DEF TypeOK, Rows!Withdraw, RowsGoOn

LEMMA StayingGoesOn == ASSUME TypeOK, UNCHANGED rows PROVE RowsGoOn
BY DEF TypeOK, rows, RowsGoOn

LEMMA RowsStep == TypeOK /\ [Next]_vars => RowsGoOn
<1> SUFFICES ASSUME TypeOK, [Next]_vars PROVE RowsGoOn
  OBVIOUS
<1>1. ASSUME NEW e \in Exec, ExecNext(e) PROVE RowsGoOn
  <2>1. CASE TakeOver(e)
    BY <2>1, WithdrawGoesOn, StayingGoesOn DEF TakeOver
  <2>2. CASE Admit(e)
    <3>1. run[e].req \in Turn
      BY <2>2 DEF Admit, At, TypeOK, Turn
    <3> QED BY <2>2, <3>1, SubmitGoesOn, StayingGoesOn DEF Admit
  <2>3. CASE Commit(e)
    <3>1. run[e].req \in Turn
      BY <2>3 DEF Commit, At, TypeOK, Turn
    <3> QED BY <2>3, <3>1, PublishGoesOn, StayingGoesOn DEF Commit
  <2>4. CASE MarkFailed(e)
    BY <2>4, WithdrawGoesOn, StayingGoesOn DEF MarkFailed, EndTurn
  <2>5. CASE UNCHANGED rows
    BY <2>5, StayingGoesOn
  <2> QED BY <1>1, <2>1, <2>2, <2>3, <2>4, <2>5
        DEF ExecNext, Load, Acquire, CheckTurn, Repeat, Activate, Barrier, ReadActive,
            Save, SaveAgain, Beat, Deliver, Fail, Escape, Interrupt, SaveFailed,
            Release, ReleaseFails
<1>2. ASSUME NEW c \in Cancel, CancelNext(c) PROVE RowsGoOn
  <2>1. CASE Stop(c)
    BY <2>1, WithdrawGoesOn, StayingGoesOn DEF Stop, rows
  <2>2. CASE UNCHANGED rows
    BY <2>2, StayingGoesOn
  <2> QED BY <1>2, <2>1, <2>2 DEF CancelNext, Find, HaltAndClear, CancelFails
<1>3. ASSUME NEW t \in Talk, TalkStarts(t) \/ TalkCommits(t) PROVE RowsGoOn
  BY <1>3, SubmitGoesOn, PublishGoesOn DEF TalkStarts, TalkCommits, Turn
<1>4. CASE LeaseLapses \/ (\E p \in Process : Crash(p)) \/ UNCHANGED vars
  BY <1>4, StayingGoesOn DEF LeaseLapses, Crash, vars
<1> QED BY <1>1, <1>2, <1>3, <1>4 DEF Next

(* A cancel command names a turn that saved a row of its generation. *)
CommandsNameRows ==
  \A c \in Cancel : cancel[c].pc = "stopping" =>
    \E k \in DOMAIN ws : ws[k].gen = cancel[c].gen /\ ws[k].turn = cancel[c].target

(* Execution e appends r: it goes on from the newest row. *)
SavedBy(e, r) ==
  /\ run[e].pc \in {"saving", "failing"}
  /\ r.gen = run[e].gen /\ r.turn = run[e].req
  /\ run[e].prev = Newest(r.gen)

CancelledBy(c, r) ==
  /\ cancel[c].pc = "stopping"
  /\ r.gen = cancel[c].gen /\ r.turn = cancel[c].target

(* r may follow the rows there are. *)
MayFollow(r) ==
  /\ r \in WorkspaceRow
  /\ r.basis = Newest(r.gen)
  /\ r.rev > RevisionOf(Newest(r.gen))
  /\ phase[r.turn] = "open"
  /\ \/ \E e \in Exec : SavedBy(e, r)
     \/ \E c \in Cancel : CancelledBy(c, r)

LEMMA RevisionIsNat == ASSUME TypeOK, NEW g PROVE RevisionOf(Newest(g)) \in Nat
<1>1. ws \in Seq(WorkspaceRow) /\ Len(ws) \in Nat
  BY LenProperties DEF TypeOK
<1>2. Newest(g) \in 0..Len(ws)
  BY <1>1, NewestIsLast
<1>3. CASE Newest(g) # 0
  <2>1. ws[Newest(g)] \in WorkspaceRow
    BY <1>1, <1>2, <1>3, ElementOfSeq
  <2> QED BY <2>1, <1>3 DEF RevisionOf, WorkspaceRow
<1> QED BY <1>3 DEF RevisionOf

LEMMA SavedMayFollow ==
  ASSUME TypeOK, NEW e \in Exec, run[e].pc \in {"saving", "failing"},
         NEW rev \in Nat, MaySave(e, rev), Append1(e, rev)
  PROVE  \E r : MayFollow(r) /\ SavedBy(e, r) /\ ws' = Append(ws, r)
<1> DEFINE r == [gen |-> run[e].gen, turn |-> run[e].req, rev |-> rev, basis |-> run[e].prev]
<1>1. r \in WorkspaceRow
  BY DEF TypeOK, WorkspaceRow, Execution
<1>2. SavedBy(e, r) /\ MayFollow(r)
  BY <1>1 DEF SavedBy, MayFollow, MaySave, Live
<1> QED BY <1>2 DEF Append1

(* Workspace rows are only appended, one at a time, to the newest of the generation. *)
LEMMA WorkspaceStep ==
  ASSUME TypeOK, CommandsNameRows, [Next]_vars, ws' # ws
  PROVE  \E r : MayFollow(r) /\ ws' = Append(ws, r)
<1>1. ASSUME NEW e \in Exec, Save(e) PROVE \E r : MayFollow(r) /\ ws' = Append(ws, r)
  <2>1. PICK rev \in 1..MaxRev : MaySave(e, rev) /\ Append1(e, rev)
    BY <1>1 DEF Save
  <2> QED BY <1>1, <2>1, SavedMayFollow DEF Save, At
<1>2. ASSUME NEW e \in Exec, SaveFailed(e) PROVE \E r : MayFollow(r) /\ ws' = Append(ws, r)
  <2> DEFINE rev == RevisionOf(run[e].prev) + 1
  <2>1. MaySave(e, rev) /\ Append1(e, rev) /\ At(e, "failing")
    BY <1>2 DEF SaveFailed
  <2>2. rev \in Nat
    BY <2>1, RevisionIsNat DEF MaySave
  <2> QED BY <2>1, <2>2, SavedMayFollow DEF At
<1>3. ASSUME NEW c \in Cancel, Stop(c) PROVE \E r : MayFollow(r) /\ ws' = Append(ws, r)
  <2> DEFINE g == cancel[c].gen
             r == [gen |-> g, turn |-> cancel[c].target, rev |-> RevisionOf(Newest(g)) + 1,
                   basis |-> Newest(g)]
  <2>1. /\ cancel[c].pc = "stopping"
        /\ ws' = Append(ws, r)
        /\ phase[cancel[c].target] = "open"
    BY <1>3 DEF Stop, Live
  <2>2. PICK k \in DOMAIN ws : ws[k].gen = g /\ ws[k].turn = cancel[c].target
    BY <2>1 DEF CommandsNameRows
  <2>3. ws[k] \in WorkspaceRow
    BY <2>2, ElementOfSeq, LenProperties DEF TypeOK
  <2>4. Newest(g) \in Nat /\ RevisionOf(Newest(g)) \in Nat
    BY RevisionIsNat, NewestIsLast, LenProperties DEF TypeOK
  <2>5. r \in WorkspaceRow
    BY <2>2, <2>3, <2>4 DEF WorkspaceRow
  <2>6. CancelledBy(c, r)
    BY <2>1 DEF CancelledBy
  <2>7. MayFollow(r)
    BY <2>1, <2>4, <2>5, <2>6 DEF MayFollow
  <2> QED BY <2>1, <2>7
<1> QED
  BY <1>1, <1>2, <1>3
     DEF Next, ExecNext, CancelNext, Load, Acquire, CheckTurn, TakeOver, Admit, Repeat, Activate,
         Barrier, ReadActive, SaveAgain, Beat, Commit, Deliver, Fail, Escape, Interrupt,
         MarkFailed, Release, ReleaseFails, Find, HaltAndClear, CancelFails,
         TalkStarts, TalkCommits, LeaseLapses, Crash, vars

LEMMA RowsStay ==
  ASSUME TypeOK, NEW r \in WorkspaceRow, ws' = Append(ws, r)
  PROVE  /\ ws' \in Seq(WorkspaceRow)
         /\ Len(ws) \in Nat /\ Len(ws') = Len(ws) + 1
         /\ DOMAIN ws = 1..Len(ws) /\ DOMAIN ws' = 1..(Len(ws) + 1)
         /\ \A i \in 1..Len(ws) : ws'[i] = ws[i]
         /\ ws'[Len(ws) + 1] = r
BY AppendProperties, LenProperties DEF TypeOK

(* No revision of a generation is above its newest row's. *)
LEMMA NewestIsHighest ==
  ASSUME TypeOK, NoLostUpdate, NEW g, NEW j \in DOMAIN ws, ws[j].gen = g
  PROVE  ws[j].rev <= RevisionOf(Newest(g))
<1> DEFINE n == Newest(g)
<1>1. ws \in Seq(WorkspaceRow) /\ Len(ws) \in Nat /\ DOMAIN ws = 1..Len(ws)
  BY LenProperties DEF TypeOK
<1>2. n \in DOMAIN ws /\ n # 0 /\ j <= n /\ ws[n].gen = g
  BY <1>1, NewestIsLast
<1>3. ws[n] \in WorkspaceRow /\ ws[j] \in WorkspaceRow
  BY <1>1, <1>2, ElementOfSeq
<1>4. CASE j = n
  BY <1>2, <1>3, <1>4 DEF RevisionOf, WorkspaceRow
<1>5. CASE j # n
  <2>1. j \in {k \in 1..(n - 1) : ws[k].gen = ws[n].gen}
    BY <1>1, <1>2, <1>5
  <2>2. ws[j].rev < ws[n].rev
    BY <1>2, <2>1 DEF NoLostUpdate
  <2> QED BY <1>2, <1>3, <2>2 DEF RevisionOf, WorkspaceRow
<1> QED BY <1>4, <1>5

LEMMA ChainStep ==
  ASSUME TypeOK, CommandsNameRows, NoLostUpdate, [Next]_vars
  PROVE  NoLostUpdate'
<1>1. CASE ws' = ws
  BY <1>1 DEF NoLostUpdate
<1>2. CASE ws' # ws
  <2>1. PICK r : MayFollow(r) /\ ws' = Append(ws, r)
    BY <1>2, WorkspaceStep
  <2>2. r \in WorkspaceRow
    BY <2>1 DEF MayFollow
  <2> DEFINE n == Len(ws)
             Older(i) == {j \in 1..(i - 1) : ws[j].gen = ws[i].gen}
             Older2(i) == {j \in 1..(i - 1) : ws'[j].gen = ws'[i].gen}
  <2>3. /\ n \in Nat /\ DOMAIN ws = 1..n /\ DOMAIN ws' = 1..(n + 1)
        /\ \A i \in 1..n : ws'[i] = ws[i]
        /\ ws'[n + 1] = r
    BY <2>1, <2>2, RowsStay
  <2> SUFFICES ASSUME NEW i \in 1..(n + 1)
               PROVE  /\ ws'[i].basis = Max(Older2(i) \cup {0})
                      /\ \A j \in Older2(i) : ws'[j].rev < ws'[i].rev
    BY <2>3 DEF NoLostUpdate
  <2>4. CASE i \in 1..n
    <3>1. Older2(i) = Older(i) /\ \A j \in Older(i) : ws'[j] = ws[j]
      BY <2>3, <2>4
    <3>2. ws[i].basis = Max(Older(i) \cup {0}) /\ \A j \in Older(i) : ws[j].rev < ws[i].rev
      BY <2>3, <2>4 DEF NoLostUpdate
    <3>3. ws'[i] = ws[i]
      BY <2>3, <2>4
    <3> HIDE DEF Older, Older2
    <3> QED BY <3>1, <3>2, <3>3
  <2>5. CASE i = n + 1
    <3>1. Older2(i) = {j \in DOMAIN ws : ws[j].gen = r.gen}
      BY <2>3, <2>5
    <3>2. ws'[i].basis = Max(Older2(i) \cup {0})
      BY <2>1, <2>3, <2>5, <3>1 DEF MayFollow, Newest
    <3>3. ASSUME NEW j \in Older2(i) PROVE ws'[j].rev < ws'[i].rev
      <4>1. j \in DOMAIN ws /\ ws[j].gen = r.gen
        BY <3>1
      <4>2. ws[j].rev <= RevisionOf(Newest(r.gen))
        BY <4>1, NewestIsHighest
      <4>3. RevisionOf(Newest(r.gen)) \in Nat
        BY RevisionIsNat
      <4>4. ws[j] \in WorkspaceRow
        BY <4>1, <2>3, ElementOfSeq DEF TypeOK
      <4>5. ws[j].rev \in Nat /\ r.rev \in Nat
        BY <4>4, <2>2 DEF WorkspaceRow
      <4>6. RevisionOf(Newest(r.gen)) < r.rev
        BY <2>1 DEF MayFollow
      <4>7. ws'[j] = ws[j] /\ ws'[i] = r
        BY <4>1, <2>3, <2>5
      <4> QED BY <4>2, <4>3, <4>5, <4>6, <4>7
    <3> QED BY <3>2, <3>3
  <2> QED BY <2>3, <2>4, <2>5
<1> QED BY <1>1, <1>2

-----------------------------------------------------------------------------
(* Types *)

(* What TypeOK says of one execution beyond its record. *)
Sound(e) ==
  /\ run[e].pc \notin {"new", "done"} =>
       run[e].req \in Request /\ run[e].home \in Process /\ run[e].gen \in Exec
  /\ run[e].saw <= Len(ws) /\ run[e].prev <= Len(ws)

LEMMA RowsGrow ==
  ASSUME TypeOK, CommandsNameRows, [Next]_vars
  PROVE  /\ ws' \in Seq(WorkspaceRow)
         /\ Len(ws) \in Nat /\ Len(ws') \in Nat /\ Len(ws) <= Len(ws')
         /\ \A i \in 1..Len(ws) : ws'[i] = ws[i]
<1>1. CASE ws' = ws
  BY <1>1, LenProperties DEF TypeOK
<1>2. CASE ws' # ws
  <2>1. PICK r : MayFollow(r) /\ ws' = Append(ws, r)
    BY <1>2, WorkspaceStep
  <2> QED BY <2>1, RowsStay DEF MayFollow
<1> QED BY <1>1, <1>2

LEMMA OtherStaysSound ==
  ASSUME TypeOK, CommandsNameRows, [Next]_vars, NEW d \in Exec,
         run'[d].req = run[d].req, run'[d].home = run[d].home, run'[d].gen = run[d].gen,
         run'[d].saw = run[d].saw, run'[d].prev = run[d].prev,
         run[d].pc \in {"new", "done"} => run'[d].pc \in {"new", "done"}
  PROVE  Sound(d)'
<1>1. Len(ws) \in Nat /\ Len(ws') \in Nat /\ Len(ws) <= Len(ws')
  BY RowsGrow
<1>2. run[d].saw \in Nat /\ run[d].prev \in Nat
  BY DEF TypeOK, Execution
<1> QED BY <1>1, <1>2 DEF TypeOK, Sound

LEMMA NothingLeftIsSound ==
  ASSUME TypeOK, CommandsNameRows, [Next]_vars, NEW e \in Exec,
         run'[e].saw = 0, run'[e].prev = 0,
         \/ run'[e].pc = "done"
         \/ /\ run[e].pc \notin {"new", "done"}
            /\ run'[e].req = run[e].req /\ run'[e].home = run[e].home
            /\ run'[e].gen = run[e].gen
  PROVE  Sound(e)'
<1>1. Len(ws') \in Nat
  BY RowsGrow
<1>2. run'[e].saw <= Len(ws') /\ run'[e].prev <= Len(ws')
  BY <1>1
<1>3. run'[e].pc # "done" =>
        run'[e].req \in Request /\ run'[e].home \in Process /\ run'[e].gen \in Exec
  BY DEF TypeOK
<1> QED BY <1>2, <1>3 DEF Sound

(* What an execution is given when it loads the newest row. *)
LEMMA LoadDoes ==
  ASSUME TypeOK, NEW e \in Exec, NEW q \in Request, NEW p \in Process,
         NEW how \in {"resume", "change", "fresh"}, Load(e, q, p, how)
  PROVE  /\ run' \in [Exec -> Execution]
         /\ \A d \in Exec \ {e} : run'[d] = run[d]
         /\ run'[e].pc = "loaded" /\ run'[e].req = q /\ run'[e].home = p
         /\ run'[e].gen = (IF how = "resume" THEN ws[Len(ws)].gen ELSE e)
         /\ run'[e].gen \in Exec
         /\ run'[e].saw = (IF how = "fresh" THEN 0 ELSE Len(ws))
         /\ run'[e].prev = (IF how = "resume" THEN Len(ws) ELSE 0)
         /\ ~run'[e].late
         /\ how = "resume" => Len(ws) \in DOMAIN ws
<1> DEFINE r == [NoExecution EXCEPT !.pc = "loaded", !.req = q, !.home = p,
                     !.version = Len(journal),
                     !.gen = IF how = "resume" THEN ws[Len(ws)].gen ELSE e,
                     !.saw = IF how = "fresh" THEN 0 ELSE Len(ws),
                     !.prev = IF how = "resume" THEN Len(ws) ELSE 0]
<1>1. /\ Len(ws) \in Nat /\ Len(journal) \in Nat
      /\ DOMAIN ws = 1..Len(ws) /\ ws \in Seq(WorkspaceRow)
  BY LenProperties DEF TypeOK
<1>2. how = "resume" => Len(ws) \in DOMAIN ws
  BY <1>1 DEF Load
<1>3. how = "resume" => ws[Len(ws)] \in WorkspaceRow
  BY <1>1, <1>2, ElementOfSeq
<1>4. (IF how = "resume" THEN ws[Len(ws)].gen ELSE e) \in Exec
  BY <1>3 DEF WorkspaceRow
<1>5. r \in Execution /\ r.gen \in Exec
  BY <1>1, <1>4, BlankIsTyped, Places DEF Execution
<1>6. run' = [run EXCEPT ![e] = r]
  BY DEF Load
<1>7. /\ r.pc = "loaded" /\ r.req = q /\ r.home = p
      /\ r.gen = (IF how = "resume" THEN ws[Len(ws)].gen ELSE e)
      /\ r.saw = (IF how = "fresh" THEN 0 ELSE Len(ws))
      /\ r.prev = (IF how = "resume" THEN Len(ws) ELSE 0)
      /\ ~r.late
  BY DEF NoExecution
<1> HIDE DEF r
<1>8. run' \in [Exec -> Execution] /\ run'[e] = r /\ \A d \in Exec \ {e} : run'[d] = run[d]
  BY <1>5, <1>6, ReplaceDoes
<1> QED BY <1>2, <1>5, <1>7, <1>8

LEMMA LoadTypes ==
  ASSUME TypeOK, NEW e \in Exec, NEW q \in Request, NEW p \in Process,
         NEW how \in {"resume", "change", "fresh"}, Load(e, q, p, how)
  PROVE  /\ run' \in [Exec -> Execution]
         /\ \A d \in Exec \ {e} : run'[d] = run[d]
         /\ Sound(e)'
<1>1. /\ run'[e].req = q /\ run'[e].home = p /\ run'[e].gen \in Exec
      /\ run'[e].saw \in {0, Len(ws)} /\ run'[e].prev \in {0, Len(ws)}
  BY LoadDoes
<1>2. ws' = ws /\ Len(ws) \in Nat
  BY LenProperties DEF Load, TypeOK
<1>3. Sound(e)'
  BY <1>1, <1>2 DEF Sound
<1> QED BY <1>3, LoadDoes

(* An execution's step is its own: it stays well typed, the others stay. *)
LEMMA ExecMoves ==
  ASSUME TypeOK, CommandsNameRows, NEW e \in Exec, ExecNext(e)
  PROVE  /\ run' \in [Exec -> Execution]
         /\ \A d \in Exec \ {e} : run'[d] = run[d]
         /\ Sound(e)'
<1>n. [Next]_vars
  BY DEF Next
<1>t. run[e] \in Execution /\ run[e].goal \in Place /\ run[e].halted \in BOOLEAN
  BY Places DEF TypeOK, Execution
<1>r. /\ ws' \in Seq(WorkspaceRow) /\ Len(ws) \in Nat /\ Len(ws') \in Nat
      /\ Len(ws) <= Len(ws')
  BY <1>n, RowsGrow
<1>g. ASSUME NEW pc \in Place, pc \notin {"new", "done"},
             Goto(e, pc), run[e].pc \notin {"new", "done"}
      PROVE  /\ run' \in [Exec -> Execution]
             /\ \A d \in Exec \ {e} : run'[d] = run[d]
             /\ Sound(e)'
  <2>1. /\ run' \in [Exec -> Execution]
        /\ \A d \in Exec \ {e} : run'[d] = run[d]
        /\ run'[e] = [run[e] EXCEPT !.pc = pc]
    BY <1>g, GotoDoes
  <2>2. /\ run'[e].req = run[e].req /\ run'[e].home = run[e].home /\ run'[e].gen = run[e].gen
        /\ run'[e].saw = run[e].saw /\ run'[e].prev = run[e].prev
    BY <2>1, <1>t DEF Execution
  <2> QED BY <1>n, <1>g, <2>1, <2>2, OtherStaysSound
<1>x. ASSUME NEW halted \in BOOLEAN, Raise(e, halted), run[e].pc \notin {"new", "done"}
      PROVE  /\ run' \in [Exec -> Execution]
             /\ \A d \in Exec \ {e} : run'[d] = run[d]
             /\ Sound(e)'
  <2>1. /\ run' \in [Exec -> Execution]
        /\ \A d \in Exec \ {e} : run'[d] = run[d]
        /\ run'[e] = [run[e] EXCEPT !.pc = "failing", !.halted = halted, !.saw = 0,
                                    !.goal = "saving", !.late = FALSE]
    BY <1>x, RaiseDoes
  <2>2. /\ run'[e].req = run[e].req /\ run'[e].home = run[e].home /\ run'[e].gen = run[e].gen
        /\ run'[e].saw = 0 /\ run'[e].prev = run[e].prev
    BY <2>1, <1>t DEF Execution
  <2>3. /\ run[e].req \in Request /\ run[e].home \in Process /\ run[e].gen \in Exec
        /\ run[e].prev <= Len(ws) /\ run[e].prev \in Nat
    BY <1>x, <1>t DEF TypeOK, Execution
  <2>4. 0 <= Len(ws') /\ run[e].prev <= Len(ws')
    BY <2>3, <1>r
  <2> QED BY <2>1, <2>2, <2>3, <2>4 DEF Sound
<1>d. ASSUME NEW pc \in Place, Reduce(e, pc), run[e].pc \notin {"new", "done"}
      PROVE  /\ run' \in [Exec -> Execution]
             /\ \A d \in Exec \ {e} : run'[d] = run[d]
             /\ Sound(e)'
  BY <1>d, <1>n, ReduceDoes, NothingLeftIsSound
<1>e. ASSUME run' = [run EXCEPT ![e] = Ended]
      PROVE  /\ run' \in [Exec -> Execution]
             /\ \A d \in Exec \ {e} : run'[d] = run[d]
             /\ Sound(e)'
  BY <1>e, <1>n, EndDoes, NothingLeftIsSound
<1>1. ASSUME NEW q \in Request, NEW p \in Process,
             NEW how \in {"resume", "change", "fresh"}, Load(e, q, p, how)
      PROVE  /\ run' \in [Exec -> Execution]
             /\ \A d \in Exec \ {e} : run'[d] = run[d]
             /\ Sound(e)'
  BY <1>1, LoadTypes
<1>2. CASE Acquire(e) \/ CheckTurn(e) \/ TakeOver(e) \/ Admit(e) \/ Repeat(e) \/ Activate(e)
  <2>1. run[e].pc \notin {"new", "done"}
    BY <1>2 DEF Acquire, CheckTurn, TakeOver, Admit, Repeat, Activate, At
  <2>2. \/ \E pc \in {"held", "taking", "admitting", "admitted", "ready"} : Goto(e, pc)
        \/ Reduce(e, "leaving")
        \/ run' = [run EXCEPT ![e] = Ended]
    BY <1>2 DEF Acquire, CheckTurn, TakeOver, Admit, Repeat, Activate, Depart
  <2> QED BY <2>1, <2>2, <1>g, <1>d, <1>e, Places
<1>3. ASSUME NEW goal \in {"saving", "committing"}, Barrier(e, goal)
      PROVE  /\ run' \in [Exec -> Execution]
             /\ \A d \in Exec \ {e} : run'[d] = run[d]
             /\ Sound(e)'
  <2>1. CASE HasLease(e)
    <3> DEFINE r == [run[e] EXCEPT !.pc = "reading", !.goal = goal]
    <3>1. r \in Execution
      BY <1>t, Places DEF Execution
    <3>2. run' = [run EXCEPT ![e] = r]
      BY <1>3, <2>1 DEF Barrier
    <3>3. /\ r.req = run[e].req /\ r.home = run[e].home /\ r.gen = run[e].gen
          /\ r.saw = run[e].saw /\ r.prev = run[e].prev
      BY <1>t DEF Execution
    <3>4. run[e].pc \notin {"new", "done"}
      BY <1>3 DEF Barrier, At
    <3> HIDE DEF r
    <3>5. /\ run' \in [Exec -> Execution] /\ run'[e] = r
          /\ \A d \in Exec \ {e} : run'[d] = run[d]
      BY <3>1, <3>2, ReplaceDoes
    <3> QED BY <1>n, <3>3, <3>4, <3>5, OtherStaysSound
  <2>2. CASE ~HasLease(e)
    BY <1>3, <2>2, <1>x DEF Barrier, At
  <2> QED BY <2>1, <2>2
<1>4. CASE ReadActive(e)
  <2>1. run[e].goal \notin {"new", "done"}
    BY <1>t DEF Execution
  <2> QED BY <1>4, <2>1, <1>t, <1>g, <1>x DEF ReadActive, At
<1>5. CASE Save(e)
  <2>1. PICK rev \in 1..MaxRev :
          IF MaySave(e, rev)
          THEN /\ Append1(e, rev)
               /\ run' = [run EXCEPT ![e].pc = "planning", ![e].prev = Len(ws) + 1]
          ELSE UNCHANGED ws /\ Raise(e, run[e].halted)
    BY <1>5 DEF Save
  <2>2. CASE MaySave(e, rev)
    <3> DEFINE r == [run[e] EXCEPT !.pc = "planning", !.prev = Len(ws) + 1]
    <3>1. r \in Execution
      <4>1. Len(ws) + 1 \in Nat /\ "planning" \in Place
        BY <1>r, Places
      <4> QED BY <4>1, <1>t DEF Execution
    <3>2. run' = [run EXCEPT ![e] = r]
      BY <2>1, <2>2
    <3>3. /\ r.req = run[e].req /\ r.home = run[e].home /\ r.gen = run[e].gen
          /\ r.saw = run[e].saw /\ r.prev = Len(ws) + 1
      BY <1>t DEF Execution
    <3>4. Len(ws') = Len(ws) + 1
      <4>1. run[e].pc \in {"saving", "failing"} /\ rev \in Nat
        BY <1>5 DEF Save, At
      <4>2. \E row : MayFollow(row) /\ ws' = Append(ws, row)
        BY <4>1, <2>1, <2>2, SavedMayFollow
      <4> QED BY <4>2, RowsStay DEF MayFollow
    <3>5. /\ run[e].req \in Request /\ run[e].home \in Process /\ run[e].gen \in Exec
          /\ run[e].saw <= Len(ws) /\ run[e].saw \in Nat
      BY <1>5, <1>t DEF Save, At, TypeOK, Execution
    <3> HIDE DEF r
    <3>6. /\ run' \in [Exec -> Execution] /\ run'[e] = r
          /\ \A d \in Exec \ {e} : run'[d] = run[d]
      BY <3>1, <3>2, ReplaceDoes
    <3>7. run'[e].saw <= Len(ws') /\ run'[e].prev <= Len(ws')
      BY <1>r, <3>3, <3>4, <3>5, <3>6
    <3> QED BY <3>3, <3>5, <3>6, <3>7 DEF Sound
  <2>3. CASE ~MaySave(e, rev)
    BY <1>5, <2>1, <2>3, <1>t, <1>x DEF Save, At
  <2> QED BY <2>2, <2>3
<1>6. CASE SaveAgain(e)
  BY <1>6, <1>t, <1>g, <1>x, Places DEF SaveAgain, At
<1>7. CASE Beat(e)
  <2> DEFINE r == [run[e] EXCEPT !.halted = TRUE]
  <2>1. r \in Execution
    BY <1>t DEF Execution
  <2>2. run' = [run EXCEPT ![e] = r]
    BY <1>7 DEF Beat
  <2>3. /\ r.req = run[e].req /\ r.home = run[e].home /\ r.gen = run[e].gen
        /\ r.saw = run[e].saw /\ r.prev = run[e].prev /\ r.pc = run[e].pc
    BY <1>t DEF Execution
  <2> HIDE DEF r
  <2>4. /\ run' \in [Exec -> Execution] /\ run'[e] = r
        /\ \A d \in Exec \ {e} : run'[d] = run[d]
    BY <2>1, <2>2, ReplaceDoes
  <2> QED BY <1>n, <2>3, <2>4, OtherStaysSound
<1>8. CASE Commit(e) \/ Fail(e)
  <2>1. run[e].pc \notin {"new", "done"}
    BY <1>8 DEF Commit, Fail, At, Working
  <2>2. Goto(e, "committed") \/ Raise(e, run[e].halted)
    BY <1>8 DEF Commit, Fail
  <2> QED BY <2>1, <2>2, <1>t, <1>g, <1>x, Places
<1>9. CASE Deliver(e) \/ Escape(e) \/ Interrupt(e) \/ SaveFailed(e) \/ MarkFailed(e)
  <2>1. run[e].pc \notin {"new", "done"}
    BY <1>9 DEF Deliver, Escape, Interrupt, SaveFailed, MarkFailed, At,
                Body, Admission, Working, Handlers
  <2>2. Reduce(e, "leaving") \/ Reduce(e, "marking")
    BY <1>9 DEF Deliver, Escape, Interrupt, SaveFailed, MarkFailed, Depart
  <2> QED BY <2>1, <2>2, <1>d, Places
<1>10. CASE Release(e) \/ ReleaseFails(e)
  BY <1>10, <1>e DEF Release, ReleaseFails
<1> QED BY <1>1, <1>2, <1>3, <1>4, <1>5, <1>6, <1>7, <1>8, <1>9, <1>10 DEF ExecNext

(* The other steps change executions only in what makes no difference here. *)
LEMMA OtherMoves ==
  ASSUME TypeOK, CommandsNameRows, [Next]_vars,
         ~ \E e \in Exec : ExecNext(e)
  PROVE  /\ run' \in [Exec -> Execution]
         /\ \A d \in Exec :
              \/ run'[d] = run[d]
              \/ run'[d] = [run[d] EXCEPT !.halted = TRUE]
              \/ lock = d /\ lock' = Nobody
                 /\ run'[d] = [run[d] EXCEPT !.late = @ \/ BeforeLastBarrier(d)]
              \/ run'[d] = Ended /\ run[d].home \in Process
<1>t. run \in [Exec -> Execution] /\ \A e \in Exec : run[e] \in Execution
  BY DEF TypeOK
<1>1. ASSUME NEW c \in Cancel, HaltAndClear(c)
      PROVE  /\ run' \in [Exec -> Execution]
             /\ \A d \in Exec : run'[d] = run[d] \/ run'[d] = [run[d] EXCEPT !.halted = TRUE]
  <2>1. \A e \in Exec : [run[e] EXCEPT !.halted = TRUE] \in Execution
    BY <1>t DEF Execution
  <2> DEFINE stopped(e) == e \in listed /\ run[e].home = cancel[c].at /\ run[e].gen = cancel[c].gen
             r(e) == IF stopped(e) THEN [run[e] EXCEPT !.halted = TRUE] ELSE run[e]
  <2>2. run' = [e \in Exec |-> r(e)]
    BY <1>1 DEF HaltAndClear
  <2>3. \A e \in Exec : r(e) \in Execution
    BY <1>t, <2>1
  <2>4. \A d \in Exec : r(d) = run[d] \/ r(d) = [run[d] EXCEPT !.halted = TRUE]
    OBVIOUS
  <2> HIDE DEF r
  <2>5. run' \in [Exec -> Execution]
    BY <2>2, <2>3
  <2>6. \A d \in Exec : run'[d] = r(d)
    BY <2>2
  <2> QED BY <2>4, <2>5, <2>6
<1>2. ASSUME NEW p \in Process, Crash(p)
      PROVE  /\ run' \in [Exec -> Execution]
             /\ \A d \in Exec : run'[d] = run[d] \/ (run'[d] = Ended /\ run[d].home \in Process)
  BY <1>2, <1>t, BlankIsTyped DEF Crash
<1>3. CASE LeaseLapses
  <2> DEFINE r == [run[lock] EXCEPT !.late = @ \/ BeforeLastBarrier(lock)]
  <2>1. lock \in Exec
    BY <1>3 DEF LeaseLapses, TypeOK
  <2>2. BeforeLastBarrier(lock) \in BOOLEAN
    BY DEF BeforeLastBarrier, At
  <2>3. r \in Execution
    BY <1>t, <2>1, <2>2 DEF Execution
  <2>4. run' = [run EXCEPT ![lock] = r] /\ lock' = Nobody
    BY <1>3 DEF LeaseLapses
  <2>5. run' \in [Exec -> Execution] /\ run'[lock] = r /\ \A e \in Exec \ {lock} : run'[e] = run[e]
    <3> HIDE DEF r
    <3> QED BY <2>1, <2>3, <2>4, ReplaceDoes
  <2> QED BY <2>1, <2>4, <2>5
<1>4. CASE UNCHANGED run
  BY <1>4, <1>t
<1> QED
  BY <1>1, <1>2, <1>3, <1>4
     DEF Next, CancelNext, Find, Stop, CancelFails, TalkStarts, TalkCommits, vars

LEMMA RunTypes ==
  ASSUME TypeOK, CommandsNameRows, [Next]_vars
  PROVE  run' \in [Exec -> Execution] /\ \A d \in Exec : Sound(d)'
<1>1. ASSUME NEW e \in Exec, ExecNext(e)
      PROVE  run' \in [Exec -> Execution] /\ \A d \in Exec : Sound(d)'
  <2>1. /\ run' \in [Exec -> Execution] /\ Sound(e)'
        /\ \A d \in Exec \ {e} : run'[d] = run[d]
    BY <1>1, ExecMoves
  <2>2. \A d \in Exec \ {e} : Sound(d)'
    BY <2>1, OtherStaysSound
  <2> QED BY <2>1, <2>2
<1>2. CASE ~ \E e \in Exec : ExecNext(e)
  <2>1. ASSUME NEW d \in Exec PROVE Sound(d)'
    <3>1. run[d] \in Execution
      BY DEF TypeOK
    <3>2. CASE run'[d] = Ended
      <4>1. run'[d].pc = "done" /\ run'[d].saw = 0 /\ run'[d].prev = 0
        BY <3>2 DEF Ended, NoExecution
      <4> QED BY <1>2, <4>1, NothingLeftIsSound, OtherMoves
    <3>3. CASE run'[d] # Ended
      <4>1. /\ run'[d].req = run[d].req /\ run'[d].home = run[d].home
            /\ run'[d].gen = run[d].gen /\ run'[d].saw = run[d].saw
            /\ run'[d].prev = run[d].prev /\ run'[d].pc = run[d].pc
        BY <1>2, <3>1, <3>3, OtherMoves DEF Execution
      <4> QED BY <1>2, <4>1, OtherStaysSound, OtherMoves
    <3> QED BY <3>2, <3>3
  <2> QED BY <1>2, <2>1, OtherMoves
<1> QED BY <1>1, <1>2

LEMMA CancelTypes ==
  ASSUME TypeOK, NEW c \in Cancel, CancelNext(c)
  PROVE  cancel' \in [Cancel -> Command]
<1>1. cancel \in [Cancel -> Command] /\ cancel[c] \in Command
  BY DEF TypeOK
<1>2. ASSUME NEW r \in Command, cancel' = [cancel EXCEPT ![c] = r]
      PROVE  cancel' \in [Cancel -> Command]
  BY <1>1, <1>2
<1>3. [cancel[c] EXCEPT !.pc = "halting"] \in Command /\ [NoCommand EXCEPT !.pc = "done"] \in Command
  BY <1>1 DEF Command, NoCommand
<1>4. ASSUME NEW g \in Exec, NEW p \in Process, Find(c, g, p)
      PROVE  cancel' \in [Cancel -> Command]
  <2>1. ws[Newest(g)] \in WorkspaceRow
    <3>1. ws \in Seq(WorkspaceRow) /\ Newest(g) \in 0..Len(ws) /\ Len(ws) \in Nat
      BY NewestIsLast, LenProperties DEF TypeOK
    <3> QED BY <3>1, <1>4, ElementOfSeq DEF Find
  <2>2. [pc |-> "stopping", at |-> p, gen |-> g, target |-> ws[Newest(g)].turn] \in Command
    BY <2>1 DEF Command, WorkspaceRow
  <2> QED BY <1>2, <1>4, <2>2 DEF Find
<1>5. CASE Stop(c) \/ HaltAndClear(c) \/ CancelFails(c)
  BY <1>2, <1>3, <1>5 DEF Stop, HaltAndClear, CancelFails, CancelGoto, CancelDone
<1> QED BY <1>4, <1>5 DEF CancelNext

LEMMA RedisTypes ==
  ASSUME TypeOK, [Next]_vars
  PROVE  /\ lock' \in Exec \cup {Nobody} /\ active' \in Exec \cup {Nobody}
         /\ listed' \subseteq Exec /\ cancel' \in [Cancel -> Command]
<1>0. /\ lock \in Exec \cup {Nobody} /\ active \in Exec \cup {Nobody}
      /\ listed \subseteq Exec /\ cancel \in [Cancel -> Command]
  BY DEF TypeOK
<1>1. ASSUME NEW e \in Exec, ExecNext(e)
      PROVE  /\ lock' \in Exec \cup {Nobody} /\ active' \in Exec \cup {Nobody}
             /\ listed' \subseteq Exec /\ cancel' = cancel
  <2>1. CASE Activate(e)
    <3>1. run[e].gen \in Exec
      BY <2>1 DEF Activate, At, TypeOK
    <3> QED BY <1>0, <2>1, <3>1 DEF Activate
  <2>2. CASE Acquire(e)
    BY <1>0, <2>2 DEF Acquire
  <2>3. CASE Deliver(e)
    BY <1>0, <2>3 DEF Deliver, KeyAfterFinish
  <2>4. CASE Release(e) \/ ReleaseFails(e)
    BY <1>0, <2>4 DEF Release, ReleaseFails, KeyAfterFinish, redis
  <2>5. CASE UNCHANGED <<redis, listed, cancel>>
    BY <1>0, <2>5 DEF redis
  <2> QED
    BY <1>1, <2>1, <2>2, <2>3, <2>4, <2>5
       DEF ExecNext, Load, CheckTurn, TakeOver, Admit, Repeat, Barrier, ReadActive, Save,
           SaveAgain, Beat, Commit, Fail, Escape, Interrupt, SaveFailed, MarkFailed
<1>2. ASSUME NEW c \in Cancel, CancelNext(c)
      PROVE  lock' = lock /\ active' \in Exec \cup {Nobody} /\ listed' = listed
  BY <1>0, <1>2 DEF CancelNext, Find, Stop, HaltAndClear, CancelFails, redis
<1>3. ASSUME NEW t \in Talk, TalkStarts(t) \/ TalkCommits(t)
      PROVE  lock' = lock /\ active' \in Exec \cup {Nobody} /\ UNCHANGED <<listed, cancel>>
  BY <1>0, <1>3 DEF TalkStarts, TalkCommits, redis
<1>4. CASE LeaseLapses \/ UNCHANGED vars
  BY <1>0, <1>4 DEF LeaseLapses, vars, redis
<1>5. ASSUME NEW p \in Process, Crash(p)
      PROVE  UNCHANGED redis /\ listed' \subseteq Exec /\ cancel' \in [Cancel -> Command]
  <2>1. [NoCommand EXCEPT !.pc = "done"] \in Command
    BY DEF NoCommand, Command
  <2>2. cancel' \in [Cancel -> Command]
    BY <1>0, <1>5, <2>1 DEF Crash
  <2> QED BY <1>0, <1>5, <2>2 DEF Crash
<1> QED BY <1>0, <1>1, <1>2, <1>3, <1>4, <1>5, CancelTypes DEF Next, redis

LEMMA TypeStep ==
  ASSUME TypeOK, CommandsNameRows, [Next]_vars
  PROVE  TypeOK'
<1>1. RowsGoOn
  BY RowsStep
<1>2. ws' \in Seq(WorkspaceRow)
  BY RowsGrow
<1> QED BY <1>1, <1>2, RunTypes, RedisTypes DEF TypeOK, RowsGoOn, Sound

LEMMA CommandsStep ==
  ASSUME TypeOK, CommandsNameRows, [Next]_vars
  PROVE  CommandsNameRows'
<1>r. /\ Len(ws) \in Nat /\ Len(ws') \in Nat /\ Len(ws) <= Len(ws')
      /\ DOMAIN ws = 1..Len(ws) /\ DOMAIN ws' = 1..Len(ws')
      /\ \A i \in 1..Len(ws) : ws'[i] = ws[i]
  BY RowsGrow, LenProperties DEF TypeOK
<1>k. ASSUME NEW g, NEW t, \E k \in DOMAIN ws : ws[k].gen = g /\ ws[k].turn = t
      PROVE  \E k \in DOMAIN ws' : ws'[k].gen = g /\ ws'[k].turn = t
  <2>1. PICK k \in DOMAIN ws : ws[k].gen = g /\ ws[k].turn = t
    BY <1>k
  <2>2. k \in DOMAIN ws' /\ ws'[k] = ws[k]
    BY <1>r
  <2> QED BY <2>1, <2>2
<1>s. ASSUME NEW c \in Cancel, cancel'[c] = cancel[c] \/ cancel'[c].pc # "stopping"
      PROVE  cancel'[c].pc = "stopping" =>
               \E k \in DOMAIN ws' : ws'[k].gen = cancel'[c].gen /\ ws'[k].turn = cancel'[c].target
  BY <1>s, <1>k DEF CommandsNameRows
<1>t. cancel \in [Cancel -> Command]
  BY DEF TypeOK
<1>1. ASSUME NEW c \in Cancel, CancelNext(c) PROVE CommandsNameRows'
  <2>1. \A b \in Cancel \ {c} : cancel'[b] = cancel[b]
    BY <1>1, <1>t DEF CancelNext, Find, Stop, HaltAndClear, CancelFails, CancelGoto, CancelDone
  <2>2. ASSUME NEW g \in Exec, NEW p \in Process, Find(c, g, p) PROVE CommandsNameRows'
    <3>1. cancel'[c].gen = g /\ cancel'[c].target = ws[Newest(g)].turn
      BY <2>2, <1>t DEF Find
    <3>2. Newest(g) \in DOMAIN ws /\ ws[Newest(g)].gen = g
      BY <2>2, <1>r, NewestIsLast DEF Find, TypeOK
    <3>3. \E k \in DOMAIN ws' : ws'[k].gen = cancel'[c].gen /\ ws'[k].turn = cancel'[c].target
      BY <1>k, <3>1, <3>2
    <3> QED BY <2>1, <3>3, <1>s DEF CommandsNameRows
  <2>3. CASE Stop(c) \/ HaltAndClear(c) \/ CancelFails(c)
    <3>1. cancel'[c].pc # "stopping"
      BY <2>3, <1>t DEF Stop, HaltAndClear, CancelFails, CancelGoto, CancelDone, Command, NoCommand
    <3> QED BY <2>1, <3>1, <1>s DEF CommandsNameRows
  <2> QED BY <1>1, <2>2, <2>3 DEF CancelNext
<1>2. ASSUME NEW p \in Process, Crash(p) PROVE CommandsNameRows'
  <2>1. \A c \in Cancel : cancel'[c] = cancel[c] \/ cancel'[c].pc = "done"
    BY <1>2 DEF Crash, NoCommand
  <2> QED BY <2>1, <1>s DEF CommandsNameRows
<1>3. CASE UNCHANGED cancel
  BY <1>3, <1>s DEF CommandsNameRows
<1> QED
  BY <1>1, <1>2, <1>3
     DEF Next, ExecNext, Load, Acquire, CheckTurn, TakeOver, Admit, Repeat, Activate, Barrier,
         ReadActive, Save, SaveAgain, Beat, Commit, Deliver, Fail, Escape, Interrupt, SaveFailed,
         MarkFailed, Release, ReleaseFails, TalkStarts, TalkCommits, LeaseLapses, vars

-----------------------------------------------------------------------------
(* The lease *)

(* An execution that lost its lease early is not the holder again and stays  *)
(* before its last barrier.                                                  *)
LateLost == \A e \in Exec : run[e].late => lock # e /\ BeforeLastBarrier(e)

(* Only Acquire gives the lock to an execution. *)
LEMMA LockMoves ==
  ASSUME TypeOK, [Next]_vars, NEW e \in Exec, lock' = e, lock # e
  PROVE  Acquire(e)
<1>0. e # Nobody
  BY ConstantsAreApart
<1> QED
  BY <1>0
     DEF Next, ExecNext, CancelNext, Load, Acquire, CheckTurn, TakeOver, Admit, Repeat, Activate,
         Barrier, ReadActive, Save, SaveAgain, Beat, Commit, Deliver, Fail, Escape, Interrupt,
         SaveFailed, MarkFailed, Release, ReleaseFails, Find, Stop, HaltAndClear, CancelFails,
         TalkStarts, TalkCommits, LeaseLapses, Crash, vars, redis

(* Where an execution that goes on is, with the lease it had. *)
LEMMA LateExecStep ==
  ASSUME TypeOK, CommandsNameRows, LateLost, NEW e \in Exec, ExecNext(e), run'[e].late
  PROVE  run[e].late /\ BeforeLastBarrier(e)'
<1> DEFINE Early == Admission \cup {"admitted", "ready", "saving", "planning"}
<1>t. /\ run \in [Exec -> Execution] /\ run[e] \in Execution
      /\ run[e].goal \in {"saving", "committing"} /\ run[e].halted \in BOOLEAN
  BY DEF TypeOK, Execution
<1>n. ASSUME ~run'[e].late PROVE FALSE
  BY <1>n
<1>x. ASSUME NEW halted \in BOOLEAN, Raise(e, halted) PROVE FALSE
  <2>1. run'[e] = [run[e] EXCEPT !.pc = "failing", !.halted = halted, !.saw = 0,
                                 !.goal = "saving", !.late = FALSE]
    BY <1>x, RaiseDoes
  <2>2. ~run'[e].late
    BY <2>1, <1>t DEF Execution
  <2> QED BY <2>2, <1>n
<1>d. ASSUME NEW pc \in Place, Reduce(e, pc) PROVE FALSE
  BY <1>d, <1>n, ReduceDoes
<1>e. ASSUME run' = [run EXCEPT ![e] = Ended] PROVE FALSE
  BY <1>e, <1>n, EndDoes
<1>g. ASSUME NEW pc \in Place, Goto(e, pc)
      PROVE  run'[e].late = run[e].late /\ run'[e].pc = pc
  <2>1. run'[e] = [run[e] EXCEPT !.pc = pc]
    BY <1>g, GotoDoes
  <2> QED BY <2>1, <1>t DEF Execution
<1>i. run[e].late => lock # e /\ BeforeLastBarrier(e)
  BY DEF LateLost
<1>b. ASSUME run[e].late, run'[e].pc \in Early
      PROVE  run[e].late /\ BeforeLastBarrier(e)'
  BY <1>b DEF BeforeLastBarrier
<1>1. ASSUME NEW q \in Request, NEW p \in Process,
             NEW how \in {"resume", "change", "fresh"}, Load(e, q, p, how)
      PROVE  FALSE
  BY <1>1, <1>n, LoadDoes
<1>2. CASE Acquire(e)
  <2>1. Goto(e, "held") \/ run' = [run EXCEPT ![e] = Ended]
    BY <1>2 DEF Acquire
  <2>2. ~run[e].late
    BY <1>2, <1>i DEF Acquire, At, BeforeLastBarrier, Admission
  <2> QED BY <2>1, <2>2, <1>e, <1>g, <1>n, Places
<1>3. CASE CheckTurn(e) \/ TakeOver(e) \/ Admit(e) \/ Repeat(e) \/ Activate(e)
  <2>1. \/ \E pc \in {"taking", "admitting", "admitted", "ready"} : Goto(e, pc)
        \/ Reduce(e, "leaving")
    BY <1>3 DEF CheckTurn, TakeOver, Admit, Repeat, Activate, Depart
  <2>2. PICK pc \in {"taking", "admitting", "admitted", "ready"} : Goto(e, pc)
    BY <2>1, <1>d, Places
  <2>3. run'[e].late = run[e].late /\ run'[e].pc = pc
    BY <2>2, <1>g, Places
  <2>4. run'[e].pc \in Early
    BY <2>3 DEF Admission
  <2> QED BY <2>3, <2>4, <1>b
<1>4. ASSUME NEW goal \in {"saving", "committing"}, Barrier(e, goal) PROVE FALSE
  <2>1. CASE HasLease(e)
    <3>1. ~run[e].late
      BY <2>1, <1>i DEF HasLease
    <3>2. run' = [run EXCEPT ![e] = [run[e] EXCEPT !.pc = "reading", !.goal = goal]]
      BY <1>4, <2>1 DEF Barrier
    <3>3. run'[e] = [run[e] EXCEPT !.pc = "reading", !.goal = goal]
      BY <3>2, <1>t
    <3>4. ~run'[e].late
      BY <3>1, <3>3, <1>t DEF Execution
    <3> QED BY <3>4, <1>n
  <2> QED BY <1>4, <2>1, <1>x DEF Barrier
<1>5. CASE ReadActive(e)
  <2>1. Goto(e, run[e].goal) /\ At(e, "reading")
    BY <1>5, <1>x DEF ReadActive
  <2>2. run'[e].late = run[e].late /\ run'[e].pc = run[e].goal
    BY <2>1, <1>g, <1>t, Places
  <2>3. run[e].goal = "saving"
    BY <2>1, <2>2, <1>i DEF BeforeLastBarrier, At, Admission
  <2> QED BY <2>2, <2>3, <1>b
<1>6. CASE Save(e)
  <2>1. run' = [run EXCEPT ![e] = [run[e] EXCEPT !.pc = "planning", !.prev = Len(ws) + 1]]
    BY <1>6, <1>x, <1>t DEF Save
  <2>2. run'[e] = [run[e] EXCEPT !.pc = "planning", !.prev = Len(ws) + 1]
    BY <2>1, <1>t
  <2>3. run'[e].late = run[e].late /\ run'[e].pc = "planning"
    BY <2>2, <1>t DEF Execution
  <2> QED BY <2>3, <1>b
<1>7. CASE SaveAgain(e)
  <2>1. Goto(e, "planning")
    BY <1>7, <1>x, <1>t DEF SaveAgain
  <2> QED BY <2>1, <1>g, <1>b, Places
<1>8. CASE Beat(e)
  <2>1. run' = [run EXCEPT ![e] = [run[e] EXCEPT !.halted = TRUE]]
    BY <1>8 DEF Beat
  <2>2. run'[e] = [run[e] EXCEPT !.halted = TRUE]
    BY <2>1, <1>t
  <2>3. run'[e].late = run[e].late /\ run'[e].pc = run[e].pc /\ run'[e].goal = run[e].goal
    BY <2>2, <1>t DEF Execution
  <2> QED BY <2>3, <1>i DEF BeforeLastBarrier, At
<1>9. CASE Commit(e)
  <2>1. Goto(e, "committed") /\ At(e, "committing")
    BY <1>9, <1>x, <1>t DEF Commit
  <2>2. ~run[e].late
    BY <2>1, <1>i DEF BeforeLastBarrier, At, Admission
  <2> QED BY <2>1, <2>2, <1>g, <1>n, Places
<1>10. CASE Fail(e)
  BY <1>10, <1>x, <1>t DEF Fail
<1>11. CASE Deliver(e) \/ Escape(e) \/ Interrupt(e) \/ SaveFailed(e) \/ MarkFailed(e)
  <2>1. Reduce(e, "leaving") \/ Reduce(e, "marking")
    BY <1>11 DEF Deliver, Escape, Interrupt, SaveFailed, MarkFailed, Depart
  <2> QED BY <2>1, <1>d, Places
<1>12. CASE Release(e) \/ ReleaseFails(e)
  BY <1>12, <1>e DEF Release, ReleaseFails
<1> QED
  BY <1>1, <1>2, <1>3, <1>4, <1>5, <1>6, <1>7, <1>8, <1>9, <1>10, <1>11, <1>12 DEF ExecNext

LEMMA LateStep ==
  ASSUME TypeOK, CommandsNameRows, LateLost, [Next]_vars
  PROVE  LateLost'
<1> SUFFICES ASSUME NEW e \in Exec, run'[e].late
             PROVE  lock' # e /\ BeforeLastBarrier(e)'
  BY DEF LateLost
<1>t. run[e] \in Execution
  BY DEF TypeOK
<1>i. run[e].late => lock # e /\ BeforeLastBarrier(e)
  BY DEF LateLost
<1>1. CASE run[e].late /\ BeforeLastBarrier(e)'
  <2>1. lock' # e
    BY <1>1, <1>i, LockMoves DEF Acquire, BeforeLastBarrier, At, Admission
  <2> QED BY <1>1, <2>1
<1>2. CASE ExecNext(e)
  BY <1>1, <1>2, LateExecStep
<1>3. ASSUME NEW d \in Exec \ {e}, ExecNext(d) PROVE lock' # e /\ BeforeLastBarrier(e)'
  <2>1. run'[e] = run[e]
    BY <1>3, ExecMoves
  <2> QED BY <2>1, <1>1, <1>i DEF BeforeLastBarrier, At
<1>4. CASE ~ \E d \in Exec : ExecNext(d)
  <2>1. CASE run'[e] = run[e]
    BY <2>1, <1>1, <1>i DEF BeforeLastBarrier, At
  <2>2. CASE run'[e] = [run[e] EXCEPT !.halted = TRUE]
    <3>1. run'[e].late = run[e].late /\ run'[e].pc = run[e].pc /\ run'[e].goal = run[e].goal
      BY <2>2, <1>t DEF Execution
    <3> QED BY <3>1, <1>1, <1>i DEF BeforeLastBarrier, At
  <2>3. CASE /\ lock = e /\ lock' = Nobody
             /\ run'[e] = [run[e] EXCEPT !.late = @ \/ BeforeLastBarrier(e)]
    <3>1. /\ run'[e].late = (run[e].late \/ BeforeLastBarrier(e))
          /\ run'[e].pc = run[e].pc /\ run'[e].goal = run[e].goal
      BY <2>3, <1>t DEF Execution
    <3>2. BeforeLastBarrier(e)
      BY <3>1, <2>3, <1>i
    <3> QED BY <3>1, <3>2, <2>3, ConstantsAreApart DEF BeforeLastBarrier, At
  <2>4. CASE run'[e] = Ended
    BY <2>4 DEF Ended, NoExecution
  <2> QED BY <1>4, <2>1, <2>2, <2>3, <2>4, OtherMoves
<1> QED BY <1>2, <1>3, <1>4

-----------------------------------------------------------------------------
(* What an execution knows of the rows before it *)

Admitted == {"admitted"} \cup Working

(* What a step of e that is not its load does to its place and its rows. *)
Advances(e) ==
  /\ run'[e].gen = run[e].gen /\ run'[e].req = run[e].req
  /\ run'[e].saw = run[e].saw /\ run'[e].prev = run[e].prev
  /\ \/ Acquire(e) /\ run'[e].pc = "held" /\ run[e].pc = "loaded"
     \/ CheckTurn(e) /\ run'[e].pc \in {"taking", "admitting"} /\ run[e].pc = "held"
     \/ TakeOver(e) /\ run'[e].pc = "admitting" /\ run[e].pc = "taking"
     \/ run'[e].pc = "admitted" /\ run[e].pc = "admitting"
     \/ run'[e].pc \in Admitted \cup {"committed"} /\ run[e].pc \in Admitted

Saves(e) ==
  /\ run[e].pc = "saving" /\ run'[e].pc = "planning"
  /\ run'[e].gen = run[e].gen /\ run'[e].req = run[e].req
  /\ run'[e].saw = run[e].saw /\ run'[e].prev = Len(ws) + 1
  /\ \E r : MayFollow(r) /\ SavedBy(e, r) /\ ws' = Append(ws, r)

Fails(e) ==
  /\ run[e].pc \in Admitted \cup {"committed"} /\ run'[e].pc = "failing"
  /\ run'[e].gen = run[e].gen /\ run'[e].req = run[e].req
  /\ run'[e].saw = 0 /\ run'[e].prev = run[e].prev

Retires(e) ==
  /\ run'[e].pc \in {"leaving", "marking", "done"}
  /\ run'[e].gen \in {run[e].gen, Nobody}

LEMMA ExecSummary ==
  ASSUME TypeOK, CommandsNameRows, NEW e \in Exec, ExecNext(e)
  PROVE  \/ \E q \in Request, p \in Process, how \in {"resume", "change", "fresh"} :
              Load(e, q, p, how)
         \/ Advances(e) \/ Saves(e) \/ Fails(e) \/ Retires(e)
<1>t. /\ run \in [Exec -> Execution] /\ run[e] \in Execution
      /\ run[e].goal \in {"saving", "committing"} /\ run[e].halted \in BOOLEAN
  BY DEF TypeOK, Execution
<1>x. ASSUME NEW halted \in BOOLEAN, Raise(e, halted), run[e].pc \in Admitted \cup {"committed"}
      PROVE  Fails(e)
  <2>1. run'[e] = [run[e] EXCEPT !.pc = "failing", !.halted = halted, !.saw = 0,
                                 !.goal = "saving", !.late = FALSE]
    BY <1>x, RaiseDoes
  <2>2. /\ run'[e].req = run[e].req /\ run'[e].gen = run[e].gen
        /\ run'[e].saw = 0 /\ run'[e].prev = run[e].prev /\ run'[e].pc = "failing"
    BY <2>1, <1>t DEF Execution
  <2> QED BY <1>x, <2>2 DEF Fails
<1>d. ASSUME Reduce(e, "leaving") \/ Reduce(e, "marking") \/ run' = [run EXCEPT ![e] = Ended]
      PROVE  Retires(e)
  BY <1>d, ReduceDoes, EndDoes, Places DEF Retires
<1>g. ASSUME NEW pc \in Place, Goto(e, pc)
      PROVE  /\ run'[e].pc = pc
             /\ run'[e].gen = run[e].gen /\ run'[e].req = run[e].req
             /\ run'[e].saw = run[e].saw /\ run'[e].prev = run[e].prev
  <2>1. run'[e] = [run[e] EXCEPT !.pc = pc]
    BY <1>g, GotoDoes
  <2> QED BY <2>1, <1>t DEF Execution
<1>1. CASE Acquire(e)
  <2>1. Goto(e, "held") \/ run' = [run EXCEPT ![e] = Ended]
    BY <1>1 DEF Acquire
  <2>2. CASE Goto(e, "held")
    BY <1>1, <2>2, <1>g, Places DEF Acquire, At, Advances
  <2> QED BY <2>1, <2>2, <1>d
<1>2. CASE CheckTurn(e)
  <2>1. \E pc \in {"taking", "admitting"} : Goto(e, pc)
    BY <1>2 DEF CheckTurn
  <2> QED BY <1>2, <2>1, <1>g, Places DEF CheckTurn, At, Advances
<1>3. CASE TakeOver(e)
  <2>1. Goto(e, "admitting") \/ Reduce(e, "leaving")
    BY <1>3 DEF TakeOver, Depart
  <2>2. CASE Goto(e, "admitting")
    BY <1>3, <2>2, <1>g, Places DEF TakeOver, At, Advances
  <2> QED BY <2>1, <2>2, <1>d
<1>4. CASE Admit(e)
  <2>1. Goto(e, "admitted") \/ Reduce(e, "leaving")
    BY <1>4 DEF Admit, Depart
  <2>2. CASE Goto(e, "admitted")
    BY <1>4, <2>2, <1>g, Places DEF Admit, At, Advances
  <2> QED BY <2>1, <2>2, <1>d
<1>5. CASE Repeat(e) \/ Deliver(e) \/ Escape(e) \/ Interrupt(e) \/ SaveFailed(e) \/ MarkFailed(e)
           \/ Release(e) \/ ReleaseFails(e)
  BY <1>5, <1>d DEF Repeat, Deliver, Escape, Interrupt, SaveFailed, MarkFailed, Release,
                    ReleaseFails, Depart
<1>6. CASE Activate(e)
  BY <1>6, <1>g, Places DEF Activate, At, Advances, Admitted, Working
<1>7. ASSUME NEW goal \in {"saving", "committing"}, Barrier(e, goal)
      PROVE  Advances(e) \/ Fails(e)
  <2>1. run[e].pc \in Admitted
    BY <1>7 DEF Barrier, At, Admitted, Working
  <2>2. CASE HasLease(e)
    <3>1. run' = [run EXCEPT ![e] = [run[e] EXCEPT !.pc = "reading", !.goal = goal]]
      BY <1>7, <2>2 DEF Barrier
    <3>2. run'[e] = [run[e] EXCEPT !.pc = "reading", !.goal = goal]
      BY <3>1, <1>t
    <3>3. /\ run'[e].req = run[e].req /\ run'[e].gen = run[e].gen
          /\ run'[e].saw = run[e].saw /\ run'[e].prev = run[e].prev /\ run'[e].pc = "reading"
      BY <3>2, <1>t DEF Execution
    <3> QED BY <2>1, <3>3 DEF Advances, Admitted, Working
  <2>3. CASE ~HasLease(e)
    BY <1>7, <2>1, <2>3, <1>x DEF Barrier
  <2> QED BY <2>2, <2>3
<1>8. CASE ReadActive(e)
  <2>1. run[e].pc \in Admitted /\ run[e].goal \in Admitted
    BY <1>8, <1>t DEF ReadActive, At, Admitted, Working
  <2>2. Goto(e, run[e].goal) \/ Raise(e, TRUE)
    BY <1>8 DEF ReadActive
  <2>3. CASE Goto(e, run[e].goal)
    BY <2>1, <2>3, <1>g, <1>t, Places DEF Advances
  <2> QED BY <2>1, <2>2, <2>3, <1>x
<1>9. CASE Save(e)
  <2>0. run[e].pc = "saving" /\ run[e].pc \in Admitted
    BY <1>9 DEF Save, At, Admitted, Working
  <2>1. PICK rev \in 1..MaxRev :
          IF MaySave(e, rev)
          THEN /\ Append1(e, rev)
               /\ run' = [run EXCEPT ![e].pc = "planning", ![e].prev = Len(ws) + 1]
          ELSE UNCHANGED ws /\ Raise(e, run[e].halted)
    BY <1>9 DEF Save
  <2>2. CASE MaySave(e, rev)
    <3>1. \E r : MayFollow(r) /\ SavedBy(e, r) /\ ws' = Append(ws, r)
      BY <2>0, <2>1, <2>2, SavedMayFollow
    <3>2. run' = [run EXCEPT ![e] = [run[e] EXCEPT !.pc = "planning", !.prev = Len(ws) + 1]]
      BY <2>1, <2>2
    <3>3. run'[e] = [run[e] EXCEPT !.pc = "planning", !.prev = Len(ws) + 1]
      BY <3>2, <1>t
    <3>4. /\ run'[e].req = run[e].req /\ run'[e].gen = run[e].gen
          /\ run'[e].saw = run[e].saw /\ run'[e].prev = Len(ws) + 1 /\ run'[e].pc = "planning"
      BY <3>3, <1>t DEF Execution
    <3> QED BY <2>0, <3>1, <3>4 DEF Saves
  <2> QED BY <2>0, <2>1, <2>2, <1>t, <1>x
<1>10. CASE SaveAgain(e)
  <2>1. run[e].pc \in Admitted
    BY <1>10 DEF SaveAgain, At, Admitted, Working
  <2>2. Goto(e, "planning") \/ Raise(e, run[e].halted)
    BY <1>10 DEF SaveAgain
  <2>3. CASE Goto(e, "planning")
    BY <2>1, <2>3, <1>g, Places DEF Advances, Admitted, Working
  <2> QED BY <2>1, <2>2, <2>3, <1>t, <1>x
<1>11. CASE Beat(e)
  <2>1. run' = [run EXCEPT ![e] = [run[e] EXCEPT !.halted = TRUE]] /\ run[e].pc \in Admitted
    BY <1>11 DEF Beat, Admitted
  <2>2. run'[e] = [run[e] EXCEPT !.halted = TRUE]
    BY <2>1, <1>t
  <2>3. /\ run'[e].req = run[e].req /\ run'[e].gen = run[e].gen
        /\ run'[e].saw = run[e].saw /\ run'[e].prev = run[e].prev /\ run'[e].pc = run[e].pc
    BY <2>2, <1>t DEF Execution
  <2> QED BY <2>1, <2>3 DEF Advances
<1>12. CASE Commit(e)
  <2>1. run[e].pc \in Admitted
    BY <1>12 DEF Commit, At, Admitted, Working
  <2>2. Goto(e, "committed") \/ Raise(e, run[e].halted)
    BY <1>12 DEF Commit
  <2>3. CASE Goto(e, "committed")
    BY <2>1, <2>3, <1>g, Places DEF Advances
  <2> QED BY <2>1, <2>2, <2>3, <1>t, <1>x
<1>13. CASE Fail(e)
  BY <1>13, <1>t, <1>x DEF Fail, Admitted
<1> QED
  BY <1>1, <1>2, <1>3, <1>4, <1>5, <1>6, <1>7, <1>8, <1>9, <1>10, <1>11, <1>12, <1>13 DEF ExecNext

Stays(d) ==
  /\ run'[d].pc = run[d].pc /\ run'[d].gen = run[d].gen /\ run'[d].req = run[d].req
  /\ run'[d].saw = run[d].saw /\ run'[d].prev = run[d].prev

(* A step leaves an execution where it is, or takes it on, or ends it. *)
LEMMA StepSummary ==
  ASSUME TypeOK, CommandsNameRows, [Next]_vars, NEW d \in Exec
  PROVE  \/ \E q \in Request, p \in Process, how \in {"resume", "change", "fresh"} :
              Load(d, q, p, how)
         \/ Advances(d) \/ Saves(d) \/ Fails(d) \/ Retires(d) \/ Stays(d)
<1>t. run[d] \in Execution
  BY DEF TypeOK
<1>1. ASSUME NEW e \in Exec \ {d}, ExecNext(e) PROVE Stays(d)
  <2>1. run'[d] = run[d]
    BY <1>1, ExecMoves
  <2> QED BY <2>1 DEF Stays
<1>2. CASE ~ \E e \in Exec : ExecNext(e)
  <2>1. CASE run'[d] = Ended
    BY <2>1 DEF Ended, NoExecution, Retires
  <2>2. CASE run'[d] # Ended
    BY <1>2, <2>2, <1>t, OtherMoves DEF Stays, Execution
  <2> QED BY <2>1, <2>2
<1> QED BY <1>1, <1>2, ExecSummary

(* A turn that saved a row was admitted.                                     *)
RowsWereAdmitted == \A i \in DOMAIN ws : phase[ws[i].turn] # "new"

(* Nobody uses the generation of an execution that has not begun.            *)
NewIsFresh ==
  \A e \in Exec : At(e, "new") =>
    /\ \A i \in DOMAIN ws : ws[i].gen # e
    /\ \A d \in Exec : run[d].gen # e

(* Of the turns that saved rows of one generation, only that of the newest   *)
(* row can still be open.                                                    *)
ChainEnded ==
  \A i \in DOMAIN ws : \A j \in 1..(i - 1) :
    ws[j].gen = ws[i].gen /\ ws[j].turn # ws[i].turn => phase[ws[j].turn] = "ended"

LEMMA AdmittedStep ==
  ASSUME TypeOK, CommandsNameRows, RowsWereAdmitted, [Next]_vars
  PROVE  RowsWereAdmitted'
<1>t. Len(ws) \in Nat /\ DOMAIN ws = 1..Len(ws) /\ ws \in Seq(WorkspaceRow)
  BY LenProperties DEF TypeOK
<1>r. /\ \A t \in Turn : phase[t] # "new" => phase'[t] # "new"
      /\ \A i \in DOMAIN ws : ws[i].turn \in Turn
  <2>1. \A i \in DOMAIN ws : ws[i] \in WorkspaceRow
    BY <1>t, ElementOfSeq
  <2> QED BY <2>1, RowsStep DEF RowsGoOn, WorkspaceRow, Turn
<1>1. CASE ws' = ws
  BY <1>1, <1>r DEF RowsWereAdmitted
<1>2. CASE ws' # ws
  <2>1. PICK r : MayFollow(r) /\ ws' = Append(ws, r)
    BY <1>2, WorkspaceStep
  <2>2. r \in WorkspaceRow /\ r.turn \in Turn /\ phase[r.turn] # "new"
    BY <2>1 DEF MayFollow, WorkspaceRow, Turn
  <2>3. /\ DOMAIN ws' = 1..(Len(ws) + 1)
        /\ \A i \in 1..Len(ws) : ws'[i] = ws[i]
        /\ ws'[Len(ws) + 1] = r
    BY <2>1, <2>2, RowsStay
  <2> SUFFICES ASSUME NEW i \in DOMAIN ws' PROVE phase'[ws'[i].turn] # "new"
    BY DEF RowsWereAdmitted
  <2>4. CASE i \in DOMAIN ws
    BY <2>3, <2>4, <1>t, <1>r DEF RowsWereAdmitted
  <2>5. CASE i = Len(ws) + 1
    BY <2>2, <2>3, <2>5, <1>r
  <2> QED BY <2>3, <2>4, <2>5, <1>t
<1> QED BY <1>1, <1>2

LEMMA FreshStep ==
  ASSUME TypeOK, CommandsNameRows, NewIsFresh, [Next]_vars
  PROVE  NewIsFresh'
<1> SUFFICES ASSUME NEW e \in Exec, run'[e].pc = "new"
             PROVE  /\ \A i \in DOMAIN ws' : ws'[i].gen # e
                    /\ \A d \in Exec : run'[d].gen # e
  BY DEF NewIsFresh, At
<1>t. Len(ws) \in Nat /\ DOMAIN ws = 1..Len(ws)
  BY LenProperties DEF TypeOK
<1>0. Stays(e)
  BY StepSummary, LoadDoes DEF Advances, Saves, Fails, Retires, Admitted, Working
<1>1. /\ \A i \in DOMAIN ws : ws[i].gen # e
      /\ \A d \in Exec : run[d].gen # e
  BY <1>0 DEF Stays, NewIsFresh, At
<1>2. ASSUME NEW d \in Exec PROVE run'[d].gen # e
  <2>1. ASSUME NEW q \in Request, NEW p \in Process,
               NEW how \in {"resume", "change", "fresh"}, Load(d, q, p, how)
        PROVE  run'[d].gen # e
    <3>1. run'[d].pc = "loaded" /\ (how = "resume" => Len(ws) \in DOMAIN ws)
          /\ run'[d].gen = (IF how = "resume" THEN ws[Len(ws)].gen ELSE d)
      BY <2>1, LoadDoes
    <3>2. d # e
      BY <3>1
    <3> QED BY <3>1, <3>2, <1>1
  <2>2. CASE Advances(d) \/ Saves(d) \/ Fails(d) \/ Retires(d) \/ Stays(d)
    BY <2>2, <1>1, ConstantsAreApart DEF Advances, Saves, Fails, Retires, Stays
  <2> QED BY <2>1, <2>2, StepSummary
<1>3. ASSUME ws' # ws PROVE \A i \in DOMAIN ws' : ws'[i].gen # e
  <2>1. PICK r : MayFollow(r) /\ ws' = Append(ws, r)
    BY <1>3, WorkspaceStep
  <2>2. r.gen # e
    BY <2>1, <1>1 DEF MayFollow, SavedBy, CancelledBy, CommandsNameRows
  <2>3. /\ DOMAIN ws' = 1..(Len(ws) + 1)
        /\ \A i \in 1..Len(ws) : ws'[i] = ws[i]
        /\ ws'[Len(ws) + 1] = r
    BY <2>1, RowsStay DEF MayFollow
  <2> QED BY <2>2, <2>3, <1>1, <1>t
<1> QED BY <1>1, <1>2, <1>3

(* What is known while e is admitted: which rows are those of its generation *)
(* and that the turns of earlier rows have ended or are its own.             *)
Past(e) ==
  /\ run[e].pc \in {"loaded"} \cup Admission =>
       /\ run[e].prev \in {0, run[e].saw}
       /\ \A i \in 1..run[e].saw : ws[i].gen = run[e].gen => ws[run[e].saw].gen = run[e].gen
  /\ At(e, "admitting") /\ run[e].saw # 0 => phase[ws[run[e].saw].turn] = "ended"
  /\ run[e].pc \in Admitted \cup {"committed", "failing"} =>
       \A j \in 1..run[e].prev : ws[j].gen = run[e].gen =>
         ws[j].turn = run[e].req \/ phase[ws[j].turn] = "ended"

PastsAreKnown == \A e \in Exec : Past(e)

(* One execution's part of TakeoverEndsThePast. *)
PastHasEnded(e) ==
  run[e].pc \in Admitted =>
    \A i \in 1..run[e].saw :
      i = run[e].saw \/ ws[i].gen = run[e].gen => phase[ws[i].turn] = "ended"

LEMMA RowsKept ==
  ASSUME TypeOK, CommandsNameRows, [Next]_vars
  PROVE  /\ Len(ws) \in Nat /\ DOMAIN ws = 1..Len(ws)
         /\ \A i \in 1..Len(ws) :
              /\ ws'[i] = ws[i] /\ ws[i] \in WorkspaceRow
              /\ phase[ws[i].turn] = "ended" => phase'[ws'[i].turn] = "ended"
<1>1. /\ Len(ws) \in Nat /\ DOMAIN ws = 1..Len(ws)
      /\ \A i \in 1..Len(ws) : ws'[i] = ws[i] /\ ws[i] \in WorkspaceRow
  BY RowsGrow, LenProperties, ElementOfSeq DEF TypeOK
<1>2. \A i \in 1..Len(ws) : ws[i].turn \in Turn
  BY <1>1 DEF WorkspaceRow, Turn
<1>3. \A t \in Turn : phase[t] = "ended" => phase'[t] = "ended"
  BY RowsStep DEF RowsGoOn
<1> QED BY <1>1, <1>2, <1>3

LEMMA ChainEndedStep ==
  ASSUME TypeOK, CommandsNameRows, ChainEnded, PastsAreKnown, [Next]_vars
  PROVE  ChainEnded'
<1> DEFINE n == Len(ws)
<1>k. /\ n \in Nat /\ DOMAIN ws = 1..n
      /\ \A i \in 1..n : /\ ws'[i] = ws[i] /\ ws[i] \in WorkspaceRow
                         /\ phase[ws[i].turn] = "ended" => phase'[ws'[i].turn] = "ended"
  BY RowsKept
<1>o. ASSUME NEW i \in 1..n, NEW j \in 1..(i - 1),
             ws'[j].gen = ws'[i].gen, ws'[j].turn # ws'[i].turn
      PROVE  phase'[ws'[j].turn] = "ended"
  <2>1. i \in DOMAIN ws /\ j \in 1..n /\ ws'[i] = ws[i] /\ ws'[j] = ws[j]
    BY <1>k
  <2>2. phase[ws[j].turn] = "ended"
    BY <1>o, <2>1 DEF ChainEnded
  <2> QED BY <1>k, <2>1, <2>2
<1>1. CASE ws' = ws
  BY <1>1, <1>o, <1>k DEF ChainEnded
<1>2. CASE ws' # ws
  <2>1. PICK r : MayFollow(r) /\ ws' = Append(ws, r)
    BY <1>2, WorkspaceStep
  <2>2. DOMAIN ws' = 1..(n + 1) /\ ws'[n + 1] = r
    BY <2>1, RowsStay DEF MayFollow
  <2>3. ASSUME NEW j \in 1..n, ws[j].gen = r.gen, ws[j].turn # r.turn
        PROVE  phase[ws[j].turn] = "ended"
    <3>1. ASSUME NEW e \in Exec, SavedBy(e, r) PROVE phase[ws[j].turn] = "ended"
      <4>1. Newest(r.gen) \in 0..n /\ j <= Newest(r.gen)
        BY <2>3, <1>k, NewestIsLast DEF TypeOK
      <4>2. j \in 1..run[e].prev
        BY <4>1, <3>1, <1>k DEF SavedBy
      <4>3. run[e].pc \in Admitted \cup {"committed", "failing"}
        BY <3>1 DEF SavedBy, Admitted, Working
      <4> QED BY <2>3, <3>1, <4>2, <4>3 DEF SavedBy, PastsAreKnown, Past
    <3>2. ASSUME NEW c \in Cancel, CancelledBy(c, r) PROVE phase[ws[j].turn] = "ended"
      <4>1. PICK k \in DOMAIN ws : ws[k].gen = r.gen /\ ws[k].turn = r.turn
        BY <3>2 DEF CancelledBy, CommandsNameRows
      <4>2. phase[ws[k].turn] # "ended"
        BY <2>1, <4>1 DEF MayFollow
      <4>3. k \in 1..n /\ j # k
        BY <1>k, <2>3, <4>1
      <4>4. CASE j < k
        <5>1. j \in 1..(k - 1)
          BY <4>3, <4>4, <1>k
        <5> QED BY <5>1, <4>1, <2>3 DEF ChainEnded
      <4>5. CASE k < j
        <5>1. k \in 1..(j - 1) /\ j \in DOMAIN ws
          BY <4>3, <4>5, <1>k
        <5>2. phase[ws[k].turn] = "ended"
          BY <5>1, <4>1, <2>3 DEF ChainEnded
        <5> QED BY <5>2, <4>2
      <4> QED BY <4>3, <4>4, <4>5, <1>k
    <3> QED BY <2>1, <3>1, <3>2 DEF MayFollow
  <2> SUFFICES ASSUME NEW i \in 1..(n + 1), NEW j \in 1..(i - 1),
                      ws'[j].gen = ws'[i].gen, ws'[j].turn # ws'[i].turn
               PROVE  phase'[ws'[j].turn] = "ended"
    BY <2>2 DEF ChainEnded
  <2>4. CASE i = n + 1
    <3>1. j \in 1..n /\ ws'[j] = ws[j] /\ ws'[i] = r
      BY <2>2, <2>4, <1>k
    <3> QED BY <3>1, <2>3, <1>k
  <2>5. CASE i # n + 1
    <3>1. i \in 1..n
      BY <2>5, <1>k
    <3> QED BY <3>1, <1>o
  <2> QED BY <2>4, <2>5
<1> QED BY <1>1, <1>2

(* The turn of the row an execution resumes has ended when it is admitted.   *)
LEMMA TakenIsEnded ==
  ASSUME TypeOK, RowsWereAdmitted, NEW e \in Exec, CheckTurn(e) \/ TakeOver(e),
         run'[e].pc = "admitting", run[e].saw # 0
  PROVE  phase'[ws[run[e].saw].turn] = "ended"
<1> DEFINE t == ws[run[e].saw].turn
<1>1. run[e].saw \in DOMAIN ws /\ t \in Turn
  <2>1. /\ run[e].saw \in Nat /\ run[e].saw <= Len(ws) /\ Len(ws) \in Nat
        /\ DOMAIN ws = 1..Len(ws) /\ ws \in Seq(WorkspaceRow)
    BY LenProperties DEF TypeOK, Execution
  <2>2. run[e].saw \in DOMAIN ws
    BY <2>1
  <2>3. ws[run[e].saw] \in WorkspaceRow
    BY <2>1, <2>2, ElementOfSeq
  <2> QED BY <2>2, <2>3 DEF WorkspaceRow, Turn
<1>2. phase[t] \in {"new", "open", "ended"} /\ phase[t] # "new"
  BY <1>1 DEF TypeOK, RowsWereAdmitted
<1>3. CASE CheckTurn(e)
  <2>1. CASE Abandoned(e)
    <3>1. Goto(e, "taking")
      BY <1>3, <2>1 DEF CheckTurn
    <3>2. run'[e] = [run[e] EXCEPT !.pc = "taking"] /\ run[e] \in Execution
      BY <3>1, GotoDoes, Places DEF TypeOK
    <3>3. run'[e].pc = "taking"
      BY <3>2 DEF Execution
    <3> QED BY <3>3
  <2>2. CASE ~Abandoned(e)
    BY <1>2, <1>3, <2>2 DEF Abandoned, CheckTurn, rows
  <2> QED BY <2>1, <2>2
<1>4. CASE TakeOver(e)
  <2>1. phase[t] = "open"
    <3>1. ~Depart(e)
      BY ReduceDoes, Places DEF Depart
    <3> QED BY <1>4, <3>1 DEF TakeOver
  <2>2. Rows!Withdraw(t)
    BY <1>4, <2>1 DEF TakeOver
  <2> QED BY <1>1, <2>2 DEF Rows!Withdraw, TypeOK
<1> QED BY <1>3, <1>4

LEMMA PastStep ==
  ASSUME TypeOK, CommandsNameRows, RowsWereAdmitted, NewIsFresh, ChainEnded, [Next]_vars,
         NEW e \in Exec, Past(e), PastHasEnded(e)
  PROVE  Past(e)' /\ PastHasEnded(e)'
<1> DEFINE n == Len(ws)
<1>k. /\ n \in Nat /\ DOMAIN ws = 1..n
      /\ \A i \in 1..n : /\ ws'[i] = ws[i] /\ ws[i] \in WorkspaceRow
                         /\ phase[ws[i].turn] = "ended" => phase'[ws'[i].turn] = "ended"
  BY RowsKept
<1>t. /\ run[e].saw \in Nat /\ run[e].saw <= n /\ run[e].prev \in Nat /\ run[e].prev <= n
  BY DEF TypeOK, Execution
<1>p. Admission = {"held", "taking", "admitting"}
      /\ Admitted = {"admitted", "ready", "reading", "saving", "planning", "committing"}
  BY DEF Admission, Admitted, Working
<1>i. \A i \in 1..run[e].saw : i \in 1..n
  BY <1>k, <1>t
<1>j. \A j \in 1..run[e].prev : j \in 1..n
  BY <1>k, <1>t
<1>s. run[e].saw # 0 => run[e].saw \in 1..run[e].saw
  BY <1>t
(* The three parts of Past where the rows it names do not change. *)
<1>a. ASSUME run'[e].gen = run[e].gen, run'[e].saw = run[e].saw, run'[e].prev = run[e].prev,
             run[e].pc \in {"loaded"} \cup Admission
      PROVE  /\ run'[e].prev \in {0, run'[e].saw}
             /\ \A i \in 1..run'[e].saw :
                  ws'[i].gen = run'[e].gen => ws'[run'[e].saw].gen = run'[e].gen
  <2>1. run[e].prev \in {0, run[e].saw}
    BY <1>a DEF Past
  <2>2. ASSUME NEW i \in 1..run[e].saw, ws'[i].gen = run[e].gen
        PROVE  ws'[run[e].saw].gen = run[e].gen
    <3>1. run[e].saw # 0 /\ ws'[i] = ws[i]
      BY <1>t, <1>i, <1>k
    <3>2. ws'[run[e].saw] = ws[run[e].saw]
      BY <3>1, <1>s, <1>i, <1>k
    <3> QED BY <2>2, <3>1, <3>2, <1>a DEF Past
  <2> QED BY <1>a, <2>1, <2>2
<1>b. ASSUME run'[e].gen = run[e].gen, run'[e].saw = run[e].saw, run[e].pc \in Admitted
      PROVE  PastHasEnded(e)'
  BY <1>b, <1>i, <1>k DEF PastHasEnded
<1>c. ASSUME run'[e].gen = run[e].gen, run'[e].req = run[e].req,
             run[e].pc \in Admitted \cup {"committed", "failing"}
      PROVE  \A j \in 1..run[e].prev : ws'[j].gen = run'[e].gen =>
               ws'[j].turn = run'[e].req \/ phase'[ws'[j].turn] = "ended"
  BY <1>c, <1>j, <1>k DEF Past
<1>1. ASSUME NEW q \in Request, NEW p \in Process,
             NEW how \in {"resume", "change", "fresh"}, Load(e, q, p, how)
      PROVE  Past(e)' /\ PastHasEnded(e)'
  <2>1. /\ run'[e].pc = "loaded"
        /\ run'[e].gen = (IF how = "resume" THEN ws[n].gen ELSE e)
        /\ run'[e].saw = (IF how = "fresh" THEN 0 ELSE n)
        /\ run'[e].prev = (IF how = "resume" THEN n ELSE 0)
    BY <1>1, LoadDoes
  <2>2. ws' = ws /\ At(e, "new")
    BY <1>1 DEF Load
  <2>3. \A i \in 1..n : ws[i].gen # e
    BY <2>2, <1>k DEF NewIsFresh
  <2>4. \A i \in 1..run'[e].saw : ws'[i].gen = run'[e].gen => ws'[run'[e].saw].gen = run'[e].gen
    <3>1. CASE how = "fresh"
      BY <3>1, <2>1
    <3>2. CASE how = "resume"
      BY <3>2, <2>1, <2>2
    <3>3. CASE how = "change"
      BY <3>3, <2>1, <2>2, <2>3
    <3> QED BY <3>1, <3>2, <3>3
  <2>5. run'[e].prev \in {0, run'[e].saw}
    BY <2>1
  <2> QED BY <2>1, <2>4, <2>5, <1>p DEF Past, PastHasEnded, At
<1>2. CASE Advances(e)
  <2>0. /\ run'[e].gen = run[e].gen /\ run'[e].req = run[e].req
        /\ run'[e].saw = run[e].saw /\ run'[e].prev = run[e].prev
    BY <1>2 DEF Advances
  <2>1. CASE run[e].pc \in {"loaded", "held", "taking"}
    <3>1. \/ run'[e].pc \in {"held", "taking"}
          \/ run'[e].pc = "admitting" /\ (CheckTurn(e) \/ TakeOver(e))
      BY <1>2, <2>1, <1>p DEF Advances
    <3>2. run'[e].pc = "admitting" /\ run'[e].saw # 0 => phase'[ws'[run'[e].saw].turn] = "ended"
      BY <3>1, <2>0, <1>s, <1>i, <1>k, TakenIsEnded
    <3>3. /\ run'[e].prev \in {0, run'[e].saw}
          /\ \A i \in 1..run'[e].saw :
                  ws'[i].gen = run'[e].gen => ws'[run'[e].saw].gen = run'[e].gen
      BY <1>a, <2>0, <2>1, <1>p
    <3> QED BY <3>1, <3>2, <3>3, <1>p DEF Past, PastHasEnded, At
  <2>2. CASE run[e].pc = "admitting"
    <3>1. run'[e].pc = "admitted"
      BY <1>2, <2>2, <1>p DEF Advances
    <3>2. ASSUME NEW i \in 1..run[e].saw, i = run[e].saw \/ ws[i].gen = run[e].gen
          PROVE  phase[ws[i].turn] = "ended"
      <4>1. run[e].saw \in 1..n /\ phase[ws[run[e].saw].turn] = "ended"
        BY <1>t, <1>i, <1>s, <2>2 DEF Past, At
      <4>2. CASE i # run[e].saw
        <5>1. ws[i].gen = ws[run[e].saw].gen
          BY <3>2, <4>2, <2>2, <1>p DEF Past
        <5>2. i \in 1..(run[e].saw - 1)
          BY <4>2, <1>t
        <5>3. ws[i].turn # ws[run[e].saw].turn => phase[ws[i].turn] = "ended"
          BY <4>1, <5>1, <5>2, <1>k DEF ChainEnded
        <5> QED BY <4>1, <5>3
      <4> QED BY <4>1, <4>2
    <3>3. \A i \in 1..run[e].saw :
            i = run[e].saw \/ ws[i].gen = run[e].gen => phase'[ws'[i].turn] = "ended" /\ ws'[i] = ws[i]
      BY <3>2, <1>i, <1>k
    <3>4. PastHasEnded(e)'
      BY <3>3, <2>0, <1>i, <1>k DEF PastHasEnded
    <3>5. run[e].prev = 0 \/ run[e].prev = run[e].saw
      BY <2>2, <1>p DEF Past
    <3>6. \A j \in 1..run[e].prev : ws'[j].gen = run[e].gen => phase'[ws'[j].turn] = "ended"
      BY <3>3, <3>5, <1>j, <1>k
    <3> QED BY <3>1, <3>4, <3>6, <2>0, <1>p DEF Past, At
  <2>3. CASE run[e].pc \in Admitted
    <3>1. run'[e].pc \in Admitted \cup {"committed"}
      BY <1>2, <2>3, <1>p DEF Advances
    <3>2. PastHasEnded(e)'
      BY <1>b, <2>0, <2>3
    <3>3. \A j \in 1..run[e].prev : ws'[j].gen = run'[e].gen =>
               ws'[j].turn = run'[e].req \/ phase'[ws'[j].turn] = "ended"
      BY <1>c, <2>0, <2>3
    <3> QED BY <3>1, <3>2, <3>3, <2>0, <1>p DEF Past, At
  <2> QED BY <1>2, <2>1, <2>2, <2>3 DEF Advances
<1>3. CASE Saves(e)
  <2>0. /\ run[e].pc = "saving" /\ run'[e].pc = "planning"
        /\ run'[e].gen = run[e].gen /\ run'[e].req = run[e].req
        /\ run'[e].saw = run[e].saw /\ run'[e].prev = n + 1
    BY <1>3 DEF Saves
  <2>1. PICK r : MayFollow(r) /\ SavedBy(e, r) /\ ws' = Append(ws, r)
    BY <1>3 DEF Saves
  <2>2. ws'[n + 1] = r
    BY <2>1, RowsStay DEF MayFollow
  <2>3. PastHasEnded(e)'
    BY <1>b, <2>0, <1>p
  <2>4. ASSUME NEW j \in 1..(n + 1), ws'[j].gen = run[e].gen
        PROVE  ws'[j].turn = run[e].req \/ phase'[ws'[j].turn] = "ended"
    <3>1. CASE j = n + 1
      BY <3>1, <2>1, <2>2 DEF SavedBy
    <3>2. CASE j # n + 1
      <4>1. j \in 1..n /\ ws'[j] = ws[j]
        BY <3>2, <1>k
      <4>2. j <= Newest(run[e].gen) /\ Newest(run[e].gen) = run[e].prev
        BY <4>1, <2>1, <2>4, <1>k, NewestIsLast DEF TypeOK, SavedBy
      <4>3. j \in 1..run[e].prev
        BY <4>1, <4>2, <1>t
      <4> QED BY <4>1, <4>3, <2>0, <2>4, <1>c, <1>p
    <3> QED BY <3>1, <3>2
  <2> QED BY <2>0, <2>3, <2>4, <1>p DEF Past, At
<1>4. CASE Fails(e)
  <2>0. /\ run[e].pc \in Admitted \cup {"committed"} /\ run'[e].pc = "failing"
        /\ run'[e].gen = run[e].gen /\ run'[e].req = run[e].req /\ run'[e].prev = run[e].prev
    BY <1>4 DEF Fails
  <2> QED BY <2>0, <1>c, <1>p DEF Past, PastHasEnded, At
<1>5. CASE Retires(e)
  BY <1>5, <1>p DEF Retires, Past, PastHasEnded, At
<1>6. CASE Stays(e)
  <2>0. /\ run'[e].pc = run[e].pc /\ run'[e].gen = run[e].gen /\ run'[e].req = run[e].req
        /\ run'[e].saw = run[e].saw /\ run'[e].prev = run[e].prev
    BY <1>6 DEF Stays
  <2>1. run'[e].pc = "admitting" /\ run'[e].saw # 0 => phase'[ws'[run'[e].saw].turn] = "ended"
    BY <2>0, <1>s, <1>i, <1>k DEF Past, At
  <2>2. run[e].pc \in Admitted => PastHasEnded(e)'
    BY <1>b, <2>0
  <2>3. PastHasEnded(e)'
    BY <2>0, <2>2 DEF PastHasEnded
  <2> QED BY <2>0, <2>1, <2>3, <1>a, <1>c DEF Past, At
<1> QED BY <1>1, <1>2, <1>3, <1>4, <1>5, <1>6, StepSummary

-----------------------------------------------------------------------------
(* The theorems *)

IInv ==
  /\ TypeOK
  /\ CommandsNameRows
  /\ NoLostUpdate
  /\ LateLost
  /\ RowsWereAdmitted
  /\ NewIsFresh
  /\ ChainEnded
  /\ PastsAreKnown
  /\ TakeoverEndsThePast

LEMMA InvInit == Init => IInv
<1> SUFFICES ASSUME Init PROVE IInv
  OBVIOUS
<1>1. /\ ws = << >> /\ DOMAIN ws = {} /\ Len(ws) = 0
      /\ \A e \in Exec : run[e] = NoExecution
      /\ \A c \in Cancel : cancel[c] = NoCommand
  BY DEF Init
<1>2. TypeOK
  <2>1. NoCommand \in Command
    BY DEF NoCommand, Command
  <2>2. NoExecution \in Execution /\ NoExecution.pc = "new"
        /\ NoExecution.saw = 0 /\ NoExecution.prev = 0
    BY BlankIsTyped DEF NoExecution
  <2>3. run \in [Exec -> Execution] /\ cancel \in [Cancel -> Command]
    BY <2>1, <2>2 DEF Init
  <2>4. \A e \in Exec : run[e].pc = "new" /\ run[e].saw <= Len(ws) /\ run[e].prev <= Len(ws)
    BY <1>1, <2>2
  <2> QED BY <1>1, <2>3, <2>4 DEF Init, Rows!Init, TypeOK
<1>3. CommandsNameRows
  BY <1>1 DEF CommandsNameRows, NoCommand
<1>4. NoLostUpdate /\ RowsWereAdmitted /\ ChainEnded
  BY <1>1 DEF NoLostUpdate, RowsWereAdmitted, ChainEnded
<1>5. LateLost
  BY <1>1 DEF LateLost, NoExecution
<1>6. NewIsFresh
  BY <1>1, ConstantsAreApart DEF NewIsFresh, NoExecution
<1>7. PastsAreKnown /\ TakeoverEndsThePast
  <2>1. \A e \in Exec : run[e].pc = "new"
    BY <1>1 DEF NoExecution
  <2> QED BY <2>1 DEF PastsAreKnown, Past, At, TakeoverEndsThePast, Admission, Admitted, Working
<1> QED BY <1>2, <1>3, <1>4, <1>5, <1>6, <1>7 DEF IInv

LEMMA InvStep == IInv /\ [Next]_vars => IInv'
<1> SUFFICES ASSUME IInv, [Next]_vars PROVE IInv'
  OBVIOUS
<1>1. /\ TypeOK /\ CommandsNameRows /\ NoLostUpdate /\ LateLost /\ RowsWereAdmitted
      /\ NewIsFresh /\ ChainEnded /\ PastsAreKnown
  BY DEF IInv
<1>2. \A e \in Exec : Past(e) /\ PastHasEnded(e)
  BY DEF IInv, PastsAreKnown, TakeoverEndsThePast, PastHasEnded, Admitted
<1>3. TypeOK' /\ CommandsNameRows' /\ NoLostUpdate' /\ LateLost'
  BY <1>1, TypeStep, CommandsStep, ChainStep, LateStep
<1>4. RowsWereAdmitted' /\ NewIsFresh' /\ ChainEnded'
  BY <1>1, AdmittedStep, FreshStep, ChainEndedStep
<1>5. \A e \in Exec : Past(e)' /\ PastHasEnded(e)'
  BY <1>1, <1>2, PastStep
<1>6. PastsAreKnown' /\ TakeoverEndsThePast'
  BY <1>5 DEF PastsAreKnown, TakeoverEndsThePast, PastHasEnded, Admitted
<1> QED BY <1>3, <1>4, <1>6 DEF IInv

LEMMA Inductive == Spec => []IInv
BY InvInit, InvStep, PTL DEF Spec

(* Every variable keeps its type. *)
THEOREM TypeCorrect == Spec => []TypeOK
BY Inductive, PTL DEF IInv

(* However many executions take a generation over from one another, and      *)
(* whatever their failure handlers and cancel commands append, its rows are  *)
(* one chain: each made from the one before, with a higher revision.         *)
THEOREM NothingIsOverwritten == Spec => []NoLostUpdate
BY Inductive, PTL DEF IInv

(* An execution whose lease lapsed before its last barrier never commits.    *)
THEOREM LapsedStaysOut == Spec => []LapsedNeverPublishes
<1>1. IInv => LapsedNeverPublishes
  BY DEF IInv, LateLost, LapsedNeverPublishes, BeforeLastBarrier, At, Admission
<1> QED BY <1>1, Inductive, PTL

(* Once a resumed execution is admitted no earlier turn of its generation,   *)
(* nor that of the row it took over, can still publish a plan.               *)
THEOREM TakeoverIsFinal == Spec => []TakeoverEndsThePast
BY Inductive, PTL DEF IInv

LEMMA OthersSpareStep ==
  ASSUME TypeOK, CommandsNameRows, [Next]_vars,
         NEW e \in Exec, NEW d \in Exec, e # d, run'[d].pc # run[d].pc, lock = e
  PROVE  /\ lock' = e
         /\ active = run[e].gen => active' = active \/ Activate(d)
<1>t. run[d] \in Execution /\ e # Nobody
  BY ConstantsAreApart DEF TypeOK
<1>1. ASSUME NEW x \in Exec \ {d}, ExecNext(x) PROVE FALSE
  <2>1. run'[d] = run[d]
    BY <1>1, ExecMoves
  <2> QED BY <2>1
<1>2. CASE ExecNext(d)
  BY <1>2, <1>t
     DEF ExecNext, Load, Acquire, CheckTurn, TakeOver, Admit, Repeat, Activate, Barrier,
         ReadActive, Save, SaveAgain, Beat, Commit, Deliver, KeyAfterFinish, Fail, Escape,
         Interrupt, SaveFailed, MarkFailed, Release, ReleaseFails, redis
<1>3. CASE ~ \E x \in Exec : ExecNext(x)
  <2>1. run'[d] = Ended
    BY <1>3, <1>t, OtherMoves DEF Execution
  <2>2. ASSUME NEW c \in Cancel, HaltAndClear(c) PROVE FALSE
    <3>1. run'[d] = run[d] \/ run'[d] = [run[d] EXCEPT !.halted = TRUE]
      BY <2>2 DEF HaltAndClear
    <3> QED BY <3>1, <1>t DEF Execution
  <2>3. CASE LeaseLapses
    <3>1. run' = [run EXCEPT ![lock] = [run[lock] EXCEPT !.late = @ \/ BeforeLastBarrier(lock)]]
      BY <2>3 DEF LeaseLapses
    <3>2. run'[d] = run[d]
      BY <3>1 DEF TypeOK
    <3> QED BY <3>2
  <2>4. CASE UNCHANGED run
    BY <2>4
  <2>5. ASSUME NEW p \in Process, Crash(p)
        PROVE  lock' = lock /\ active' = active
    BY <2>5 DEF Crash, redis
  <2> QED BY <1>3, <2>2, <2>3, <2>4, <2>5
          DEF Next, CancelNext, Find, Stop, CancelFails, TalkStarts, TalkCommits, vars
<1> QED BY <1>1, <1>2, <1>3

(* What another execution does never takes the lease or, unless it activates *)
(* a generation of its own, the key from the one that holds them.            *)
THEOREM HolderIsSpared == Spec => OthersSpare
<1>1. IInv /\ [Next]_vars => [OthersSpareTheHolder]_vars
  BY OthersSpareStep DEF IInv, OthersSpareTheHolder
<1> QED BY <1>1, Inductive, PTL DEF Spec, OthersSpare

(* An execution that ends another's turn resumes a row. *)
TakersResume == \A e \in Exec : At(e, "taking") => run[e].saw # 0

LEMMA TakersStep ==
  ASSUME TypeOK, CommandsNameRows, TakersResume, [Next]_vars
  PROVE  TakersResume'
<1> SUFFICES ASSUME NEW e \in Exec, run'[e].pc = "taking" PROVE run'[e].saw # 0
  BY DEF TakersResume, At
<1>1. ASSUME NEW q \in Request, NEW p \in Process, NEW how \in {"resume", "change", "fresh"},
             Load(e, q, p, how)
      PROVE  FALSE
  <2>1. run'[e].pc = "loaded"
    BY <1>1, LoadDoes
  <2> QED BY <2>1
<1>2. CASE Advances(e)
  <2>1. CheckTurn(e)
    BY <1>2 DEF Advances, Admitted, Working
  <2>2. Abandoned(e)
    <3>1. ASSUME ~Abandoned(e) PROVE FALSE
      <4>1. Goto(e, "admitting")
        BY <2>1, <3>1 DEF CheckTurn
      <4>2. run'[e] = [run[e] EXCEPT !.pc = "admitting"] /\ run[e] \in Execution
        BY <4>1, GotoDoes, Places DEF TypeOK
      <4>3. run'[e].pc = "admitting"
        BY <4>2 DEF Execution
      <4> QED BY <4>3
    <3> QED BY <3>1
  <2> QED BY <1>2, <2>2 DEF Advances, Abandoned
<1>3. CASE Saves(e) \/ Fails(e) \/ Retires(e)
  BY <1>3 DEF Saves, Fails, Retires
<1>4. CASE Stays(e)
  BY <1>4 DEF Stays, TakersResume, At
<1> QED BY <1>1, <1>2, <1>3, <1>4, StepSummary

LEMMA RowWithdrawn ==
  ASSUME TypeOK, NEW i \in 1..Len(ws), Rows!Withdraw(ws[i].turn)
  PROVE  Rows!Next
<1>1. ws[i] \in WorkspaceRow
  BY ElementOfSeq DEF TypeOK
<1> QED BY <1>1 DEF WorkspaceRow, Turn, Rows!Next

LEMMA RowStep ==
  ASSUME TypeOK, CommandsNameRows, TakersResume, [Next]_vars
  PROVE  [Rows!Next]_(Rows!journalVars)
<1>1. ASSUME NEW e \in Exec, ExecNext(e) PROVE Rows!Next \/ UNCHANGED rows
  <2>r. run[e].pc \notin {"new", "done"} => run[e].req \in Turn
    BY DEF TypeOK, Turn
  <2>1. CASE TakeOver(e)
    <3>1. run[e].saw \in 1..Len(ws)
      <4>1. run[e].saw \in Nat /\ run[e].saw <= Len(ws) /\ Len(ws) \in Nat
        BY LenProperties DEF TypeOK, Execution
      <4>2. run[e].saw # 0
        BY <2>1 DEF TakersResume, TakeOver
      <4> QED BY <4>1, <4>2
    <3> QED BY <2>1, <3>1, RowWithdrawn DEF TakeOver
  <2>2. CASE Admit(e)
    BY <2>2, <2>r DEF Admit, At, Rows!Next
  <2>3. CASE Commit(e)
    BY <2>3, <2>r DEF Commit, At, Rows!Next
  <2>4. CASE MarkFailed(e)
    BY <2>4, <2>r DEF MarkFailed, EndTurn, At, Rows!Next
  <2>5. CASE Save(e)
    BY <2>5 DEF Save
  <2>6. CASE SaveFailed(e)
    BY <2>6 DEF SaveFailed
  <2>7. ASSUME NEW goal, Barrier(e, goal) PROVE UNCHANGED rows
    BY <2>7 DEF Barrier
  <2> QED BY <1>1, <2>1, <2>2, <2>3, <2>4, <2>5, <2>6, <2>7
          DEF ExecNext, Load, Acquire, CheckTurn, Repeat, Activate, ReadActive,
              SaveAgain, Beat, Deliver, Fail, Escape, Interrupt, Release, ReleaseFails
<1>2. ASSUME NEW c \in Cancel, CancelNext(c) PROVE Rows!Next \/ UNCHANGED rows
  <2>1. CASE Stop(c)
    <3>1. PICK i \in DOMAIN ws : ws[i].turn = cancel[c].target
      BY <2>1 DEF Stop, CommandsNameRows
    <3>2. i \in 1..Len(ws)
      BY <3>1, LenProperties DEF TypeOK
    <3>3. Rows!Withdraw(ws[i].turn) \/ UNCHANGED rows
      BY <2>1, <3>1 DEF Stop
    <3> QED BY <3>2, <3>3, RowWithdrawn
  <2>2. CASE UNCHANGED rows
    BY <2>2
  <2> QED BY <1>2, <2>1, <2>2 DEF CancelNext, Find, HaltAndClear, CancelFails
<1>3. ASSUME NEW t \in Talk, TalkStarts(t) \/ TalkCommits(t) PROVE Rows!Next
  <2>1. t \in Turn /\ (Rows!Submit(t) \/ Rows!Publish(t))
    BY <1>3 DEF TalkStarts, TalkCommits, Turn
  <2> QED BY <2>1 DEF Rows!Next
<1>4. ASSUME LeaseLapses \/ (\E p \in Process : Crash(p)) \/ UNCHANGED vars PROVE UNCHANGED rows
  BY <1>4 DEF LeaseLapses, Crash, vars
<1>5. Rows!Next \/ UNCHANGED rows
  BY <1>1, <1>2, <1>3, <1>4 DEF Next
<1> QED BY <1>5 DEF rows, Rows!journalVars

(* Whatever executions, takeovers, failure handlers and cancel commands do   *)
(* to the turns of a trip is what the contract of the store (TripJournal,    *)
(* which TurnStore implements: StoreIsJournal) lets a client do.             *)
THEOREM ExecutionsKeepTheContract == Spec => Rows!Spec
<1>1. Init => Rows!Init /\ TakersResume
  BY DEF Init, NoExecution, TakersResume, At
<1>2. IInv /\ TakersResume /\ [Next]_vars => TakersResume'
  BY TakersStep DEF IInv
<1>3. IInv /\ TakersResume /\ [Next]_vars => [Rows!Next]_(Rows!journalVars)
  BY RowStep DEF IInv
<1> QED BY <1>1, <1>2, <1>3, Inductive, PTL DEF Spec, Rows!Spec

=============================================================================
