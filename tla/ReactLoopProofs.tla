---------------------------- MODULE ReactLoopProofs ----------------------------
(* Theorems about ReactLoop, for any number of tool calls, any budgets and   *)
(* any sizes of batches.                                                     *)
(*                                                                           *)
(* All of them rest on who may write at a time: a tool that is no query runs *)
(* alone in its batch, and a reviewer only inside a review of the planner,   *)
(* so what a writing tool has read is still there when it ends.              *)
EXTENDS ReactLoop, FiniteSetTheorems, SequenceTheorems, TLAPS

-----------------------------------------------------------------------------
(* The inductive invariant *)

(* Calls are numbered in the order in which the model made them. *)
Numbered ==
  \E k \in 0..MaxCalls : \A c \in Call : receipt[c].status # "none" <=> c <= k

(* A tool writes when it ends; only a review may have merged facts before.   *)
ReceiptsAreSound ==
  \A c \in Call :
    /\ receipt[c].status = "none" => ~receipt[c].merged
    /\ receipt[c].status = "pending" /\ receipt[c].tool # "review" => ~receipt[c].merged

(* The batches hold what their sources may call; in one that was judged a    *)
(* pending call that is no query is alone.                                   *)
BatchesAreSound ==
  /\ \A s \in Source : \A c \in last[s] :
       receipt[c].status # "none" /\ receipt[c].tool \in Tools(s)
  /\ last["planner"] \cap last["reviewer"] = {}
  /\ \A s \in Source : pc[s] = "tools" =>
       \A c \in last[s] : receipt[c].status = "pending" /\ receipt[c].tool # "query" =>
         last[s] = {c}

Runs(c) == job[c].at # "none"

(* Only pending calls of a loop in its tools run, and the reviewer's loop    *)
(* only inside a review of the planner.                                      *)
JobsAreSound ==
  /\ \A c \in Call : Runs(c) =>
       /\ receipt[c].status = "pending"
       /\ \E s \in Source : c \in last[s] /\ pc[s] = "tools"
  /\ \A c \in Call : job[c].at \in {"calculated", "reviewing"} => receipt[c].tool = "review"
  /\ pc["reviewer"] # "idle" =>
       /\ pc["planner"] = "tools"
       /\ \E c \in last["planner"] : job[c].at = "reviewing"

ControlInv == Numbered /\ ReceiptsAreSound /\ BatchesAreSound /\ JobsAreSound

(* What a tool that writes a calculation has read is still so.               *)
ReadsAreCurrent ==
  \A c \in Call : job[c].at \in {"working", "sending"} =>
    LET r == job[c].seen IN
    /\ r.calc # NoCalc => r.calc.draft = r.draft /\ r.calc.facts = r.facts
    /\ receipt[c].tool # "query" => r.draft = ws.draft /\ r.facts = ws.facts

DataInv == EffectsMatchReceipts /\ CalculationIsCurrent /\ ReadsAreCurrent

(* What was counted and not yet made. *)
Reserved(s) == IF pc[s] = "asking" THEN 1 ELSE 0
Sending == {c \in Call : job[c].at = "sending"}

CallsAreCounted == \A s \in Source : made[s] + Reserved(s) <= ws.calls[s]
RequestsAreCounted == sent + Cardinality(Sending) <= ws.requests

Questions == {ws.question, ws.answered, ws.resumed} \ {None}

(* An open question keeps both loops from their decisions: a resume leads to *)
(* _await_user and from there out of the loop.                               *)
QuestionIsHeld ==
  /\ \A q \in Questions : receipt[q].status = "completed"
  /\ OpenQuestion =>
       /\ ws.resumed # ws.question
       /\ pc["reviewer"] = "idle"
       /\ \/ pc["planner"] \in {"idle", "await", "closing"}
          \/ /\ pc["planner"] = "tools" /\ ws.status = "awaiting"
             /\ last["planner"] = {ws.question}

IInv ==
  /\ TypeOK
  /\ ControlInv
  /\ DataInv
  /\ CallsAreCounted
  /\ RequestsAreCounted
  /\ QuestionIsHeld

-----------------------------------------------------------------------------
(* What the helpers do *)

LEMMA SourceIsTwo == Source = {"planner", "reviewer"}
BY DEF Source

LEMMA GotoDoes ==
  ASSUME TypeOK, NEW s \in Source, NEW p, Goto(s, p)
  PROVE  /\ pc'[s] = p
         /\ \A x \in Source \ {s} : pc'[x] = pc[x]
         /\ pc' = [x \in Source |-> IF x = s THEN p ELSE pc[x]]
BY DEF Goto, TypeOK

LEMMA SetJobDoes ==
  ASSUME TypeOK, NEW c \in Call, NEW p, SetJob(c, p)
  PROVE  /\ job'[c].at = p /\ job'[c].seen = job[c].seen
         /\ \A d \in Call \ {c} : job'[d] = job[d]
BY DEF SetJob, TypeOK

LEMMA SettleDoes ==
  ASSUME TypeOK, NEW c \in Call, NEW st, NEW m \in BOOLEAN, Settle(c, st, m)
  PROVE  /\ receipt'[c].status = st /\ (receipt'[c].merged <=> m)
         /\ receipt'[c].tool = receipt[c].tool
         /\ \A d \in Call \ {c} : receipt'[d] = receipt[d]
         /\ job'[c] = NoJob /\ job'[c].at = "none"
         /\ \A d \in Call \ {c} : job'[d] = job[d]
<1> DEFINE r == [[receipt[c] EXCEPT !.status = st] EXCEPT !.merged = m]
<1>1. receipt[c] \in Receipt /\ receipt \in [Call -> Receipt] /\ DOMAIN job = Call
  BY DEF TypeOK
<1>2. r.status = st /\ (r.merged <=> m) /\ r.tool = receipt[c].tool
  BY <1>1 DEF Receipt
<1>3. receipt'[c] = r /\ \A d \in Call \ {c} : receipt'[d] = receipt[d]
  BY <1>1 DEF Settle
<1>4. job'[c] = NoJob /\ \A d \in Call \ {c} : job'[d] = job[d]
  BY <1>1 DEF Settle
<1> HIDE DEF r
<1> QED BY <1>2, <1>3, <1>4 DEF NoJob

-----------------------------------------------------------------------------
(* What a step does to the places, the batches and the receipts *)

(* A tool begins, waits for a request or comes back from it. *)
Goes(c) ==
  /\ UNCHANGED <<receipt, last, pc>>
  /\ \/ /\ job[c].at = "none" /\ job'[c].at = "working"
        /\ receipt[c].status = "pending"
        /\ \E s \in Source : c \in last[s] /\ pc[s] = "tools"
     \/ job[c].at = "working" /\ job'[c].at = "sending"
     \/ job[c].at = "sending" /\ job'[c].at = "working"

Calculates(c) ==
  /\ UNCHANGED <<last, pc>>
  /\ receipt[c].tool = "review" /\ receipt'[c].status = receipt[c].status
  /\ job[c].at = "working" /\ job'[c].at = "calculated"

Reviews(c) ==
  /\ UNCHANGED receipt
  /\ last'["planner"] = last["planner"] /\ last'["reviewer"] \in {last["reviewer"], {}}
  /\ pc["reviewer"] = "idle" /\ pc'["reviewer"] \in {"prepare", "decide"}
  /\ pc'["planner"] = pc["planner"]
  /\ job[c].at = "calculated" /\ job'[c].at = "reviewing"

(* A tool ends, a review perhaps with its reviewer. *)
Ends(c) ==
  /\ UNCHANGED last
  /\ receipt'[c].status \in {"completed", "failed"}
  /\ job[c].at # "none" /\ job'[c].at = "none"
  /\ \/ UNCHANGED pc /\ job[c].at \in {"working", "sending", "calculated"}
     \/ /\ job[c].at \in {"calculated", "reviewing"}
        /\ job[c].at = "reviewing" => pc["reviewer"] = "ended"
        /\ pc'["planner"] = pc["planner"] /\ pc'["reviewer"] = "idle"

ToolMove(c) ==
  /\ \A d \in Call \ {c} : receipt'[d] = receipt[d] /\ job'[d] = job[d]
  /\ receipt'[c].tool = receipt[c].tool
  /\ Goes(c) \/ Calculates(c) \/ Reviews(c) \/ Ends(c)

LEMMA ToolMoves ==
  ASSUME TypeOK, NEW c \in Call, ToolStep(c)
  PROVE  ToolMove(c)
<1> USE DEF ToolMove
<1>1. ASSUME NEW s \in Source, Begin(s, c)
      PROVE  ToolMove(c)
  BY <1>1 DEF Begin, Goes, MustRun, durable, TypeOK
<1>2. CASE Reserve(c)
  BY <1>2, SetJobDoes DEF Reserve, Goes
<1>3. CASE Send(c)
  BY <1>3, SetJobDoes DEF Send, Goes, durable
<1>4. ASSUME NEW st \in {"completed", "failed"}, NEW m \in BOOLEAN, Settle(c, st, m),
             UNCHANGED <<last, pc>>, job[c].at \in {"working", "sending", "calculated"}
      PROVE  ToolMove(c)
  BY <1>4, SettleDoes DEF Ends
<1>5. CASE ToolFails(c)
  <2>1. receipt[c].merged \in BOOLEAN
    BY DEF TypeOK, Receipt
  <2> QED BY <1>4, <1>5, <2>1 DEF ToolFails
<1>6. CASE QueryEnds(c) \/ WriteEnds(c) \/ CheckEnds(c) \/ SubmitEnds(c) \/ FinishEnds(c) \/ AskEnds(c)
  BY <1>4, <1>6 DEF QueryEnds, WriteEnds, CheckEnds, SubmitEnds, FinishEnds, AskEnds, Working
<1>7. CASE ReviewCalculates(c)
  <2>1. /\ job[c].at = "working" /\ receipt[c].tool = "review" /\ UNCHANGED <<last, pc>>
        /\ SetJob(c, "calculated")
    BY <1>7 DEF ReviewCalculates, Working
  <2>2. /\ receipt'[c].status = receipt[c].status /\ receipt'[c].tool = receipt[c].tool
        /\ \A d \in Call \ {c} : receipt'[d] = receipt[d]
    <3>1. CASE UNCHANGED receipt
      BY <3>1
    <3>2. ASSUME NEW found \in BOOLEAN, receipt' = [receipt EXCEPT ![c].merged = @ \/ found]
          PROVE  /\ receipt'[c].status = receipt[c].status /\ receipt'[c].tool = receipt[c].tool
                 /\ \A d \in Call \ {c} : receipt'[d] = receipt[d]
      BY <3>2 DEF TypeOK, Receipt
    <3> QED BY <1>7, <3>1, <3>2 DEF ReviewCalculates
  <2> QED BY <2>1, <2>2, SetJobDoes DEF Calculates
<1>8. CASE ReviewStarts(c)
  <2>1. /\ UNCHANGED receipt /\ pc["reviewer"] = "idle" /\ job[c].at = "calculated"
        /\ SetJob(c, "reviewing") /\ "reviewer" \in Source
        /\ Goto("reviewer", "prepare") \/ Goto("reviewer", "decide")
        /\ last'["planner"] = last["planner"] /\ last'["reviewer"] \in {last["reviewer"], {}}
    BY <1>8 DEF ReviewStarts, TypeOK, Source
  <2>2. pc'["reviewer"] \in {"prepare", "decide"} /\ pc'["planner"] = pc["planner"]
    BY <2>1, GotoDoes DEF Source
  <2> QED BY <2>1, <2>2, SetJobDoes DEF Reviews
<1>9. CASE ReviewEnds(c)
  <2>1. /\ UNCHANGED last /\ Goto("reviewer", "idle") /\ "reviewer" \in Source
        /\ job[c].at \in {"calculated", "reviewing"}
        /\ job[c].at = "reviewing" => pc["reviewer"] = "ended"
        /\ receipt[c].merged \in BOOLEAN
        /\ Settle(c, "completed", receipt[c].merged) \/ Settle(c, "failed", receipt[c].merged)
    BY <1>9 DEF ReviewEnds, TypeOK, Receipt, Source
  <2>2. pc'["reviewer"] = "idle" /\ pc'["planner"] = pc["planner"]
    BY <2>1, GotoDoes DEF Source
  <2> QED BY <2>1, <2>2, SettleDoes DEF Ends
<1> QED BY <1>1, <1>2, <1>3, <1>5, <1>6, <1>7, <1>8, <1>9 DEF ToolStep

(* A decision: asked for, made, refused or given up. *)
Decides(s) ==
  /\ UNCHANGED receipt
  /\ last'[s] \in {last[s], {}}
  /\ pc[s] \notin {"tools", "idle"} /\ pc'[s] \notin {"tools", "idle"}

Replies(s) ==
  /\ pc[s] = "asked" /\ pc'[s] = "prepare"
  /\ \E n \in Nat \ {0} :
       /\ last'[s] = Asked + 1..Asked + n /\ last'[s] \subseteq Call
       /\ \A c \in Call \ last'[s] : receipt'[c] = receipt[c]
       /\ \A c \in last'[s] : /\ receipt'[c].status \in {"pending", "failed"}
                              /\ ~receipt'[c].merged /\ receipt'[c].tool \in Tools(s)

Judges(s) ==
  /\ UNCHANGED last
  /\ pc[s] \notin {"tools", "idle"} /\ pc'[s] = "tools"
  /\ \A c \in Call \ last[s] : receipt'[c] = receipt[c]
  /\ \A c \in last[s] :
       /\ receipt'[c].tool = receipt[c].tool /\ (receipt'[c].merged <=> receipt[c].merged)
       /\ receipt'[c].status = receipt[c].status \/ receipt'[c].status \in {"failed", "repeated"}
       /\ receipt[c].status = "completed" => receipt'[c].status = "completed"
       /\ receipt'[c].status = "pending" => ~Refused([d \in last[s] |-> receipt[d].tool], Tools(s))

Observes(s) ==
  /\ UNCHANGED receipt
  /\ pc[s] = "tools" /\ pc'[s] \notin {"tools", "idle"}
  /\ last'[s] = {}
  /\ \A c \in last[s] : job[c].at = "none" /\ receipt[c].status # "pending"

LoopMove(s) ==
  /\ UNCHANGED job
  /\ \A x \in Source \ {s} : pc'[x] = pc[x] /\ last'[x] = last[x]
  /\ Decides(s) \/ Replies(s) \/ Judges(s) \/ Observes(s)

LEMMA ReplyMoves ==
  ASSUME TypeOK, NEW s \in Source, Reply(s)
  PROVE  LoopMove(s)
<1>1. PICK n \in Batches :
        LET B == Asked + 1..Asked + n IN
          /\ B \subseteq Call
          /\ \E tool \in [B -> Tools(s)], arg \in [B -> Arg] :
               receipt' = [c \in Call |->
                 IF c \notin B THEN receipt[c]
                 ELSE [NoReceipt EXCEPT
                         !.tool = tool[c], !.arg = arg[c], !.seen = Seen(ws),
                         !.refused = Refused(tool, Allowed(s)),
                         !.verdict = ws.review.by,
                         !.status = IF tool[c] \in Allowed(s) THEN "pending" ELSE "failed"]]
          /\ last' = [last EXCEPT ![s] = B]
  BY DEF Reply
<1> DEFINE B == Asked + 1..Asked + n
<1>2. n \in Nat \ {0} /\ B \subseteq Call /\ last'[s] = B
  <2>1. n \in Nat \ {0}
    BY Constants
  <2>2. B \subseteq Call /\ last' = [last EXCEPT ![s] = B]
    BY <1>1
  <2>3. s \in DOMAIN last
    BY DEF TypeOK
  <2> HIDE DEF B
  <2> QED BY <2>1, <2>2, <2>3
<1>3. PICK tool \in [B -> Tools(s)], arg \in [B -> Arg] :
        receipt' = [c \in Call |->
          IF c \notin B THEN receipt[c]
          ELSE [NoReceipt EXCEPT
                  !.tool = tool[c], !.arg = arg[c], !.seen = Seen(ws),
                  !.refused = Refused(tool, Allowed(s)),
                  !.verdict = ws.review.by,
                  !.status = IF tool[c] \in Allowed(s) THEN "pending" ELSE "failed"]]
  BY <1>1
<1>4. \A c \in Call \ B : receipt'[c] = receipt[c]
  BY <1>3
<1>5. ASSUME NEW c \in B
      PROVE  /\ receipt'[c].status \in {"pending", "failed"}
             /\ ~receipt'[c].merged /\ receipt'[c].tool \in Tools(s)
  <2> DEFINE r == [tool |-> tool[c], arg |-> arg[c],
                   status |-> IF tool[c] \in Allowed(s) THEN "pending" ELSE "failed",
                   refused |-> Refused(tool, Allowed(s)), merged |-> FALSE,
                   seen |-> Seen(ws), verdict |-> ws.review.by]
  <2>1. receipt'[c] = r
    BY <1>2, <1>3 DEF NoReceipt
  <2>2. r.status \in {"pending", "failed"} /\ ~r.merged /\ r.tool \in Tools(s)
    BY <1>3
  <2> QED BY <2>1, <2>2
<1>6. /\ UNCHANGED job /\ pc[s] = "asked" /\ pc'[s] = "prepare"
      /\ \A x \in Source \ {s} : pc'[x] = pc[x]
  BY GotoDoes DEF Reply
<1>7. \A x \in Source \ {s} : last'[x] = last[x]
  BY <1>1 DEF TypeOK
<1>8. Replies(s)
  BY <1>2, <1>4, <1>5, <1>6 DEF Replies
<1> QED BY <1>6, <1>7, <1>8 DEF LoopMove

LEMMA LoopMoves ==
  ASSUME TypeOK, NEW s \in Source, LoopStep(s)
  PROVE  LoopMove(s)
<1>1. ASSUME NEW p, Goto(s, p), p \notin {"tools", "idle"}, pc[s] \notin {"tools", "idle"},
             UNCHANGED <<receipt, job>>, last' = last \/ last' = [last EXCEPT ![s] = {}]
      PROVE  LoopMove(s)
  BY <1>1, GotoDoes DEF LoopMove, Decides, TypeOK
<1>2. CASE DecideNoMore(s) \/ ReserveCall(s) \/ AskModel(s) \/ ReplyNothing(s) \/ Malformed(s)
           \/ Unavailable(s)
  BY <1>1, <1>2
     DEF DecideNoMore, ReserveCall, AskModel, ReplyNothing, Malformed, Unavailable, End, durable
<1>3. CASE CountRound(s)
  BY <1>1, <1>3 DEF CountRound
<1>4. CASE Judge(s)
  <2> DEFINE B == last[s]
             new(c) == IF c \notin B \/ receipt[c].status = "completed" THEN receipt[c]
                       ELSE IF FailedBefore(c, B) THEN [receipt[c] EXCEPT !.status = "repeated"]
                       ELSE IF receipt[c].status = "pending"
                               /\ (OutOfRounds(s) \/ Refused([d \in B |-> receipt[d].tool], Tools(s)))
                       THEN [receipt[c] EXCEPT !.status = "failed"] ELSE receipt[c]
  <2>1. /\ receipt' = [c \in Call |-> new(c)]
        /\ pc[s] \in {"prepare", "judge"} /\ Goto(s, "tools") /\ UNCHANGED <<last, job>>
    BY <1>4 DEF Judge
  <2>2. ASSUME NEW c \in Call
        PROVE  /\ c \notin B => new(c) = receipt[c]
               /\ new(c).tool = receipt[c].tool /\ (new(c).merged <=> receipt[c].merged)
               /\ new(c).status = receipt[c].status \/ new(c).status \in {"failed", "repeated"}
               /\ receipt[c].status = "completed" => new(c).status = "completed"
               /\ c \in B /\ new(c).status = "pending" =>
                    ~Refused([d \in B |-> receipt[d].tool], Tools(s))
    <3>1. receipt[c] \in Receipt
      BY DEF TypeOK
    <3>2. /\ [receipt[c] EXCEPT !.status = "repeated"].tool = receipt[c].tool
          /\ [receipt[c] EXCEPT !.status = "failed"].tool = receipt[c].tool
          /\ ([receipt[c] EXCEPT !.status = "repeated"].merged <=> receipt[c].merged)
          /\ ([receipt[c] EXCEPT !.status = "failed"].merged <=> receipt[c].merged)
          /\ [receipt[c] EXCEPT !.status = "repeated"].status = "repeated"
          /\ [receipt[c] EXCEPT !.status = "failed"].status = "failed"
      BY <3>1 DEF Receipt
    <3> QED BY <3>2
  <2> HIDE DEF new
  <2>3. B \subseteq Call
    BY DEF TypeOK
  <2>4. Judges(s)
    BY <2>1, <2>2, <2>3, GotoDoes DEF Judges
  <2> QED BY <2>1, <2>4, GotoDoes DEF LoopMove
<1>5. CASE Observe(s)
  <2>1. /\ UNCHANGED <<receipt, job>> /\ pc[s] = "tools"
        /\ last' = [last EXCEPT ![s] = {}]
        /\ \A c \in last[s] : job[c].at = "none" /\ receipt[c].status # "pending"
        /\ \E p \in {"await", "closing", "ended", "decide"} : Goto(s, p)
    BY <1>5 DEF Observe, End
  <2>2. /\ last'[s] = {} /\ \A x \in Source \ {s} : last'[x] = last[x]
    BY <2>1 DEF TypeOK
  <2> QED BY <2>1, <2>2, GotoDoes DEF LoopMove, Observes
<1> QED BY <1>2, <1>3, <1>4, <1>5, ReplyMoves DEF LoopStep

(* A run starts or resumes, waits, is delivered or comes to its end. *)
RunMove ==
  /\ UNCHANGED receipt
  /\ \/ /\ UNCHANGED job
        /\ pc["planner"] \in {"idle", "await", "closing"}
        /\ pc'["planner"] \in {"idle", "await", "closing", "prepare", "decide"}
        /\ pc'["reviewer"] = pc["reviewer"]
        /\ last'["planner"] = last["planner"] /\ last'["reviewer"] \in {last["reviewer"], {}}
     \/ /\ UNCHANGED last /\ \A c \in Call : job'[c].at = "none"
        /\ pc'["planner"] \in {"idle", "closing"} /\ pc'["reviewer"] = "idle"
     \/ UNCHANGED <<job, pc, last>>

RunStep == Resume \/ Answer \/ AwaitUser \/ CloseEmpty \/ Publish \/ Crash \/ TimePasses \/ Deadline

LEMMA RunMoves ==
  ASSUME TypeOK, RunStep
  PROVE  RunMove
<1>s. "planner" \in Source /\ "reviewer" \in Source /\ "planner" # "reviewer"
  BY DEF Source
<1>1. ASSUME NEW p \in {"idle", "await", "closing", "prepare", "decide"}, Goto("planner", p),
             pc["planner"] \in {"idle", "await", "closing"}, UNCHANGED <<receipt, job>>,
             last' = last \/ StartSegment
      PROVE  RunMove
  <2>1. last'["planner"] = last["planner"] /\ last'["reviewer"] \in {last["reviewer"], {}}
    BY <1>1 DEF StartSegment, TypeOK, Source
  <2> QED BY <1>1, <1>s, <2>1, GotoDoes DEF RunMove
<1>r. \A w : Route(w) \in {"await", "prepare", "decide"}
  BY DEF Route
<1>2. CASE Resume
  BY <1>1, <1>2, <1>r DEF Resume, history
<1>3. CASE Answer
  BY <1>1, <1>3, <1>r DEF Answer
<1>4. CASE AwaitUser \/ CloseEmpty \/ Publish
  BY <1>1, <1>4 DEF AwaitUser, CloseEmpty, Publish
<1>5. CASE Crash \/ Deadline
  <2>1. UNCHANGED <<receipt, last>> /\ job' = [c \in Call |-> NoJob]
    BY <1>5 DEF Crash, Deadline, Stopped
  <2>2. pc'["planner"] \in {"idle", "closing"} /\ pc'["reviewer"] = "idle"
    BY <1>5, <1>s DEF Crash, Deadline, Stopped
  <2>3. \A c \in Call : job'[c].at = "none"
    BY <2>1 DEF NoJob
  <2> QED BY <2>1, <2>2, <2>3 DEF RunMove
<1>6. CASE TimePasses
  BY <1>6 DEF TimePasses, RunMove, durable, places
<1> QED BY <1>2, <1>3, <1>4, <1>5, <1>6 DEF RunStep

LEMMA Moves ==
  ASSUME TypeOK, [Next]_vars
  PROVE  \/ \E c \in Call : ToolStep(c) /\ ToolMove(c)
         \/ \E s \in Source : LoopStep(s) /\ LoopMove(s)
         \/ (RunStep \/ UNCHANGED vars) /\ RunMove
<1>1. CASE UNCHANGED vars
  BY <1>1 DEF RunMove, vars, durable, places
<1> QED BY <1>1, ToolMoves, LoopMoves, RunMoves DEF Next, Work, RunStep

-----------------------------------------------------------------------------
(* Who runs beside whom *)

LEMMA ReviewIsForPlanner == "review" \notin Tools("reviewer") /\ "ask" \notin Tools("reviewer")
                            /\ "write" \notin Tools("reviewer") /\ "finish" \notin Tools("reviewer")
BY DEF Tools

(* A tool that is no query is the only one at work.                          *)
LEMMA Alone ==
  ASSUME TypeOK, BatchesAreSound, JobsAreSound,
         NEW c \in Call, job[c].at \in {"working", "sending", "calculated"},
         receipt[c].tool # "query",
         NEW d \in Call, job[d].at \in {"working", "sending", "calculated"}
  PROVE  d = c
<1>1. PICK s \in Source : c \in last[s] /\ pc[s] = "tools"
  BY DEF JobsAreSound, Runs
<1>2. PICK x \in Source : d \in last[x] /\ pc[x] = "tools"
  BY DEF JobsAreSound, Runs
<1>3. last[s] = {c}
  BY <1>1 DEF BatchesAreSound, JobsAreSound, Runs
<1>4. CASE x = s
  BY <1>2, <1>3, <1>4
<1>5. CASE x # s
  <2>1. pc["reviewer"] = "tools"
    BY <1>1, <1>2, <1>5 DEF Source
  <2>2. PICK e \in last["planner"] : job[e].at = "reviewing" /\ pc["planner"] = "tools"
    BY <2>1 DEF JobsAreSound
  <2>3. e \in Call /\ receipt[e].tool = "review" /\ receipt[e].status = "pending"
    BY <2>2 DEF JobsAreSound, Runs, TypeOK, Source
  <2>4. last["planner"] = {e}
    BY <2>2, <2>3 DEF BatchesAreSound, Source
  <2>5. c = e \/ d = e
    BY <1>1, <1>2, <1>5, <2>4 DEF Source
  <2> QED BY <2>2, <2>5
<1> QED BY <1>4, <1>5

(* While the planner's review has not begun its reviewer there is none.      *)
LEMMA NoReviewerYet ==
  ASSUME TypeOK, BatchesAreSound, JobsAreSound,
         NEW c \in Call, c \in last["planner"], job[c].at \in {"working", "sending", "calculated"},
         receipt[c].tool # "query"
  PROVE  pc["reviewer"] = "idle" /\ pc["planner"] = "tools" /\ last["planner"] = {c}
<1>1. receipt[c].status = "pending"
  BY DEF JobsAreSound, Runs
<1>2. PICK s \in Source : c \in last[s] /\ pc[s] = "tools"
  BY DEF JobsAreSound, Runs
<1>3. s = "planner"
  BY <1>2 DEF BatchesAreSound, Source
<1>4. last["planner"] = {c}
  BY <1>1, <1>2, <1>3 DEF BatchesAreSound
<1>5. ASSUME pc["reviewer"] # "idle" PROVE FALSE
  BY <1>4, <1>5 DEF JobsAreSound
<1> QED BY <1>2, <1>3, <1>4, <1>5

-----------------------------------------------------------------------------
(* Control *)

LEMMA AskedIsLast ==
  ASSUME NEW k \in 0..MaxCalls, \A c \in Call : receipt[c].status # "none" <=> c <= k
  PROVE  Asked = k
<1>1. {c \in Call : receipt[c].status # "none"} = 1..k
  BY Constants DEF Call
<1>2. k \in Nat /\ Cardinality(1..k) = k
  BY FS_Interval, Constants
<1> QED BY <1>1, <1>2 DEF Asked

LEMMA ToolControl ==
  ASSUME TypeOK, ControlInv, NEW c \in Call, ToolMove(c)
  PROVE  ControlInv'
<1>1. /\ \A d \in Call \ {c} : receipt'[d] = receipt[d] /\ job'[d] = job[d]
      /\ receipt'[c].tool = receipt[c].tool
      /\ \A d \in Call : receipt'[d].tool = receipt[d].tool
      /\ Goes(c) \/ Calculates(c) \/ Reviews(c) \/ Ends(c)
  BY DEF ToolMove
<1>2. \A d \in Call : receipt'[d].status # "none" <=> receipt[d].status # "none"
  <2>1. job[c].at # "none" \/ receipt[c].status = "pending"
    BY <1>1 DEF Goes, Calculates, Reviews, Ends
  <2>2. receipt[c].status = "pending"
    BY <2>1 DEF ControlInv, JobsAreSound, Runs
  <2>3. receipt'[c].status # "none"
    BY <2>2, <1>1 DEF Goes, Calculates, Reviews, Ends
  <2> QED BY <1>1, <2>2, <2>3
<1>3. Numbered'
  BY <1>2 DEF ControlInv, Numbered
<1>4. ReceiptsAreSound'
  <2>1. receipt'[c].status # "pending" \/ receipt'[c].tool = "review" \/ receipt'[c] = receipt[c]
    BY <1>1 DEF Goes, Calculates, Reviews, Ends
  <2>2. receipt'[c].status # "none" \/ receipt'[c] = receipt[c]
    BY <1>1, <1>2 DEF Goes, Calculates, Reviews, Ends, ControlInv, JobsAreSound, Runs
  <2> QED BY <1>1, <2>1, <2>2 DEF ControlInv, ReceiptsAreSound
<1>5. /\ last'["planner"] = last["planner"] /\ last'["reviewer"] \in {last["reviewer"], {}}
      /\ pc'["planner"] = pc["planner"]
      /\ pc'["reviewer"] = "tools" => pc["reviewer"] = "tools"
  BY <1>1 DEF Goes, Calculates, Reviews, Ends
<1>p. \A d \in Call : receipt'[d].status = "pending" => receipt[d].status = "pending"
  BY <1>1 DEF Goes, Calculates, Reviews, Ends, ControlInv, JobsAreSound, Runs
<1>b. \A s \in Source : last[s] \subseteq Call
  BY DEF TypeOK
<1>6. BatchesAreSound'
  <2>1. \A s \in Source : last'[s] \subseteq last[s] /\ (last'[s] = last[s] \/ last'[s] = {})
        /\ (pc'[s] = "tools" => pc[s] = "tools")
    BY <1>5 DEF Source
  <2>2. \A s \in Source : \A d \in last'[s] :
          receipt'[d].status # "none" /\ receipt'[d].tool \in Tools(s)
    BY <1>1, <1>2, <1>b, <2>1 DEF ControlInv, BatchesAreSound
  <2>3. last'["planner"] \cap last'["reviewer"] = {}
    BY <1>5 DEF ControlInv, BatchesAreSound
  <2>4. ASSUME NEW s \in Source, pc'[s] = "tools", NEW d \in last'[s],
               receipt'[d].status = "pending", receipt'[d].tool # "query"
        PROVE  last'[s] = {d}
    BY <1>1, <1>b, <1>p, <2>1, <2>4 DEF ControlInv, BatchesAreSound
  <2> QED BY <2>2, <2>3, <2>4 DEF BatchesAreSound
<1>7. JobsAreSound'
  <2>1. ASSUME Goes(c) \/ Calculates(c) PROVE JobsAreSound'
    <3>1. UNCHANGED <<last, pc>> /\ job[c].at # "reviewing" /\ job'[c].at # "reviewing"
      BY <2>1 DEF Goes, Calculates
    <3>2. receipt'[c].status = "pending" /\ \E x \in Source : c \in last[x] /\ pc[x] = "tools"
      BY <2>1 DEF Goes, Calculates, ControlInv, JobsAreSound, Runs
    <3>3. \A d \in Call : Runs(d)' => /\ receipt'[d].status = "pending"
                                      /\ \E x \in Source : d \in last'[x] /\ pc'[x] = "tools"
      BY <1>1, <3>1, <3>2 DEF ControlInv, JobsAreSound, Runs
    <3>4. \A d \in Call : job'[d].at \in {"calculated", "reviewing"} => receipt'[d].tool = "review"
      BY <1>1, <2>1 DEF Goes, Calculates, ControlInv, JobsAreSound
    <3>5. ASSUME pc'["reviewer"] # "idle"
          PROVE  /\ pc'["planner"] = "tools"
                 /\ \E d \in last'["planner"] : job'[d].at = "reviewing"
      <4>1. PICK d \in last["planner"] : job[d].at = "reviewing" /\ pc["planner"] = "tools"
        BY <3>1, <3>5 DEF ControlInv, JobsAreSound
      <4>2. d # c /\ d \in Call
        BY <3>1, <4>1, <1>b DEF Source
      <4> QED BY <4>1, <4>2, <1>1, <3>1
    <3> QED BY <3>3, <3>4, <3>5 DEF JobsAreSound
  <2>3. ASSUME Reviews(c) PROVE JobsAreSound'
    <3>1. receipt[c].tool = "review" /\ receipt[c].status = "pending"
      BY <2>3 DEF Reviews, ControlInv, JobsAreSound, Runs
    <3>2. PICK s \in Source : c \in last[s] /\ pc[s] = "tools"
      BY <2>3 DEF Reviews, ControlInv, JobsAreSound, Runs
    <3>3. s = "planner"
      BY <3>1, <3>2, ReviewIsForPlanner DEF ControlInv, BatchesAreSound, Source
    <3>4. \A d \in Call : Runs(d)' =>
             receipt[d].status = "pending" /\ \E x \in Source : d \in last[x] /\ pc[x] = "tools"
      BY <1>1, <2>3 DEF Reviews, ControlInv, JobsAreSound, Runs
    <3>5. \A x \in Source : pc[x] = "tools" => x = "planner"
      BY <2>3 DEF Reviews, Source
    <3>6. \A d \in Call : Runs(d)' => /\ receipt'[d].status = "pending"
                                      /\ \E x \in Source : d \in last'[x] /\ pc'[x] = "tools"
      BY <2>3, <3>4, <3>5 DEF Reviews
    <3>7. \A d \in Call : job'[d].at \in {"calculated", "reviewing"} => receipt'[d].tool = "review"
      BY <1>1, <2>3, <3>1 DEF Reviews, ControlInv, JobsAreSound
    <3>8. pc'["planner"] = "tools" /\ c \in last'["planner"] /\ job'[c].at = "reviewing"
      BY <2>3, <3>2, <3>3 DEF Reviews
    <3> QED BY <3>6, <3>7, <3>8 DEF JobsAreSound
  <2>4. ASSUME Ends(c) PROVE JobsAreSound'
    <3>1. \A d \in Call : Runs(d)' => d # c /\ Runs(d)
      BY <1>1, <2>4 DEF Ends, Runs
    <3>2. \A d \in Call : job'[d].at \in {"calculated", "reviewing"} => receipt'[d].tool = "review"
      BY <1>1, <2>4 DEF Ends, ControlInv, JobsAreSound
    <3>3. CASE UNCHANGED pc /\ job[c].at \in {"working", "sending", "calculated"}
      <4>1. \A d \in Call : Runs(d)' => /\ receipt'[d].status = "pending"
                                        /\ \E x \in Source : d \in last'[x] /\ pc'[x] = "tools"
        BY <1>1, <2>4, <3>1, <3>3 DEF Ends, ControlInv, JobsAreSound
      <4>2. ASSUME pc'["reviewer"] # "idle"
            PROVE  /\ pc'["planner"] = "tools"
                   /\ \E d \in last'["planner"] : job'[d].at = "reviewing"
        <5>1. PICK d \in last["planner"] : job[d].at = "reviewing" /\ pc["planner"] = "tools"
          BY <3>3, <4>2 DEF ControlInv, JobsAreSound
        <5>2. d # c /\ d \in Call
          BY <3>3, <5>1, <1>b DEF Source
        <5> QED BY <5>1, <5>2, <1>1, <3>3, <2>4 DEF Ends
      <4> QED BY <3>2, <4>1, <4>2 DEF JobsAreSound
    <3>4. CASE /\ job[c].at \in {"calculated", "reviewing"}
               /\ job[c].at = "reviewing" => pc["reviewer"] = "ended"
               /\ pc'["planner"] = pc["planner"] /\ pc'["reviewer"] = "idle"
      <4>1. receipt[c].tool = "review" /\ receipt[c].status = "pending"
        BY <3>4 DEF ControlInv, JobsAreSound, Runs
      <4>2. PICK s \in Source : c \in last[s] /\ pc[s] = "tools"
        BY <3>4 DEF ControlInv, JobsAreSound, Runs
      <4>3. s = "planner" /\ last["planner"] = {c}
        BY <4>1, <4>2, ReviewIsForPlanner DEF ControlInv, BatchesAreSound, Source
      <4>4. pc["reviewer"] # "tools"
        BY <3>4, <4>3, <1>1 DEF ControlInv, JobsAreSound
      <4>5. \A d \in Call : ~Runs(d)'
        BY <3>1, <4>3, <4>4 DEF ControlInv, JobsAreSound, Source
      <4> QED BY <3>2, <3>4, <4>5 DEF JobsAreSound
    <3> QED BY <2>4, <3>3, <3>4 DEF Ends
  <2> QED BY <1>1, <2>1, <2>3, <2>4
<1> QED BY <1>3, <1>4, <1>6, <1>7 DEF ControlInv

LEMMA LoopControl ==
  ASSUME TypeOK, ControlInv, NEW s \in Source, LoopMove(s)
  PROVE  ControlInv'
<1>1. /\ UNCHANGED job
      /\ \A x \in Source \ {s} : pc'[x] = pc[x] /\ last'[x] = last[x]
      /\ Decides(s) \/ Replies(s) \/ Judges(s) \/ Observes(s)
  BY DEF LoopMove
<1>b. \A x \in Source : last[x] \subseteq Call
  BY DEF TypeOK
<1>i. pc[s] \notin {"idle"} /\ pc'[s] \notin {"idle"}
  BY <1>1 DEF Decides, Replies, Judges, Observes
(* No call of this source is at work, when it comes to its tools or leaves them. *)
<1>n. \A c \in last[s] : job[c].at = "none"
  <2>1. CASE pc[s] = "tools"
    BY <1>1, <2>1 DEF Decides, Replies, Judges, Observes
  <2>2. CASE pc[s] # "tools"
    <3>1. ASSUME NEW c \in last[s], Runs(c) PROVE FALSE
      <4>1. PICK x \in Source : c \in last[x] /\ pc[x] = "tools"
        BY <3>1, <1>b DEF ControlInv, JobsAreSound
      <4> QED BY <3>1, <4>1, <2>2 DEF ControlInv, BatchesAreSound, Source
    <3> QED BY <3>1 DEF Runs
  <2> QED BY <2>1, <2>2
<1>r. pc["reviewer"] # "idle" => s = "reviewer"
  BY <1>n DEF ControlInv, JobsAreSound, Source
<1>j. \A c \in Call : Runs(c) => \E x \in Source \ {s} : c \in last[x] /\ pc[x] = "tools"
  BY <1>n DEF ControlInv, JobsAreSound, Runs
<1>v. pc'["reviewer"] # "idle" => /\ pc'["planner"] = "tools"
                                 /\ \E c \in last'["planner"] : job'[c].at = "reviewing"
  <2> SUFFICES ASSUME pc'["reviewer"] # "idle"
               PROVE  /\ pc'["planner"] = "tools"
                      /\ \E c \in last'["planner"] : job'[c].at = "reviewing"
    OBVIOUS
  <2>1. s = "reviewer"
    BY <1>1, <1>r DEF Source
  <2>2. pc["reviewer"] # "idle" /\ pc'["planner"] = pc["planner"] /\ last'["planner"] = last["planner"]
    BY <1>1, <1>i, <2>1 DEF Source
  <2> QED BY <1>1, <2>2 DEF ControlInv, JobsAreSound
<1>2. CASE Decides(s) \/ Observes(s)
  <2>1. /\ UNCHANGED receipt /\ last'[s] \in {last[s], {}} /\ pc'[s] \notin {"tools", "idle"}
    BY <1>2 DEF Decides, Observes
  <2>2. Numbered' /\ ReceiptsAreSound'
    BY <2>1 DEF ControlInv, Numbered, ReceiptsAreSound
  <2>3. BatchesAreSound'
    <3>1. \A x \in Source : last'[x] \subseteq last[x] /\ (last'[x] = last[x] \/ last'[x] = {})
      BY <1>1, <2>1
    <3>2. \A x \in Source : \A c \in last'[x] :
            receipt[c].status # "none" /\ receipt[c].tool \in Tools(x)
      BY <3>1 DEF ControlInv, BatchesAreSound
    <3>3. last'["planner"] \cap last'["reviewer"] = {}
      BY <3>1 DEF ControlInv, BatchesAreSound, Source
    <3>4. \A x \in Source : pc'[x] = "tools" => pc[x] = "tools"
      BY <1>1, <2>1
    <3>5. \A x \in Source : pc'[x] = "tools" =>
            \A c \in last'[x] : receipt[c].status = "pending" /\ receipt[c].tool # "query" =>
              last'[x] = {c}
      BY <3>1, <3>4 DEF ControlInv, BatchesAreSound
    <3> QED BY <2>1, <3>2, <3>3, <3>5 DEF BatchesAreSound
  <2>4. JobsAreSound'
    <3>1. \A c \in Call : Runs(c) => /\ receipt[c].status = "pending"
                                     /\ \E x \in Source : c \in last'[x] /\ pc'[x] = "tools"
      BY <1>1, <1>j DEF ControlInv, JobsAreSound
    <3> QED BY <1>1, <1>v, <2>1, <3>1 DEF ControlInv, JobsAreSound, Runs
  <2> QED BY <2>2, <2>3, <2>4 DEF ControlInv
<1>3. CASE Judges(s)
  <2> DEFINE tools == [d \in last[s] |-> receipt[d].tool]
  <2>1. /\ UNCHANGED last /\ pc[s] # "tools" /\ pc'[s] = "tools"
        /\ \A c \in Call \ last[s] : receipt'[c] = receipt[c]
        /\ \A c \in last[s] :
             /\ receipt'[c].tool = receipt[c].tool /\ (receipt'[c].merged <=> receipt[c].merged)
             /\ receipt'[c].status = receipt[c].status \/ receipt'[c].status \in {"failed", "repeated"}
             /\ receipt'[c].status = "pending" => ~Refused(tools, Tools(s))
    BY <1>3 DEF Judges
  <2>2. \A c \in last[s] : receipt[c].status # "none" /\ receipt[c].tool \in Tools(s)
    BY DEF ControlInv, BatchesAreSound
  <2>3. \A c \in Call : /\ receipt'[c].tool = receipt[c].tool
                        /\ receipt'[c].merged <=> receipt[c].merged
                        /\ receipt'[c].status # "none" <=> receipt[c].status # "none"
                        /\ receipt'[c].status = "pending" => receipt[c].status = "pending"
    BY <2>1, <2>2
  <2>4. Numbered' /\ ReceiptsAreSound'
    BY <2>3 DEF ControlInv, Numbered, ReceiptsAreSound
  <2>5. BatchesAreSound'
    <3>1. \A x \in Source : \A c \in last[x] :
            receipt'[c].status # "none" /\ receipt'[c].tool \in Tools(x)
      BY <1>b, <2>3 DEF ControlInv, BatchesAreSound
    <3>2. ASSUME NEW c \in last[s], receipt'[c].status = "pending", receipt'[c].tool # "query"
          PROVE  last[s] = {c}
      <4>1. ~Refused(tools, Tools(s)) /\ DOMAIN tools = last[s] /\ tools[c] \in Tools(s) \ {"query"}
        BY <2>1, <2>2, <3>2
      <4>2. ~(Cardinality(last[s]) > 1)
        <5> HIDE DEF tools
        <5> QED BY <4>1 DEF Refused
      <4>3. IsFiniteSet(Call) /\ last[s] \in SUBSET Call
        BY <1>b, FS_Interval, Constants DEF Call
      <4>4. IsFiniteSet(last[s]) /\ Cardinality(last[s]) \in Nat
        BY <4>3, FS_Subset, FS_CardinalityType
      <4>5. Cardinality(last[s]) # 0
        BY <4>4, FS_EmptySet
      <4>6. Cardinality(last[s]) = 1
        BY <4>2, <4>4, <4>5
      <4>7. \E e : last[s] = {e}
        BY <4>4, <4>6, FS_Singleton
      <4> QED BY <4>7
    <3>3. ASSUME NEW x \in Source \ {s}, pc'[x] = "tools", NEW c \in last[x],
                 receipt'[c].status = "pending", receipt'[c].tool # "query"
          PROVE  last[x] = {c}
      <4>1. pc[x] = "tools" /\ c \in Call
        BY <1>1, <1>b, <3>3
      <4> QED BY <2>3, <3>3, <4>1 DEF ControlInv, BatchesAreSound
    <3> QED BY <2>1, <3>1, <3>2, <3>3 DEF ControlInv, BatchesAreSound
  <2>6. JobsAreSound'
    <3>1. ASSUME NEW c \in Call, Runs(c)
          PROVE  /\ receipt'[c].status = "pending"
                 /\ \E x \in Source : c \in last[x] /\ pc'[x] = "tools"
      <4>1. c \notin last[s]
        BY <3>1, <1>n DEF Runs
      <4>2. receipt'[c] = receipt[c]
        BY <2>1, <4>1
      <4> QED BY <3>1, <4>2, <1>1, <1>j DEF ControlInv, JobsAreSound
    <3>2. \A c \in Call : job[c].at \in {"calculated", "reviewing"} => receipt'[c].tool = "review"
      BY <2>3 DEF ControlInv, JobsAreSound
    <3> QED BY <1>1, <1>v, <2>1, <3>1, <3>2 DEF JobsAreSound, Runs
  <2> QED BY <2>4, <2>5, <2>6 DEF ControlInv
<1>4. CASE Replies(s)
  <2>1. PICK n \in Nat \ {0} :
          /\ last'[s] = Asked + 1..Asked + n /\ last'[s] \subseteq Call
          /\ \A c \in Call \ last'[s] : receipt'[c] = receipt[c]
          /\ \A c \in last'[s] : /\ receipt'[c].status \in {"pending", "failed"}
                                 /\ ~receipt'[c].merged /\ receipt'[c].tool \in Tools(s)
    BY <1>4 DEF Replies
  <2>p. pc[s] # "tools" /\ pc'[s] = "prepare"
    BY <1>4 DEF Replies
  <2>2. PICK k \in 0..MaxCalls : \A c \in Call : receipt[c].status # "none" <=> c <= k
    BY DEF ControlInv, Numbered
  <2>3. Asked = k /\ k \in Nat
    BY <2>2, AskedIsLast, Constants
  <2>4. last'[s] = (k + 1)..(k + n) /\ k + n \in 0..MaxCalls
    <3>1. last'[s] = (k + 1)..(k + n)
      BY <2>1, <2>3
    <3>2. k + n \in Call
      BY <2>1, <2>3, <3>1
    <3> QED BY <3>1, <3>2, Constants DEF Call
  <2>5. \A c \in last'[s] : receipt[c].status = "none"
    BY <2>1, <2>2, <2>3, <2>4 DEF Call
  <2>6. \A c \in Call : receipt'[c].status # "none" <=> c <= k + n
    <3>1. ASSUME NEW c \in last'[s] PROVE receipt'[c].status # "none" /\ c <= k + n
      <4>1. c \in (k + 1)..(k + n)
        BY <2>4
      <4>2. c <= k + n
        BY <4>1, <2>3
      <4> QED BY <2>1, <4>2
    <3>2. ASSUME NEW c \in Call \ last'[s] PROVE receipt'[c].status # "none" <=> c <= k + n
      <4>1. receipt'[c] = receipt[c] /\ (receipt[c].status # "none" <=> c <= k)
        BY <2>1, <2>2
      <4>2. c \in Nat /\ ~(k + 1 <= c /\ c <= k + n)
        BY <2>3, <2>4 DEF Call
      <4>3. c <= k <=> c <= k + n
        BY <4>2, <2>3
      <4> QED BY <4>1, <4>3
    <3> QED BY <2>1, <3>1, <3>2
  <2>7. Numbered'
    BY <2>4, <2>6 DEF Numbered
  <2>8. ReceiptsAreSound'
    BY <2>1 DEF ControlInv, ReceiptsAreSound
  <2>9. \A x \in Source \ {s} : \A c \in last[x] :
          c \in Call \ last'[s] /\ receipt'[c] = receipt[c]
    BY <1>b, <2>1, <2>5 DEF ControlInv, BatchesAreSound
  <2>10. BatchesAreSound'
    <3>1. \A x \in Source : \A c \in last'[x] :
            receipt'[c].status # "none" /\ receipt'[c].tool \in Tools(x)
      BY <1>1, <2>1, <2>9 DEF ControlInv, BatchesAreSound
    <3>2. last'["planner"] \cap last'["reviewer"] = {}
      BY <1>1, <2>9 DEF Source
    <3>3. \A x \in Source : pc'[x] = "tools" =>
            \A c \in last'[x] : receipt'[c].status = "pending" /\ receipt'[c].tool # "query" =>
              last'[x] = {c}
      BY <1>1, <2>p, <2>9 DEF ControlInv, BatchesAreSound
    <3> QED BY <3>1, <3>2, <3>3 DEF BatchesAreSound
  <2>11. JobsAreSound'
    <3>1. \A c \in Call : Runs(c) => receipt'[c] = receipt[c]
      BY <1>j, <2>9
    <3>2. \A c \in Call : Runs(c) => /\ receipt'[c].status = "pending"
                                     /\ \E x \in Source : c \in last'[x] /\ pc'[x] = "tools"
      BY <1>1, <1>j, <3>1 DEF ControlInv, JobsAreSound
    <3>3. \A c \in Call : job[c].at \in {"calculated", "reviewing"} => receipt'[c].tool = "review"
      BY <3>1 DEF ControlInv, JobsAreSound, Runs
    <3> QED BY <1>1, <1>v, <3>2, <3>3 DEF JobsAreSound, Runs
  <2> QED BY <2>7, <2>8, <2>10, <2>11 DEF ControlInv
<1> QED BY <1>1, <1>2, <1>3, <1>4

LEMMA RunControl ==
  ASSUME TypeOK, ControlInv, RunMove
  PROVE  ControlInv'
<1>1. Numbered' /\ ReceiptsAreSound'
  BY DEF RunMove, ControlInv, Numbered, ReceiptsAreSound
<1>2. /\ last'["planner"] = last["planner"] /\ last'["reviewer"] \in {last["reviewer"], {}}
      /\ UNCHANGED receipt
  BY DEF RunMove
<1>3. CASE /\ UNCHANGED job
           /\ pc["planner"] \in {"idle", "await", "closing"}
           /\ pc'["planner"] \in {"idle", "await", "closing", "prepare", "decide"}
           /\ pc'["reviewer"] = pc["reviewer"]
  <2>1. pc["reviewer"] = "idle" /\ pc["planner"] # "tools"
    BY <1>3 DEF ControlInv, JobsAreSound
  <2>2. \A c \in Call : ~Runs(c)
    BY <2>1 DEF ControlInv, JobsAreSound, Source
  <2>3. JobsAreSound'
    BY <1>3, <2>1, <2>2 DEF ControlInv, JobsAreSound, Runs
  <2>4. BatchesAreSound'
    BY <1>2, <1>3, <2>1 DEF ControlInv, BatchesAreSound, Source
  <2> QED BY <1>1, <2>3, <2>4 DEF ControlInv
<1>4. CASE /\ UNCHANGED last /\ \A c \in Call : job'[c].at = "none"
           /\ pc'["planner"] \in {"idle", "closing"} /\ pc'["reviewer"] = "idle"
  <2>1. JobsAreSound'
    BY <1>4 DEF JobsAreSound, Runs
  <2>2. BatchesAreSound'
    BY <1>2, <1>4 DEF ControlInv, BatchesAreSound, Source
  <2> QED BY <1>1, <2>1, <2>2 DEF ControlInv
<1>5. CASE UNCHANGED <<job, pc, last>>
  BY <1>1, <1>2, <1>5 DEF ControlInv, BatchesAreSound, JobsAreSound, Runs
<1> QED BY <1>3, <1>4, <1>5 DEF RunMove

LEMMA ControlStep ==
  ASSUME TypeOK, ControlInv, [Next]_vars
  PROVE  ControlInv'
BY Moves, ToolControl, LoopControl, RunControl

-----------------------------------------------------------------------------
(* Draft, facts and calculation *)

(* The calls that left something in the workspace. *)
Effect(t) == {c \in Call : receipt[c].tool = t /\ receipt[c].merged}

LEMMA EffectsAre ==
  EffectsMatchReceipts <=>
    /\ \A i, j \in DOMAIN ws.draft : ws.draft[i] = ws.draft[j] => i = j
    /\ {ws.draft[i] : i \in DOMAIN ws.draft} = Effect("write")
    /\ ws.facts = Effect("query") \cup Effect("check") \cup Effect("review")
BY DEF EffectsMatchReceipts, Effect

SameDraft == ws'.draft = ws.draft /\ ws'.facts = ws.facts

(* The calculation is kept, dropped or made anew. *)
Recalculated ==
  \/ ws'.calc = ws.calc \/ ws'.calc = NoCalc
  \/ ws'.calc.draft = ws'.draft /\ ws'.calc.facts = ws'.facts

LEMMA Recalculation ==
  ASSUME CalculationIsCurrent, SameDraft \/ (ws'.calc = NoCalc)
                               \/ (ws'.calc.draft = ws'.draft /\ ws'.calc.facts = ws'.facts),
         Recalculated
  PROVE  CalculationIsCurrent'
BY DEF CalculationIsCurrent, HasCalc, SameDraft, Recalculated

LEMMA LoopData ==
  ASSUME TypeOK, NEW s \in Source, LoopStep(s)
  PROVE  SameDraft /\ ws'.calc = ws.calc
<1>t. ws \in Workspace
  BY DEF TypeOK
<1>1. CASE UNCHANGED ws
  BY <1>1 DEF SameDraft
<1>2. ASSUME NEW why, ws' = [ws EXCEPT !.stop = why]
      PROVE  SameDraft /\ ws'.calc = ws.calc
  BY <1>2, <1>t DEF SameDraft, Workspace
<1>3. CASE ws' = [ws EXCEPT !.calls[s] = @ + 1]
  BY <1>3, <1>t DEF SameDraft, Workspace
<1>4. ASSUME NEW n, NEW b, ws' = [ws EXCEPT !.rounds = n, !.counted = b]
      PROVE  SameDraft /\ ws'.calc = ws.calc
  BY <1>4, <1>t DEF SameDraft, Workspace
<1>5. ASSUME NEW b, ws' = [ws EXCEPT !.counted = b]
      PROVE  SameDraft /\ ws'.calc = ws.calc
  BY <1>5, <1>t DEF SameDraft, Workspace
<1>6. CASE Reply(s)
  BY <1>5, <1>6 DEF Reply
<1>7. CASE CountRound(s)
  BY <1>1, <1>4, <1>7 DEF CountRound
<1>8. CASE Observe(s)
  BY <1>1, <1>2, <1>8 DEF Observe, StopAs
<1> QED
  BY <1>1, <1>2, <1>3, <1>6, <1>7, <1>8
     DEF LoopStep, DecideNoMore, ReserveCall, AskModel, ReplyNothing, Malformed, Unavailable,
         Judge, StopAs, durable

LEMMA NewSegmentDoes ==
  ASSUME NEW w \in Workspace
  PROVE  /\ NewSegment(w).draft = w.draft /\ NewSegment(w).facts = w.facts
         /\ NewSegment(w).calc = w.calc /\ NewSegment(w).status = w.status
         /\ NewSegment(w).question = w.question /\ NewSegment(w).answered = w.answered
         /\ NewSegment(w).resumed = w.resumed
         /\ NewSegment(w).calls = [s \in Source |-> 0] /\ NewSegment(w).requests = 0
         /\ NewSegment(w) \in Workspace
<1>1. /\ NoReview \in [by : Call \cup {None}, draft : Seq(Call), facts : SUBSET Call,
                       calc : Calculation, accepted : BOOLEAN]
  BY EmptySeq DEF NoReview, NoCalc, Calculation
<1>2. 0 \in 0..QueryRounds /\ 0 \in 0..MaxRequests /\ 0 \in 0..MaxRevisions
  BY Constants
<1>3. [s \in Source |-> 0] \in [Source -> Nat]
  OBVIOUS
<1> QED BY <1>1, <1>2, <1>3 DEF NewSegment, Workspace

(* What a resume, or an answer, leaves of the workspace.                     *)
Renewed ==
  /\ ws'.calls = [s \in Source |-> 0] /\ ws'.requests = 0
  /\ made' = [s \in Source |-> 0] /\ sent' = 0

Continued == ws'.calls = ws.calls /\ ws'.requests = ws.requests /\ UNCHANGED history

SameQuestion == ws'.question = ws.question /\ ws'.answered = ws.answered /\ ws'.resumed = ws.resumed

LEMMA ResumeDoes ==
  ASSUME TypeOK, Resume
  PROVE  /\ ws' \in Workspace
         /\ SameDraft /\ ws'.calc = ws.calc /\ SameQuestion
         /\ Renewed \/ Continued
         /\ OpenQuestion /\ ws.resumed # ws.question => pc'["planner"] \in {"await", "closing"}
<1>t. ws \in Workspace /\ ws.review \in [by : Call \cup {None}, draft : Seq(Call), facts : SUBSET Call,
                                         calc : Calculation, accepted : BOOLEAN]
  BY DEF TypeOK, Workspace
<1> DEFINE w == IF Exhausted(ws) THEN [NewSegment(ws) EXCEPT !.review = ws.review] ELSE ws
<1>1. /\ w \in Workspace
      /\ w.draft = ws.draft /\ w.facts = ws.facts /\ w.calc = ws.calc
      /\ w.question = ws.question /\ w.answered = ws.answered /\ w.resumed = ws.resumed
      /\ Exhausted(ws) => w.calls = [s \in Source |-> 0] /\ w.requests = 0
      /\ ~Exhausted(ws) => w.calls = ws.calls /\ w.requests = ws.requests
  <2>1. CASE Exhausted(ws)
    <3>1. NewSegment(ws) \in Workspace /\ w = [NewSegment(ws) EXCEPT !.review = ws.review]
      BY <1>t, <2>1, NewSegmentDoes
    <3>2. /\ w \in Workspace
          /\ w.draft = NewSegment(ws).draft /\ w.facts = NewSegment(ws).facts
          /\ w.calc = NewSegment(ws).calc /\ w.question = NewSegment(ws).question
          /\ w.answered = NewSegment(ws).answered /\ w.resumed = NewSegment(ws).resumed
          /\ w.calls = NewSegment(ws).calls /\ w.requests = NewSegment(ws).requests
      <4> HIDE DEF w
      <4> QED BY <1>t, <3>1 DEF Workspace
    <3> HIDE DEF w
    <3> QED BY <1>t, <2>1, <3>2, NewSegmentDoes
  <2>2. CASE ~Exhausted(ws)
    BY <1>t, <2>2
  <2> QED BY <2>1, <2>2
<1>2. /\ \/ ws' = [w EXCEPT !.status = "planning"] /\ Goto("planner", "closing")
         \/ ws' = Recovered(w) /\ Goto("planner", Route(w))
      /\ IF Exhausted(ws) THEN StartSegment ELSE UNCHANGED <<last, late, history>>
  BY DEF Resume
<1> HIDE DEF w
<1>3. /\ ws' \in Workspace
      /\ ws'.draft = w.draft /\ ws'.facts = w.facts /\ ws'.calc = w.calc
      /\ ws'.question = w.question /\ ws'.answered = w.answered /\ ws'.resumed = w.resumed
      /\ ws'.calls = w.calls /\ ws'.requests = w.requests
  <2>1. CASE ws' = [w EXCEPT !.status = "planning"]
    BY <1>1, <2>1 DEF Workspace
  <2>2. CASE ws' = Recovered(w)
    BY <1>1, <2>2 DEF Recovered, Workspace
  <2> QED BY <1>2, <2>1, <2>2
<1>4. Renewed \/ Continued
  BY <1>1, <1>2, <1>3 DEF Renewed, Continued, StartSegment
<1>5. OpenQuestion /\ ws.resumed # ws.question => pc'["planner"] \in {"await", "closing"}
  <2>1. OpenQuestion /\ ws.resumed # ws.question => Route(w) = "await"
    BY <1>1 DEF OpenQuestion, Route
  <2>2. "planner" \in Source
    BY DEF Source
  <2> QED BY <1>2, <2>1, <2>2, GotoDoes
<1> QED BY <1>1, <1>3, <1>4, <1>5 DEF SameDraft, SameQuestion

LEMMA AnswerDoes ==
  ASSUME TypeOK, Answer
  PROVE  /\ ws' \in Workspace
         /\ SameDraft /\ ws'.calc = NoCalc
         /\ ws'.question = ws.question /\ ws'.answered = ws.question /\ ws'.resumed = ws.resumed
         /\ Renewed
<1>t. ws \in Workspace
  BY DEF TypeOK
<1>n. NoCalc \in Calculation
  BY EmptySeq DEF NoCalc, Calculation
<1> DEFINE w == NewSegment(ws)
<1>1. ws' = [w EXCEPT !.status = "planning", !.answered = ws.question, !.calc = NoCalc]
      /\ StartSegment
  BY DEF Answer
<1>2. /\ w \in Workspace /\ w.draft = ws.draft /\ w.facts = ws.facts
      /\ w.question = ws.question /\ w.resumed = ws.resumed
      /\ w.calls = [s \in Source |-> 0] /\ w.requests = 0
  BY <1>t, NewSegmentDoes
<1> HIDE DEF w
<1>3. /\ ws' \in Workspace
      /\ ws'.draft = w.draft /\ ws'.facts = w.facts /\ ws'.calc = NoCalc
      /\ ws'.question = w.question /\ ws'.answered = ws.question /\ ws'.resumed = w.resumed
      /\ ws'.calls = w.calls /\ ws'.requests = w.requests
  BY <1>1, <1>2, <1>t, <1>n DEF Workspace
<1> QED BY <1>1, <1>2, <1>3 DEF SameDraft, Renewed, StartSegment

LEMMA PublishDoes ==
  ASSUME TypeOK, Publish
  PROVE  /\ ws' \in Workspace /\ SameDraft
         /\ ws'.calc.draft = ws.draft /\ ws'.calc.facts = ws.facts
         /\ SameQuestion /\ Continued
<1>t. ws \in Workspace
  BY DEF TypeOK
<1>1. PICK ok \in BOOLEAN :
        LET w == [ws EXCEPT !.calc = [draft |-> ws.draft, facts |-> ws.facts, ok |-> ok]] IN
        ws' = [w EXCEPT !.status = "ready"]
  BY DEF Publish
<1> DEFINE n == [draft |-> ws.draft, facts |-> ws.facts, ok |-> ok]
           w == [ws EXCEPT !.calc = n]
<1>2. n \in Calculation /\ n.draft = ws.draft /\ n.facts = ws.facts
  BY <1>t DEF Calculation, Workspace
<1>3. ws' = [w EXCEPT !.status = "ready"]
  BY <1>1
<1> HIDE DEF n
<1>4. w \in Workspace /\ w = [ws EXCEPT !.calc = n]
  BY <1>2, <1>t DEF Workspace
<1>5. /\ w.draft = ws.draft /\ w.facts = ws.facts /\ w.calc = n
      /\ w.question = ws.question /\ w.answered = ws.answered /\ w.resumed = ws.resumed
      /\ w.calls = ws.calls /\ w.requests = ws.requests
  BY <1>t DEF Workspace
<1> HIDE DEF w
<1>6. /\ ws' \in Workspace
      /\ ws'.draft = w.draft /\ ws'.facts = w.facts /\ ws'.calc = w.calc
      /\ ws'.question = w.question /\ ws'.answered = w.answered /\ ws'.resumed = w.resumed
      /\ ws'.calls = w.calls /\ ws'.requests = w.requests
  BY <1>3, <1>4 DEF Workspace
<1>7. UNCHANGED history
  BY DEF Publish
<1> QED BY <1>2, <1>5, <1>6, <1>7 DEF SameDraft, SameQuestion, Continued

LEMMA RunDoes ==
  ASSUME TypeOK, RunStep
  PROVE  /\ ws' \in Workspace
         /\ SameDraft /\ Recalculated
         /\ Continued \/ (Renewed /\ (Resume \/ Answer))
<1>t. ws \in Workspace
  BY DEF TypeOK
<1>1. CASE Resume
  BY <1>1, ResumeDoes DEF Recalculated
<1>2. CASE Answer
  BY <1>2, AnswerDoes DEF Recalculated
<1>3. CASE Publish
  BY <1>3, PublishDoes DEF Recalculated, SameDraft
<1>4. ASSUME NEW st \in {"awaiting", "failed"}, ws' = [ws EXCEPT !.status = st], UNCHANGED history
      PROVE  ws' \in Workspace /\ SameDraft /\ Recalculated /\ Continued
  BY <1>4, <1>t DEF SameDraft, Recalculated, Continued, Workspace
<1>5. CASE UNCHANGED <<ws, history>>
  BY <1>5, <1>t DEF SameDraft, Recalculated, Continued
<1>6. CASE AwaitUser
  <2>1. ASSUME ws' = [ws EXCEPT !.resumed = ws.question], UNCHANGED history
        PROVE  ws' \in Workspace /\ SameDraft /\ Recalculated /\ Continued
    BY <2>1, <1>t DEF SameDraft, Recalculated, Continued, Workspace
  <2> QED BY <1>5, <1>6, <2>1 DEF AwaitUser
<1>7. CASE Deadline
  <2>1. ws' = [ws EXCEPT !.stop = "exhausted"] /\ UNCHANGED history
    BY <1>7 DEF Deadline
  <2> QED BY <2>1, <1>t DEF SameDraft, Recalculated, Continued, Workspace
<1>8. CASE CloseEmpty
  BY <1>4, <1>8 DEF CloseEmpty
<1>9. CASE Crash
  BY <1>4, <1>5, <1>9 DEF Crash
<1>10. CASE TimePasses
  BY <1>5, <1>10 DEF TimePasses, durable
<1> QED BY <1>1, <1>2, <1>3, <1>6, <1>7, <1>8, <1>9, <1>10 DEF RunStep

-----------------------------------------------------------------------------
(* What a tool does to the workspace *)

(* The parts of the workspace only the loops and the questions change. *)
SameCounts == ws'.calls = ws.calls /\ ws'.requests = ws.requests
Aside == SameCounts /\ SameQuestion

LEMMA SeenIsTyped ==
  ASSUME TypeOK, NEW c \in Call
  PROVE  /\ ws \in Workspace /\ Seen(ws) \in View
         /\ job[c].seen \in View /\ job[c].seen.draft \in Seq(Call)
         /\ job[c].seen.facts \in SUBSET Call /\ job[c].seen.calc \in Calculation
<1>1. ws \in Workspace /\ job[c] \in [at : {"none", "working", "sending", "calculated", "reviewing"},
                                      seen : View]
  BY DEF TypeOK
<1>2. Seen(ws) \in View
  BY <1>1 DEF Seen, View, Workspace
<1>3. job[c].seen \in View
  BY <1>1
<1> QED BY <1>1, <1>2, <1>3 DEF View

LEMMA CalculatedDoes ==
  ASSUME TypeOK, NEW c \in Call, NEW found \in BOOLEAN, NEW ok \in BOOLEAN,
         ws' = Calculated(c, found, ok)
  PROVE  /\ ws' \in Workspace /\ Aside /\ ws'.status = ws.status
         /\ ws'.draft = job[c].seen.draft
         /\ ws'.facts = IF found THEN job[c].seen.facts \cup {c} ELSE job[c].seen.facts
         /\ ws'.calc.draft = ws'.draft /\ ws'.calc.facts = ws'.facts
<1> DEFINE r == job[c].seen
           f == IF found THEN r.facts \cup {c} ELSE r.facts
           n == [draft |-> r.draft, facts |-> f, ok |-> ok]
<1>1. ws \in Workspace /\ r.draft \in Seq(Call) /\ r.facts \in SUBSET Call
  BY SeenIsTyped
<1>2. f \in SUBSET Call
  BY <1>1
<1>3. ws' = [ws EXCEPT !.draft = r.draft, !.facts = f, !.calc = n]
  BY DEF Calculated
<1> HIDE DEF r, f
<1>4. n \in Calculation /\ n.draft = r.draft /\ n.facts = f
  BY <1>1, <1>2 DEF Calculation
<1> HIDE DEF n
<1>5. /\ ws' \in Workspace /\ Aside /\ ws'.status = ws.status
      /\ ws'.draft = r.draft /\ ws'.facts = f /\ ws'.calc = n
  BY <1>1, <1>2, <1>3, <1>4 DEF Workspace, Aside, SameCounts, SameQuestion
<1> QED BY <1>4, <1>5 DEF f, r

LEMMA MergedDoes ==
  ASSUME TypeOK, NEW c \in Call, ws' = Merged(c)
  PROVE  /\ ws' \in Workspace /\ Aside
         /\ ws'.draft = ws.draft /\ ws'.facts = ws.facts \cup {c} /\ ws'.calc = NoCalc
<1>1. ws \in Workspace /\ ws.facts \cup {c} \in SUBSET Call
  BY DEF TypeOK, Workspace
<1>2. NoCalc \in Calculation
  BY EmptySeq DEF NoCalc, Calculation
<1> QED BY <1>1, <1>2 DEF Merged, Workspace, Aside, SameCounts, SameQuestion

LEMMA WriteDoes ==
  ASSUME TypeOK, NEW c \in Call, WriteEnds(c)
  PROVE  /\ ws' \in Workspace /\ Aside
         /\ ws'.draft = Append(ws.draft, c) /\ ws'.facts = ws.facts /\ ws'.calc = NoCalc
<1>1. ws \in Workspace /\ Append(ws.draft, c) \in Seq(Call)
  <2>1. ws \in Workspace /\ ws.draft \in Seq(Call)
    BY DEF TypeOK, Workspace
  <2> QED BY <2>1, AppendProperties
<1>2. NoCalc \in Calculation
  BY EmptySeq DEF NoCalc, Calculation
<1>3. NoReview \in [by : Call \cup {None}, draft : Seq(Call), facts : SUBSET Call,
                    calc : Calculation, accepted : BOOLEAN]
  BY <1>2, EmptySeq DEF NoReview
<1> DEFINE n == IF HasDraft(ws) THEN ws.revisions + 1 ELSE ws.revisions
<1>4. n \in 0..MaxRevisions
  <2>1. ws.revisions \in 0..MaxRevisions /\ (HasDraft(ws) => ws.revisions < MaxRevisions)
    BY <1>1 DEF WriteEnds, Workspace
  <2> QED BY <2>1, Constants
<1>5. ws' = [ws EXCEPT !.draft = Append(ws.draft, c), !.calc = NoCalc, !.review = NoReview,
                       !.status = "planning", !.revisions = n]
  BY DEF WriteEnds
<1> HIDE DEF n
<1> QED BY <1>1, <1>2, <1>3, <1>4, <1>5 DEF Workspace, Aside, SameCounts, SameQuestion

LEMMA ReadAgainDoes ==
  ASSUME TypeOK, NEW c \in Call,
         ws' = [ws EXCEPT !.draft = job[c].seen.draft, !.facts = job[c].seen.facts,
                          !.calc = job[c].seen.calc]
  PROVE  /\ ws' \in Workspace /\ Aside /\ ws'.status = ws.status
         /\ ws'.draft = job[c].seen.draft /\ ws'.facts = job[c].seen.facts
         /\ ws'.calc = job[c].seen.calc
<1>1. /\ ws \in Workspace /\ job[c].seen.draft \in Seq(Call)
      /\ job[c].seen.facts \in SUBSET Call /\ job[c].seen.calc \in Calculation
  BY SeenIsTyped
<1> DEFINE r == job[c].seen
<1> HIDE DEF r
<1> QED BY <1>1 DEF Workspace, Aside, SameCounts, SameQuestion

LEMMA SubmitDoes ==
  ASSUME TypeOK, NEW c \in Call, SubmitEnds(c)
  PROVE  /\ ws' \in Workspace /\ Aside
         /\ SameDraft /\ ws'.calc = ws.calc
<1>1. ws \in Workspace
  BY DEF TypeOK
<1>2. PICK accepted \in BOOLEAN :
        ws' = [ws EXCEPT !.review = [by |-> c, draft |-> ws.draft, facts |-> ws.facts,
                                     calc |-> ws.calc, accepted |-> accepted],
                         !.reviewing = FALSE]
  BY DEF SubmitEnds
<1> DEFINE n == [by |-> c, draft |-> ws.draft, facts |-> ws.facts,
                 calc |-> ws.calc, accepted |-> accepted]
<1>3. n \in [by : Call \cup {None}, draft : Seq(Call), facts : SUBSET Call,
             calc : Calculation, accepted : BOOLEAN]
  BY <1>1 DEF Workspace
<1>4. ws' = [ws EXCEPT !.review = n, !.reviewing = FALSE]
  BY <1>2
<1> HIDE DEF n
<1> QED BY <1>1, <1>3, <1>4 DEF Workspace, Aside, SameCounts, SameQuestion, SameDraft

LEMMA FinishDoes ==
  ASSUME TypeOK, NEW c \in Call, FinishEnds(c)
  PROVE  /\ ws' \in Workspace /\ Aside
         /\ ws'.draft = job[c].seen.draft /\ ws'.facts = job[c].seen.facts
         /\ ws'.calc.draft = ws'.draft /\ ws'.calc.facts = ws'.facts
<1> DEFINE r == job[c].seen
<1>1. PICK ok \in BOOLEAN : ws' = [Calculated(c, FALSE, ok) EXCEPT !.status = "ready"]
  BY DEF FinishEnds
<1> DEFINE n == [draft |-> r.draft, facts |-> r.facts, ok |-> ok]
           w == [ws EXCEPT !.draft = r.draft, !.facts = r.facts, !.calc = n]
<1>2. ws \in Workspace /\ r.draft \in Seq(Call) /\ r.facts \in SUBSET Call
  BY SeenIsTyped
<1>3. ws' = [w EXCEPT !.status = "ready"]
  BY <1>1 DEF Calculated
<1> HIDE DEF r
<1>4. n \in Calculation /\ n.draft = r.draft /\ n.facts = r.facts
  BY <1>2 DEF Calculation
<1> HIDE DEF n
<1>5. /\ w \in Workspace
      /\ w.draft = r.draft /\ w.facts = r.facts /\ w.calc = n
      /\ w.question = ws.question /\ w.answered = ws.answered /\ w.resumed = ws.resumed
      /\ w.calls = ws.calls /\ w.requests = ws.requests
  BY <1>2, <1>4 DEF Workspace
<1> HIDE DEF w
<1>6. /\ ws' \in Workspace
      /\ ws'.draft = w.draft /\ ws'.facts = w.facts /\ ws'.calc = w.calc
      /\ ws'.question = w.question /\ ws'.answered = w.answered /\ ws'.resumed = w.resumed
      /\ ws'.calls = w.calls /\ ws'.requests = w.requests
  BY <1>3, <1>5 DEF Workspace
<1> QED BY <1>4, <1>5, <1>6 DEF Aside, SameCounts, SameQuestion, r

-----------------------------------------------------------------------------
(* Data *)

Writes == {"query", "write", "check", "review"}
Reading(c) == job[c].at \in {"working", "sending"}

SameEffects == \A t \in Writes : Effect(t)' = Effect(t)

(* Steps that change nothing of draft and facts. *)
LEMMA KeepsData ==
  ASSUME TypeOK, DataInv, SameDraft, Recalculated, SameEffects,
         \A d \in Call : Reading(d)' =>
           \/ Reading(d) /\ job'[d].seen = job[d].seen /\ receipt'[d].tool = receipt[d].tool
           \/ job'[d].seen = Seen(ws)
  PROVE  DataInv'
<1>1. EffectsMatchReceipts'
  <2>1. /\ \A i, j \in DOMAIN ws.draft : ws.draft[i] = ws.draft[j] => i = j
        /\ {ws.draft[i] : i \in DOMAIN ws.draft} = Effect("write")
        /\ ws.facts = Effect("query") \cup Effect("check") \cup Effect("review")
    BY EffectsAre DEF DataInv
  <2>2. ws'.draft = ws.draft /\ ws'.facts = ws.facts
    BY DEF SameDraft
  <2>3. /\ Effect("write")' = Effect("write") /\ Effect("query")' = Effect("query")
        /\ Effect("check")' = Effect("check") /\ Effect("review")' = Effect("review")
    BY DEF SameEffects, Writes
  <2>4. EffectsMatchReceipts' <=>
          /\ \A i, j \in DOMAIN ws'.draft : ws'.draft[i] = ws'.draft[j] => i = j
          /\ {ws'.draft[i] : i \in DOMAIN ws'.draft} = Effect("write")'
          /\ ws'.facts = Effect("query")' \cup Effect("check")' \cup Effect("review")'
    BY DEF EffectsMatchReceipts, Effect
  <2> HIDE DEF Effect
  <2> QED BY <2>1, <2>2, <2>3, <2>4
<1>2. CalculationIsCurrent'
  BY Recalculation DEF DataInv
<1>3. ASSUME NEW d \in Call, Reading(d)'
      PROVE  /\ job'[d].seen.calc # NoCalc =>
                  /\ job'[d].seen.calc.draft = job'[d].seen.draft
                  /\ job'[d].seen.calc.facts = job'[d].seen.facts
             /\ receipt'[d].tool # "query" =>
                  job'[d].seen.draft = ws'.draft /\ job'[d].seen.facts = ws'.facts
  <2>1. CASE Reading(d) /\ job'[d].seen = job[d].seen /\ receipt'[d].tool = receipt[d].tool
    BY <2>1 DEF DataInv, ReadsAreCurrent, Reading, SameDraft
  <2>2. CASE job'[d].seen = Seen(ws)
    BY <2>2 DEF DataInv, CalculationIsCurrent, HasCalc, SameDraft, Seen
  <2> QED BY <1>3, <2>1, <2>2
<1>4. ReadsAreCurrent'
  BY <1>3 DEF ReadsAreCurrent, Reading
<1> QED BY <1>1, <1>2, <1>4 DEF DataInv

(* A tool ends that is no query: nobody else has read what it changes.       *)
LEMMA WriterReads ==
  ASSUME TypeOK, ControlInv, NEW c \in Call, job[c].at = "working",
         receipt[c].tool # "query", ~Reading(c)',
         \A d \in Call \ {c} : job'[d] = job[d]
  PROVE  ReadsAreCurrent'
<1>1. \A d \in Call : ~Reading(d)'
  BY Alone DEF ControlInv, Reading
<1> QED BY <1>1 DEF ReadsAreCurrent, Reading

(* A query ends: nobody else but queries has read what it changes.           *)
LEMMA QueryReads ==
  ASSUME TypeOK, ControlInv, DataInv, NEW c \in Call, job[c].at = "working",
         ~Reading(c)',
         \A d \in Call \ {c} : job'[d] = job[d] /\ receipt'[d] = receipt[d]
  PROVE  ReadsAreCurrent'
<1> SUFFICES ASSUME NEW d \in Call \ {c}, Reading(d)
             PROVE  /\ job[d].seen.calc # NoCalc =>
                         /\ job[d].seen.calc.draft = job[d].seen.draft
                         /\ job[d].seen.calc.facts = job[d].seen.facts
                    /\ ~(receipt[d].tool # "query")
  BY DEF ReadsAreCurrent, Reading
<1>1. ~(receipt[d].tool # "query")
  BY Alone DEF ControlInv, Reading
<1> QED BY <1>1 DEF DataInv, ReadsAreCurrent, Reading

(* The end of a calculation made from what its tool has read.                *)
LEMMA CalculationData ==
  ASSUME TypeOK, ControlInv, DataInv, NEW c \in Call, NEW found \in BOOLEAN,
         job[c].at = "working", receipt[c].tool \in {"check", "review", "finish"},
         found => receipt[c].tool # "finish",
         ~Reading(c)', \A d \in Call \ {c} : job'[d] = job[d] /\ receipt'[d] = receipt[d],
         receipt'[c].tool = receipt[c].tool,
         receipt'[c].merged <=> (receipt[c].merged \/ found),
         ws'.draft = job[c].seen.draft,
         ws'.facts = IF found THEN job[c].seen.facts \cup {c} ELSE job[c].seen.facts
  PROVE  EffectsMatchReceipts' /\ ReadsAreCurrent'
<1>1. job[c].seen.draft = ws.draft /\ job[c].seen.facts = ws.facts
  BY DEF DataInv, ReadsAreCurrent
<1>2. /\ \A i, j \in DOMAIN ws.draft : ws.draft[i] = ws.draft[j] => i = j
      /\ {ws.draft[i] : i \in DOMAIN ws.draft} = Effect("write")
      /\ ws.facts = Effect("query") \cup Effect("check") \cup Effect("review")
  BY EffectsAre DEF DataInv
<1>3. Effect("write")' = Effect("write") /\ Effect("query")' = Effect("query")
  BY DEF Effect
<1>4. (Effect("check") \cup Effect("review"))' =
        IF found THEN Effect("check") \cup Effect("review") \cup {c}
        ELSE Effect("check") \cup Effect("review")
  BY DEF Effect
<1>5. EffectsMatchReceipts' <=>
        /\ \A i, j \in DOMAIN ws'.draft : ws'.draft[i] = ws'.draft[j] => i = j
        /\ {ws'.draft[i] : i \in DOMAIN ws'.draft} = Effect("write")'
        /\ ws'.facts = Effect("query")' \cup Effect("check")' \cup Effect("review")'
  BY DEF EffectsMatchReceipts, Effect
<1>6. EffectsMatchReceipts'
  <2>1. ws'.facts = Effect("query")' \cup (Effect("check") \cup Effect("review"))'
    BY <1>1, <1>2, <1>3, <1>4
  <2>2. ws'.facts = Effect("query")' \cup Effect("check")' \cup Effect("review")'
    BY <2>1
  <2> QED BY <1>1, <1>2, <1>3, <1>5, <2>2
<1>7. ReadsAreCurrent'
  BY WriterReads
<1> QED BY <1>6, <1>7

LEMMA SettledReads ==
  ASSUME TypeOK, NEW c \in Call, NEW st, NEW m \in BOOLEAN, Settle(c, st, m)
  PROVE  ~Reading(c)'
BY SettleDoes DEF Reading

(* A tool ends and leaves nothing it had not left before.                    *)
LEMMA SettledKeeps ==
  ASSUME TypeOK, DataInv, NEW c \in Call, NEW st, NEW m \in BOOLEAN, Settle(c, st, m),
         (m <=> receipt[c].merged) \/ receipt[c].tool \notin Writes,
         SameDraft, Recalculated
  PROVE  DataInv'
<1>1. SameEffects
  BY SettleDoes DEF SameEffects, Effect
<1>2. \A d \in Call : Reading(d)' => d # c
  BY SettledReads
<1>3. \A d \in Call : Reading(d)' => Reading(d) /\ job'[d].seen = job[d].seen
                                     /\ receipt'[d].tool = receipt[d].tool
  BY <1>2, SettleDoes DEF Reading
<1> QED BY <1>1, <1>3, KeepsData

LEMMA ToolData ==
  ASSUME TypeOK, ControlInv, DataInv, NEW c \in Call, ToolStep(c)
  PROVE  DataInv' /\ ws' \in Workspace
<1>t. ws \in Workspace /\ receipt[c].merged \in BOOLEAN
  BY DEF TypeOK, Receipt
<1>m. ASSUME job[c].at = "working", receipt[c].tool # "review" PROVE ~receipt[c].merged
  BY <1>m DEF ControlInv, JobsAreSound, ReceiptsAreSound, Runs
<1>1. ASSUME NEW s \in Source, Begin(s, c) PROVE DataInv' /\ ws' \in Workspace
  <2>1. SameDraft /\ Recalculated /\ SameEffects /\ UNCHANGED <<ws, receipt>>
    BY <1>1 DEF Begin, durable, SameDraft, Recalculated, SameEffects, Effect
  <2>2. \A d \in Call : job'[d] = job[d] \/ job'[d].seen = Seen(ws)
    BY <1>1 DEF Begin, TypeOK
  <2> QED BY <1>t, <2>1, <2>2, KeepsData DEF Reading
<1>2. CASE Reserve(c)
  <2>1. ws' = [ws EXCEPT !.requests = @ + 1] /\ ws.requests + 1 \in 0..MaxRequests
    BY <1>2, <1>t, Constants DEF Reserve, MayReserve, Workspace
  <2>2. ws' \in Workspace /\ SameDraft /\ ws'.calc = ws.calc
    BY <1>t, <2>1 DEF Workspace, SameDraft
  <2>3. Recalculated /\ SameEffects /\ UNCHANGED receipt
    BY <1>2, <2>2 DEF Reserve, Recalculated, SameEffects, Effect
  <2>4. \A d \in Call : Reading(d)' => Reading(d) /\ job'[d].seen = job[d].seen
    BY <1>2, SetJobDoes DEF Reserve, Reading
  <2> QED BY <2>2, <2>3, <2>4, KeepsData
<1>3. CASE Send(c)
  <2>1. SameDraft /\ Recalculated /\ SameEffects /\ UNCHANGED <<ws, receipt>>
    BY <1>3 DEF Send, durable, SameDraft, Recalculated, SameEffects, Effect
  <2>2. \A d \in Call : Reading(d)' => Reading(d) /\ job'[d].seen = job[d].seen
    BY <1>3, SetJobDoes DEF Send, Reading
  <2> QED BY <1>t, <2>1, <2>2, KeepsData
<1>4. CASE ToolFails(c)
  <2>1. SameDraft /\ Recalculated /\ UNCHANGED ws
    BY <1>4 DEF ToolFails, SameDraft, Recalculated
  <2> QED BY <1>4, <1>t, <2>1, SettledKeeps DEF ToolFails
<1>5. CASE QueryEnds(c)
  <2>0. Working(c, "query") /\ ~receipt[c].merged
    BY <1>5, <1>m DEF QueryEnds, Working
  <2>1. ASSUME NEW st \in {"completed", "failed"}, Settle(c, st, TRUE), ws' = Merged(c)
        PROVE  DataInv' /\ ws' \in Workspace
    <3>1. /\ ws' \in Workspace
          /\ ws'.draft = ws.draft /\ ws'.facts = ws.facts \cup {c} /\ ws'.calc = NoCalc
      BY <2>1, MergedDoes
    <3>2. /\ receipt'[c].merged /\ receipt'[c].tool = receipt[c].tool
          /\ \A d \in Call \ {c} : receipt'[d] = receipt[d] /\ job'[d] = job[d]
      BY <2>1, SettleDoes
    <3>3. /\ \A i, j \in DOMAIN ws.draft : ws.draft[i] = ws.draft[j] => i = j
          /\ {ws.draft[i] : i \in DOMAIN ws.draft} = Effect("write")
          /\ ws.facts = Effect("query") \cup Effect("check") \cup Effect("review")
      BY EffectsAre DEF DataInv
    <3>4. /\ Effect("write")' = Effect("write") /\ Effect("query")' = Effect("query") \cup {c}
          /\ Effect("check")' = Effect("check") /\ Effect("review")' = Effect("review")
      BY <2>0, <3>2 DEF Effect, Working
    <3>5. EffectsMatchReceipts'
      <4>1. ws'.facts = Effect("query")' \cup Effect("check")' \cup Effect("review")'
        BY <3>1, <3>3, <3>4
      <4>2. {ws'.draft[i] : i \in DOMAIN ws'.draft} = Effect("write")'
        BY <3>1, <3>3, <3>4
      <4>3. \A i, j \in DOMAIN ws'.draft : ws'.draft[i] = ws'.draft[j] => i = j
        BY <3>1, <3>3
      <4> QED BY <4>1, <4>2, <4>3 DEF EffectsMatchReceipts, Effect
    <3>6. CalculationIsCurrent'
      BY <3>1 DEF CalculationIsCurrent, HasCalc
    <3>7. ReadsAreCurrent'
      BY <2>0, <2>1, <3>2, SettledReads, QueryReads DEF Working
    <3> QED BY <3>1, <3>5, <3>6, <3>7 DEF DataInv
  <2>2. ASSUME Settle(c, "completed", FALSE), UNCHANGED ws
        PROVE  DataInv' /\ ws' \in Workspace
    <3>1. SameDraft /\ Recalculated
      BY <2>2 DEF SameDraft, Recalculated
    <3> QED BY <1>t, <2>0, <2>2, <3>1, SettledKeeps
  <2> QED BY <1>5, <2>1, <2>2 DEF QueryEnds
<1>6. CASE WriteEnds(c)
  <2>0. Working(c, "write") /\ ~receipt[c].merged /\ Settle(c, "completed", TRUE)
    BY <1>6, <1>m DEF WriteEnds, Working
  <2>1. /\ ws' \in Workspace
        /\ ws'.draft = Append(ws.draft, c) /\ ws'.facts = ws.facts /\ ws'.calc = NoCalc
    BY <1>6, WriteDoes
  <2>2. /\ receipt'[c].merged /\ receipt'[c].tool = receipt[c].tool
        /\ \A d \in Call \ {c} : receipt'[d] = receipt[d] /\ job'[d] = job[d]
    BY <2>0, SettleDoes
  <2>3. /\ \A i, j \in DOMAIN ws.draft : ws.draft[i] = ws.draft[j] => i = j
        /\ {ws.draft[i] : i \in DOMAIN ws.draft} = Effect("write")
        /\ ws.facts = Effect("query") \cup Effect("check") \cup Effect("review")
    BY EffectsAre DEF DataInv
  <2>4. /\ Effect("write")' = Effect("write") \cup {c} /\ Effect("query")' = Effect("query")
        /\ Effect("check")' = Effect("check") /\ Effect("review")' = Effect("review")
        /\ c \notin Effect("write")
    BY <2>0, <2>2 DEF Effect, Working
  <2>5. EffectsMatchReceipts'
    <3> DEFINE n == Len(ws.draft)
    <3>1. /\ n \in Nat /\ DOMAIN ws.draft = 1..n /\ DOMAIN ws'.draft = 1..(n + 1)
          /\ \A i \in 1..n : ws'.draft[i] = ws.draft[i]
          /\ ws'.draft[n + 1] = c
      <4>1. ws.draft \in Seq(Call)
        BY <1>t DEF Workspace
      <4> QED BY <4>1, <2>1, AppendProperties, LenProperties
    <3>2. ASSUME NEW i \in 1..n PROVE ws'.draft[i] # c
      BY <2>3, <2>4, <3>1
    <3>3. ASSUME NEW i \in 1..(n + 1), NEW j \in 1..(n + 1), ws'.draft[i] = ws'.draft[j]
          PROVE  i = j
      <4>1. (i \in 1..n \/ i = n + 1) /\ (j \in 1..n \/ j = n + 1)
        BY <3>1
      <4>2. CASE i \in 1..n /\ j \in 1..n
        <5>1. ws.draft[i] = ws.draft[j] /\ i \in DOMAIN ws.draft /\ j \in DOMAIN ws.draft
          BY <3>1, <3>3, <4>2
        <5> QED BY <2>3, <5>1
      <4>3. CASE i = n + 1 \/ j = n + 1
        BY <3>1, <3>2, <3>3, <4>1, <4>3
      <4> QED BY <4>1, <4>2, <4>3
    <3>4. {ws'.draft[i] : i \in 1..(n + 1)} = {ws.draft[i] : i \in 1..n} \cup {c}
      <4>1. 1..(n + 1) = 1..n \cup {n + 1}
        BY <3>1
      <4> QED BY <3>1, <4>1
    <3>5. {ws'.draft[i] : i \in DOMAIN ws'.draft} = Effect("write")'
      BY <2>3, <2>4, <3>1, <3>4
    <3>6. ws'.facts = Effect("query")' \cup Effect("check")' \cup Effect("review")'
      BY <2>1, <2>3, <2>4
    <3> QED BY <3>1, <3>3, <3>5, <3>6 DEF EffectsMatchReceipts, Effect
  <2>6. CalculationIsCurrent'
    BY <2>1 DEF CalculationIsCurrent, HasCalc
  <2>7. ReadsAreCurrent'
    BY <2>0, <2>2, SettledReads, WriterReads DEF Working
  <2> QED BY <2>1, <2>5, <2>6, <2>7 DEF DataInv
<1>7. ASSUME NEW found \in BOOLEAN, NEW ok \in BOOLEAN, ws' = Calculated(c, found, ok),
             job[c].at = "working", receipt[c].tool \in {"check", "review"},
             ~Reading(c)', \A d \in Call \ {c} : job'[d] = job[d] /\ receipt'[d] = receipt[d],
             receipt'[c].tool = receipt[c].tool,
             receipt'[c].merged <=> (receipt[c].merged \/ found)
      PROVE  DataInv' /\ ws' \in Workspace
  <2>1. /\ ws' \in Workspace
        /\ ws'.draft = job[c].seen.draft
        /\ ws'.facts = IF found THEN job[c].seen.facts \cup {c} ELSE job[c].seen.facts
        /\ ws'.calc.draft = ws'.draft /\ ws'.calc.facts = ws'.facts
    BY <1>7, CalculatedDoes
  <2>2. EffectsMatchReceipts' /\ ReadsAreCurrent'
    BY <1>7, <2>1, CalculationData
  <2>3. CalculationIsCurrent'
    BY <2>1 DEF CalculationIsCurrent
  <2> QED BY <2>1, <2>2, <2>3 DEF DataInv
<1>8. CASE CheckEnds(c)
  <2>0. job[c].at = "working" /\ receipt[c].tool = "check" /\ ~receipt[c].merged
    BY <1>8, <1>m DEF CheckEnds, Working
  <2>1. ASSUME NEW found \in BOOLEAN, NEW ok \in BOOLEAN, ws' = Calculated(c, found, ok),
               Settle(c, "completed", found)
        PROVE  DataInv' /\ ws' \in Workspace
    BY <1>7, <2>0, <2>1, SettleDoes, SettledReads
  <2>2. ASSUME ws' = [ws EXCEPT !.draft = job[c].seen.draft, !.facts = job[c].seen.facts,
                                !.calc = job[c].seen.calc],
               job[c].seen.calc # NoCalc, Settle(c, "completed", FALSE)
        PROVE  DataInv' /\ ws' \in Workspace
    <3>1. /\ ws' \in Workspace
          /\ ws'.draft = job[c].seen.draft /\ ws'.facts = job[c].seen.facts
          /\ ws'.calc = job[c].seen.calc
      BY <2>2, ReadAgainDoes
    <3>2. /\ job[c].seen.draft = ws.draft /\ job[c].seen.facts = ws.facts
          /\ job[c].seen.calc.draft = ws.draft /\ job[c].seen.calc.facts = ws.facts
      BY <2>0, <2>2 DEF DataInv, ReadsAreCurrent
    <3>3. SameDraft /\ Recalculated
      BY <3>1, <3>2 DEF SameDraft, Recalculated
    <3> QED BY <2>0, <2>2, <3>1, <3>3, SettledKeeps
  <2> QED BY <1>8, <2>1, <2>2 DEF CheckEnds
<1>9. CASE ReviewCalculates(c)
  <2>0. job[c].at = "working" /\ receipt[c].tool = "review" /\ SetJob(c, "calculated")
    BY <1>9 DEF ReviewCalculates, Working
  <2>1. ~Reading(c)' /\ \A d \in Call \ {c} : job'[d] = job[d]
    BY <2>0, SetJobDoes DEF Reading
  <2>2. ASSUME NEW found \in BOOLEAN, NEW ok \in BOOLEAN, ws' = Calculated(c, found, ok),
               receipt' = [receipt EXCEPT ![c].merged = @ \/ found]
        PROVE  DataInv' /\ ws' \in Workspace
    <3>1. /\ \A d \in Call \ {c} : receipt'[d] = receipt[d]
          /\ receipt'[c].tool = receipt[c].tool
          /\ receipt'[c].merged <=> (receipt[c].merged \/ found)
      BY <2>2 DEF TypeOK, Receipt
    <3> QED BY <1>7, <2>0, <2>1, <2>2, <3>1
  <2>3. ASSUME UNCHANGED <<ws, receipt>>
        PROVE  DataInv' /\ ws' \in Workspace
    <3>1. SameDraft /\ Recalculated /\ SameEffects
      BY <2>3 DEF SameDraft, Recalculated, SameEffects, Effect
    <3> QED BY <1>t, <2>1, <2>3, <3>1, KeepsData DEF Reading
  <2> QED BY <1>9, <2>2, <2>3 DEF ReviewCalculates
<1>10. CASE ReviewStarts(c)
  <2>1. /\ UNCHANGED receipt /\ SetJob(c, "reviewing")
        /\ \/ UNCHANGED ws
           \/ ws' = [ws EXCEPT !.reviewing = TRUE, !.calls["reviewer"] = 0, !.rounds = 0,
                               !.counted = FALSE, !.review = NoReview]
    BY <1>10 DEF ReviewStarts
  <2>2. ws' \in Workspace /\ SameDraft /\ ws'.calc = ws.calc
    <3>1. NoReview \in [by : Call \cup {None}, draft : Seq(Call), facts : SUBSET Call,
                        calc : Calculation, accepted : BOOLEAN]
      BY EmptySeq DEF NoReview, NoCalc, Calculation
    <3>2. 0 \in 0..QueryRounds
      BY Constants
    <3> DEFINE k == [ws.calls EXCEPT !["reviewer"] = 0]
               v == NoReview
    <3>3. k \in [Source -> Nat]
      BY <1>t DEF Workspace
    <3>4. \/ UNCHANGED ws
          \/ ws' = [ws EXCEPT !.reviewing = TRUE, !.calls = k, !.rounds = 0, !.counted = FALSE,
                              !.review = v]
      BY <2>1
    <3>5. CASE UNCHANGED ws
      BY <1>t, <3>5 DEF SameDraft
    <3>6. CASE ws' = [ws EXCEPT !.reviewing = TRUE, !.calls = k, !.rounds = 0, !.counted = FALSE,
                                !.review = v]
      <4>1. v \in [by : Call \cup {None}, draft : Seq(Call), facts : SUBSET Call,
                   calc : Calculation, accepted : BOOLEAN]
        BY <3>1
      <4> HIDE DEF k, v
      <4> QED BY <1>t, <4>1, <3>2, <3>3, <3>6 DEF Workspace, SameDraft
    <3> QED BY <3>4, <3>5, <3>6
  <2>3. Recalculated /\ SameEffects
    BY <2>1, <2>2 DEF Recalculated, SameEffects, Effect
  <2>4. \A d \in Call : Reading(d)' => Reading(d) /\ job'[d].seen = job[d].seen
    BY <2>1, SetJobDoes DEF Reading
  <2> QED BY <2>1, <2>2, <2>3, <2>4, KeepsData
<1>11. CASE ReviewEnds(c)
  <2>1. SameDraft /\ Recalculated /\ UNCHANGED ws
    BY <1>11 DEF ReviewEnds, SameDraft, Recalculated
  <2> QED BY <1>11, <1>t, <2>1, SettledKeeps DEF ReviewEnds
<1>12. CASE SubmitEnds(c)
  <2>1. Settle(c, "completed", FALSE) /\ receipt[c].tool \notin Writes
    BY <1>12 DEF SubmitEnds, Working, Writes
  <2>2. ws' \in Workspace /\ SameDraft /\ Recalculated
    BY <1>12, SubmitDoes DEF Recalculated
  <2> QED BY <2>1, <2>2, SettledKeeps
<1>13. CASE FinishEnds(c)
  <2>1. Settle(c, "completed", FALSE) /\ receipt[c].tool \notin Writes
        /\ job[c].at = "working" /\ receipt[c].tool # "query"
    BY <1>13 DEF FinishEnds, Working, Writes
  <2>2. /\ ws' \in Workspace
        /\ ws'.draft = job[c].seen.draft /\ ws'.facts = job[c].seen.facts
        /\ ws'.calc.draft = ws'.draft /\ ws'.calc.facts = ws'.facts
    BY <1>13, FinishDoes
  <2>3. SameDraft /\ Recalculated
    BY <2>1, <2>2 DEF SameDraft, Recalculated, DataInv, ReadsAreCurrent
  <2> QED BY <2>1, <2>2, <2>3, SettledKeeps
<1>14. CASE AskEnds(c)
  <2>1. Settle(c, "completed", FALSE) /\ receipt[c].tool \notin Writes
        /\ ws' = [ws EXCEPT !.status = "awaiting", !.question = c]
    BY <1>14 DEF AskEnds, Working, Writes
  <2>2. ws' \in Workspace /\ SameDraft /\ Recalculated
    BY <1>t, <2>1 DEF Workspace, SameDraft, Recalculated
  <2> QED BY <2>1, <2>2, SettledKeeps
<1> QED
  BY <1>1, <1>2, <1>3, <1>4, <1>5, <1>6, <1>8, <1>9, <1>10, <1>11, <1>12, <1>13, <1>14 DEF ToolStep

LEMMA ReplyIsFresh ==
  ASSUME TypeOK, Numbered, NEW s \in Source, Replies(s)
  PROVE  \A c \in last'[s] : c \in Call /\ receipt[c].status = "none"
<1>1. PICK n \in Nat \ {0} : last'[s] = Asked + 1..Asked + n /\ last'[s] \subseteq Call
  BY DEF Replies
<1>2. PICK k \in 0..MaxCalls : \A c \in Call : receipt[c].status # "none" <=> c <= k
  BY DEF Numbered
<1>3. Asked = k /\ k \in Nat
  BY <1>2, AskedIsLast, Constants
<1>4. ASSUME NEW c \in last'[s] PROVE c \in Call /\ ~(c <= k)
  <2>1. c \in (k + 1)..(k + n)
    BY <1>1, <1>3
  <2>2. ~(c <= k)
    BY <2>1, <1>3
  <2> QED BY <1>1, <2>2
<1> QED BY <1>2, <1>4

LEMMA LoopKeepsData ==
  ASSUME TypeOK, ControlInv, DataInv, NEW s \in Source, LoopStep(s), LoopMove(s)
  PROVE  DataInv'
<1>1. SameDraft /\ ws'.calc = ws.calc
  BY LoopData
<1>2. ASSUME NEW c \in Call
      PROVE  /\ receipt[c].status # "none" => receipt'[c].tool = receipt[c].tool
             /\ (receipt'[c].merged <=> receipt[c].merged)
  <2>1. receipt[c].status = "none" => ~receipt[c].merged
    BY DEF ControlInv, ReceiptsAreSound
  <2>2. CASE Replies(s)
    <3>1. c \in last'[s] => receipt[c].status = "none" /\ ~receipt'[c].merged
      BY <2>2, ReplyIsFresh DEF ControlInv, Replies
    <3>2. c \notin last'[s] => receipt'[c] = receipt[c]
      BY <2>2 DEF Replies
    <3> QED BY <2>1, <3>1, <3>2
  <2>3. CASE Judges(s)
    BY <2>3 DEF Judges
  <2> QED BY <2>2, <2>3 DEF LoopMove, Decides, Observes
<1>3. \A c \in Call : receipt[c].merged => receipt[c].status # "none"
  BY DEF ControlInv, ReceiptsAreSound
<1>4. SameEffects
  BY <1>2, <1>3 DEF SameEffects, Effect
<1>5. \A d \in Call : Reading(d)' => /\ Reading(d) /\ job'[d].seen = job[d].seen
                                     /\ receipt'[d].tool = receipt[d].tool
  <2>1. UNCHANGED job
    BY DEF LoopMove
  <2>2. \A d \in Call : Reading(d) => receipt[d].status # "none"
    BY DEF ControlInv, JobsAreSound, Runs, Reading
  <2> QED BY <1>2, <2>1, <2>2 DEF Reading
<1> QED BY <1>1, <1>4, <1>5, KeepsData DEF Recalculated

LEMMA DataStep ==
  ASSUME TypeOK, ControlInv, DataInv, [Next]_vars
  PROVE  DataInv'
<1>1. ASSUME NEW c \in Call, ToolStep(c) PROVE DataInv'
  BY <1>1, ToolData
<1>2. ASSUME NEW s \in Source, LoopStep(s), LoopMove(s) PROVE DataInv'
  BY <1>2, LoopKeepsData
<1>3. ASSUME SameDraft, Recalculated, RunMove PROVE DataInv'
  <2>1. SameEffects
    BY <1>3 DEF RunMove, SameEffects, Effect
  <2>2. \A d \in Call : Reading(d)' => /\ Reading(d) /\ job'[d].seen = job[d].seen
                                       /\ receipt'[d].tool = receipt[d].tool
    BY <1>3 DEF RunMove, Reading
  <2> QED BY <1>3, <2>1, <2>2, KeepsData
<1>4. CASE UNCHANGED vars
  <2>1. SameDraft /\ Recalculated
    BY <1>4 DEF vars, durable, SameDraft, Recalculated
  <2>2. RunMove
    BY <1>4 DEF RunMove, vars, durable, places
  <2> QED BY <1>3, <2>1, <2>2
<1>5. CASE RunStep
  BY <1>3, <1>5, RunDoes, RunMoves
<1> QED BY <1>1, <1>2, <1>4, <1>5, Moves

-----------------------------------------------------------------------------
(* Types *)

(* Of the calls, the loop counts one decision at most. *)
LEMMA LoopDoes ==
  ASSUME TypeOK, NEW s \in Source, LoopStep(s)
  PROVE  /\ ws' \in Workspace
         /\ ws'.requests = ws.requests /\ SameQuestion
         /\ ws'.status = ws.status
         /\ \/ ReserveCall(s) /\ ws'.calls = [ws.calls EXCEPT ![s] = @ + 1]
            \/ ~ReserveCall(s) /\ ws'.calls = ws.calls
<1>t. ws \in Workspace
  BY DEF TypeOK
<1>1. CASE UNCHANGED ws
  <2>1. ~ReserveCall(s)
    <3>1. ASSUME ReserveCall(s) PROVE ws'.calls[s] = ws.calls[s] + 1 /\ ws.calls[s] \in Nat
      BY <3>1, <1>t DEF ReserveCall, Workspace
    <3> QED BY <1>1, <3>1
  <2> QED BY <1>1, <1>t, <2>1 DEF SameQuestion
<1>2. ASSUME ReserveCall(s)
      PROVE  /\ ws' \in Workspace
             /\ ws'.requests = ws.requests /\ SameQuestion /\ ws'.status = ws.status
             /\ ws'.calls = [ws.calls EXCEPT ![s] = @ + 1]
  <2> DEFINE k == [ws.calls EXCEPT ![s] = @ + 1]
  <2>1. k \in [Source -> Nat]
    BY <1>t DEF Workspace
  <2>2. ws' = [ws EXCEPT !.calls = k]
    BY <1>2 DEF ReserveCall
  <2> HIDE DEF k
  <2>3. /\ ws' \in Workspace /\ ws'.calls = k
        /\ ws'.requests = ws.requests /\ SameQuestion /\ ws'.status = ws.status
    BY <1>t, <2>1, <2>2 DEF Workspace, SameQuestion
  <2> QED BY <2>3 DEF k
<1>3. ASSUME ~ReserveCall(s), NEW why \in {"exhausted", "other"}, ws' = [ws EXCEPT !.stop = why]
      PROVE  /\ ws' \in Workspace /\ ws'.calls = ws.calls /\ ws'.status = ws.status
             /\ ws'.requests = ws.requests /\ SameQuestion
  BY <1>3, <1>t DEF SameQuestion, Workspace
<1>4. ASSUME NEW b \in BOOLEAN, NEW n \in 0..QueryRounds,
             ws' = [ws EXCEPT !.rounds = n, !.counted = b]
      PROVE  /\ ws' \in Workspace /\ ws'.calls = ws.calls /\ ws'.status = ws.status
             /\ ws'.requests = ws.requests /\ SameQuestion
  BY <1>4, <1>t DEF SameQuestion, Workspace
<1>5. ASSUME NEW b \in BOOLEAN, ws' = [ws EXCEPT !.counted = b]
      PROVE  /\ ws' \in Workspace /\ ws'.calls = ws.calls /\ ws'.status = ws.status
             /\ ws'.requests = ws.requests /\ SameQuestion
  BY <1>5, <1>t DEF SameQuestion, Workspace
<1>n. ASSUME ~ReserveCall(s), LoopStep(s)
      PROVE  /\ ws' \in Workspace /\ ws'.calls = ws.calls /\ ws'.status = ws.status
             /\ ws'.requests = ws.requests /\ SameQuestion
  <2>1. CASE Reply(s)
    <3>1. (IF s = "reviewer" THEN FALSE ELSE ws.counted) \in BOOLEAN
      BY <1>t DEF Workspace
    <3>2. ws' = [ws EXCEPT !.counted = IF s = "reviewer" THEN FALSE ELSE ws.counted]
      BY <2>1 DEF Reply
    <3> QED BY <1>5, <3>1, <3>2
  <2>2. CASE CountRound(s)
    <3>1. ASSUME ws.rounds < QueryRounds PROVE ws.rounds + 1 \in 0..QueryRounds
      BY <3>1, <1>t, Constants DEF Workspace
    <3>2. UNCHANGED ws \/ /\ ws.rounds < QueryRounds
                          /\ ws' = [ws EXCEPT !.rounds = ws.rounds + 1, !.counted = TRUE]
      BY <2>2 DEF CountRound
    <3> QED BY <1>1, <1>4, <1>n, <3>1, <3>2
  <2>3. CASE Observe(s)
    BY <1>1, <1>3, <1>n, <2>3 DEF Observe, StopAs
  <2>4. CASE DecideNoMore(s) \/ ReplyNothing(s) \/ Malformed(s)
    BY <1>1, <1>3, <1>n, <2>4 DEF DecideNoMore, ReplyNothing, Malformed, StopAs
  <2>5. CASE AskModel(s) \/ Unavailable(s) \/ Judge(s)
    BY <1>1, <1>n, <2>5 DEF AskModel, Unavailable, Judge, durable
  <2> QED BY <1>n, <2>1, <2>2, <2>3, <2>4, <2>5 DEF LoopStep
<1> QED BY <1>2, <1>n

-----------------------------------------------------------------------------
(* Budgets *)

CountsInv == CallsAreCounted /\ RequestsAreCounted

Within == \A s \in Source : ws.calls[s] <= Limit(s)

LEMMA CountTypes ==
  ASSUME TypeOK
  PROVE  /\ \A s \in Source : made[s] \in Nat /\ ws.calls[s] \in Nat /\ Reserved(s) \in {0, 1}
         /\ sent \in Nat /\ ws.requests \in 0..MaxRequests /\ ws.requests \in Nat
         /\ IsFiniteSet(Sending) /\ Cardinality(Sending) \in Nat
         /\ Within
         /\ PlannerLimit \in Nat /\ ReviewerLimit \in Nat /\ MaxRequests \in Nat
<1>1. IsFiniteSet(Call) /\ Sending \in SUBSET Call
  BY FS_Interval, Constants DEF Call, Sending
<1>2. IsFiniteSet(Sending) /\ Cardinality(Sending) \in Nat
  BY <1>1, FS_Subset, FS_CardinalityType
<1>3. PlannerLimit \in Nat /\ ReviewerLimit \in Nat /\ MaxRequests \in Nat
  BY Constants
<1>4. ws.requests \in 0..MaxRequests /\ ws.calls \in [Source -> Nat]
  BY DEF TypeOK, Workspace
<1>5. ws.requests \in Nat
  BY <1>3, <1>4
<1>6. Within
  BY DEF TypeOK, Within, Source, Limit
<1> QED BY <1>2, <1>3, <1>4, <1>5, <1>6 DEF TypeOK, Reserved

(* A tool begins a review anew, and with it the reviewer's budget.           *)
BudgetRenewed ==
  /\ pc["reviewer"] = "idle"
  /\ made'["planner"] = made["planner"] /\ ws'.calls["planner"] = ws.calls["planner"]
  /\ made'["reviewer"] = 0 /\ ws'.calls["reviewer"] = 0

LEMMA ToolCounts ==
  ASSUME TypeOK, NEW c \in Call, ToolStep(c)
  PROVE  /\ made' \in [Source -> Nat]
         /\ (ws'.calls = ws.calls /\ UNCHANGED made) \/ BudgetRenewed
         /\ \/ /\ ws'.requests = ws.requests + 1 /\ UNCHANGED sent
               /\ c \notin Sending /\ Sending' = Sending \cup {c}
            \/ /\ ws'.requests = ws.requests /\ sent' \in Nat /\ sent' <= sent + 1
               /\ c \in Sending /\ Sending' = Sending \ {c}
            \/ /\ ws'.requests = ws.requests /\ UNCHANGED sent /\ Sending' \subseteq Sending
<1>t. ws \in Workspace /\ made \in [Source -> Nat] /\ sent \in Nat
  BY DEF TypeOK
<1>s. "planner" \in Source /\ "reviewer" \in Source /\ "planner" # "reviewer"
  BY DEF Source
<1>1. CASE Reserve(c)
  <2>1. ws'.requests = ws.requests + 1 /\ ws'.calls = ws.calls
    BY <1>1, <1>t DEF Reserve, Workspace
  <2>2. /\ UNCHANGED history /\ job[c].at = "working" /\ job'[c].at = "sending"
        /\ \A d \in Call \ {c} : job'[d] = job[d]
    BY <1>1, SetJobDoes DEF Reserve
  <2>3. c \notin Sending /\ Sending' = Sending \cup {c}
    BY <2>2 DEF Sending
  <2> QED BY <1>t, <2>1, <2>2, <2>3 DEF history
<1>2. CASE Send(c)
  <2>1. /\ UNCHANGED <<ws, made>> /\ job[c].at = "sending" /\ job'[c].at = "working"
        /\ \A d \in Call \ {c} : job'[d] = job[d]
        /\ sent' = IF sent > MaxRequests THEN sent ELSE sent + 1
    BY <1>2, SetJobDoes DEF Send, durable
  <2>2. c \in Sending /\ Sending' = Sending \ {c}
    BY <2>1 DEF Sending
  <2>3. sent' \in Nat /\ sent' <= sent + 1
    BY <1>t, <2>1
  <2> QED BY <1>t, <2>1, <2>2, <2>3
<1>j. ASSUME ToolMove(c), ~Reserve(c), ~Send(c) PROVE Sending' \subseteq Sending
  <2>1. \A d \in Call \ {c} : job'[d] = job[d]
    BY <1>j DEF ToolMove
  <2>2. job'[c].at # "sending" \/ job'[c] = job[c]
    <3>1. ASSUME NEW s \in Source, Begin(s, c) PROVE job'[c].at = "working"
      BY <3>1 DEF Begin, TypeOK
    <3>2. ASSUME NEW st, NEW m \in BOOLEAN, Settle(c, st, m) PROVE job'[c].at # "sending"
      BY <3>2, SettleDoes
    <3>3. ASSUME NEW p \in {"calculated", "reviewing"}, SetJob(c, p) PROVE job'[c].at # "sending"
      BY <3>3, SetJobDoes
    <3>4. receipt[c].merged \in BOOLEAN
      BY DEF TypeOK, Receipt
    <3>5. CASE ToolFails(c) \/ ReviewEnds(c)
      BY <3>2, <3>4, <3>5 DEF ToolFails, ReviewEnds
    <3>6. CASE QueryEnds(c) \/ WriteEnds(c) \/ CheckEnds(c) \/ SubmitEnds(c) \/ FinishEnds(c)
               \/ AskEnds(c)
      BY <3>2, <3>6 DEF QueryEnds, WriteEnds, CheckEnds, SubmitEnds, FinishEnds, AskEnds
    <3> QED
      BY <1>j, <3>1, <3>3, <3>5, <3>6 DEF ToolStep, ReviewCalculates, ReviewStarts
  <2> QED BY <2>1, <2>2 DEF Sending
<1>m. ASSUME ~Reserve(c), ~Send(c), ToolMove(c), SameCounts \/ UNCHANGED ws, UNCHANGED history
      PROVE  /\ made' \in [Source -> Nat] /\ ws'.calls = ws.calls /\ UNCHANGED made
             /\ ws'.requests = ws.requests /\ UNCHANGED sent /\ Sending' \subseteq Sending
  BY <1>j, <1>m, <1>t DEF SameCounts, history
<1>3. CASE \/ \E s \in Source : Begin(s, c)
           \/ ToolFails(c) \/ QueryEnds(c) \/ WriteEnds(c) \/ CheckEnds(c) \/ ReviewCalculates(c)
           \/ ReviewEnds(c) \/ SubmitEnds(c) \/ FinishEnds(c) \/ AskEnds(c)
  <2>1. UNCHANGED history
    BY <1>3 DEF Begin, ToolFails, QueryEnds, WriteEnds, CheckEnds, ReviewCalculates, ReviewEnds,
                SubmitEnds, FinishEnds, AskEnds
  <2>2. SameCounts \/ UNCHANGED ws
    <3>1. CASE (\E s \in Source : Begin(s, c)) \/ ToolFails(c) \/ ReviewEnds(c)
      BY <3>1 DEF Begin, ToolFails, ReviewEnds, durable
    <3>2. CASE QueryEnds(c)
      BY <3>2, MergedDoes DEF QueryEnds, Aside
    <3>3. CASE WriteEnds(c)
      BY <3>3, WriteDoes DEF Aside
    <3>4. CASE CheckEnds(c)
      BY <3>4, CalculatedDoes, ReadAgainDoes DEF CheckEnds, Aside
    <3>5. CASE ReviewCalculates(c)
      BY <3>5, CalculatedDoes DEF ReviewCalculates, Aside
    <3>6. CASE SubmitEnds(c)
      BY <3>6, SubmitDoes DEF Aside
    <3>7. CASE FinishEnds(c)
      BY <3>7, FinishDoes DEF Aside
    <3>8. CASE AskEnds(c)
      <4>1. ws' = [ws EXCEPT !.status = "awaiting", !.question = c]
        BY <3>8 DEF AskEnds
      <4>2. ws'.calls = ws.calls /\ ws'.requests = ws.requests
        BY <1>t, <4>1 DEF Workspace
      <4> QED BY <4>2 DEF SameCounts
    <3> QED BY <1>3, <3>1, <3>2, <3>3, <3>4, <3>5, <3>6, <3>7, <3>8
  <2> QED BY <1>1, <1>2, <1>m, <2>1, <2>2, ToolMoves
<1>4. CASE ReviewStarts(c)
  <2>1. /\ UNCHANGED sent /\ pc["reviewer"] = "idle"
        /\ \/ UNCHANGED <<ws, made>>
           \/ /\ ws' = [ws EXCEPT !.reviewing = TRUE, !.calls["reviewer"] = 0, !.rounds = 0,
                                  !.counted = FALSE, !.review = NoReview]
              /\ made' = [made EXCEPT !["reviewer"] = 0]
    BY <1>4 DEF ReviewStarts
  <2>2. ws'.requests = ws.requests /\ (UNCHANGED ws \/ ws'.calls = [ws.calls EXCEPT !["reviewer"] = 0])
    BY <1>t, <2>1 DEF Workspace
  <2>3. (ws'.calls = ws.calls /\ UNCHANGED made) \/ BudgetRenewed
    <3>1. ws.calls \in [Source -> Nat]
      BY <1>t DEF Workspace
    <3>2. CASE UNCHANGED <<ws, made>>
      BY <3>2
    <3>3. CASE /\ ws' = [ws EXCEPT !.reviewing = TRUE, !.calls["reviewer"] = 0, !.rounds = 0,
                                   !.counted = FALSE, !.review = NoReview]
               /\ made' = [made EXCEPT !["reviewer"] = 0]
      <4>1. ws'.calls = [ws.calls EXCEPT !["reviewer"] = 0]
        BY <1>t, <3>3 DEF Workspace
      <4> QED BY <1>t, <1>s, <2>1, <3>1, <3>3, <4>1 DEF BudgetRenewed
    <3> QED BY <2>1, <3>2, <3>3
  <2>4. made' \in [Source -> Nat]
    BY <1>t, <2>1
  <2>5. Sending' \subseteq Sending
    <3>1. SetJob(c, "reviewing")
      BY <1>4 DEF ReviewStarts
    <3> QED BY <3>1, SetJobDoes DEF Sending
  <2> QED BY <2>1, <2>2, <2>3, <2>4, <2>5
<1> QED BY <1>1, <1>2, <1>3, <1>4 DEF ToolStep

LEMMA ToolCountsStep ==
  ASSUME TypeOK, CountsInv, NEW c \in Call, ToolStep(c)
  PROVE  CountsInv' /\ Within'
<1>t. /\ \A s \in Source : made[s] \in Nat /\ ws.calls[s] \in Nat /\ Reserved(s) \in {0, 1}
      /\ sent \in Nat /\ ws.requests \in Nat /\ Cardinality(Sending) \in Nat /\ IsFiniteSet(Sending)
      /\ Within /\ PlannerLimit \in Nat /\ ReviewerLimit \in Nat
  BY CountTypes
<1>s. "planner" \in Source /\ "reviewer" \in Source
  BY DEF Source
<1>1. pc'["planner"] = pc["planner"] /\ (pc'["reviewer"] = "asking" => pc["reviewer"] = "asking")
  BY ToolMoves DEF ToolMove, Goes, Calculates, Reviews, Ends
<1>r. Reserved("planner")' = Reserved("planner")
      /\ Reserved("reviewer")' \in Nat /\ Reserved("reviewer")' <= Reserved("reviewer")
  BY <1>1 DEF Reserved
<1>2. CallsAreCounted' /\ Within'
  <2>1. CASE ws'.calls = ws.calls /\ UNCHANGED made
    <3>1. ASSUME NEW s \in Source PROVE made'[s] + Reserved(s)' <= ws'.calls[s]
      <4>1. made[s] + Reserved(s) <= ws.calls[s]
        BY DEF CountsInv, CallsAreCounted
      <4>2. Reserved(s)' \in Nat /\ Reserved(s)' <= Reserved(s)
        <5>1. Reserved("planner") \in Nat
          BY <1>t, <1>s
        <5>2. s = "planner" \/ s = "reviewer"
          BY DEF Source
        <5> QED BY <1>r, <5>1, <5>2
      <4> QED BY <1>t, <2>1, <4>1, <4>2
    <3> QED BY <1>t, <2>1, <3>1 DEF CallsAreCounted, Within, Limit
  <2>2. CASE BudgetRenewed
    <3>1. Reserved("reviewer")' = 0
      BY <1>1, <2>2 DEF BudgetRenewed, Reserved
    <3>2. made'["reviewer"] + Reserved("reviewer")' <= ws'.calls["reviewer"]
      BY <2>2, <3>1 DEF BudgetRenewed
    <3>3. made'["planner"] + Reserved("planner")' <= ws'.calls["planner"]
      BY <1>r, <1>s, <2>2 DEF BudgetRenewed, CountsInv, CallsAreCounted
    <3>4. ws'.calls["planner"] <= PlannerLimit /\ ws'.calls["reviewer"] <= ReviewerLimit
      BY <1>t, <1>s, <2>2 DEF BudgetRenewed, Within, Limit
    <3> QED BY <3>2, <3>3, <3>4 DEF CallsAreCounted, Within, Limit, Source
  <2> QED BY <2>1, <2>2, ToolCounts
<1>3. RequestsAreCounted'
  <2>0. sent + Cardinality(Sending) <= ws.requests
    BY DEF CountsInv, RequestsAreCounted
  <2>1. CASE /\ ws'.requests = ws.requests + 1 /\ UNCHANGED sent
             /\ c \notin Sending /\ Sending' = Sending \cup {c}
    <3>1. Cardinality(Sending') = Cardinality(Sending) + 1
      BY <1>t, <2>1, FS_AddElement
    <3> HIDE DEF Sending
    <3> QED BY <1>t, <2>0, <2>1, <3>1 DEF RequestsAreCounted
  <2>2. CASE /\ ws'.requests = ws.requests /\ sent' \in Nat /\ sent' <= sent + 1
             /\ c \in Sending /\ Sending' = Sending \ {c}
    <3>1. Cardinality(Sending') = Cardinality(Sending) - 1
      BY <1>t, <2>2, FS_RemoveElement
    <3> HIDE DEF Sending
    <3> QED BY <1>t, <2>0, <2>2, <3>1 DEF RequestsAreCounted
  <2>3. CASE ws'.requests = ws.requests /\ UNCHANGED sent /\ Sending' \subseteq Sending
    <3>1. /\ IsFiniteSet(Sending') /\ Cardinality(Sending') <= Cardinality(Sending)
      BY <1>t, <2>3, FS_Subset
    <3>2. Cardinality(Sending') \in Nat
      BY <3>1, FS_CardinalityType
    <3> QED BY <1>t, <2>0, <2>3, <3>1, <3>2 DEF RequestsAreCounted
  <2> QED BY <2>1, <2>2, <2>3, ToolCounts
<1> QED BY <1>2, <1>3 DEF CountsInv

(* What a decision costs: it is counted, then made. *)
LEMMA LoopCounts ==
  ASSUME TypeOK, NEW s \in Source, LoopStep(s)
  PROVE  /\ UNCHANGED <<sent, job>> /\ \A x \in Source \ {s} : made'[x] = made[x]
         /\ made' \in [Source -> Nat]
         /\ \/ pc[s] = "decide" /\ made'[s] = made[s] /\ ReserveCall(s)
            \/ /\ pc[s] = "asking" /\ made'[s] <= made[s] + 1 /\ pc'[s] = "asked" /\ ~ReserveCall(s)
            \/ made'[s] = made[s] /\ pc'[s] # "asking" /\ ~ReserveCall(s)
<1>t. made \in [Source -> Nat]
  BY DEF TypeOK
<1>1. CASE AskModel(s)
  <2>1. /\ made' = [made EXCEPT ![s] = IF @ > Limit(s) THEN @ ELSE @ + 1]
        /\ pc[s] = "asking" /\ Goto(s, "asked") /\ UNCHANGED <<sent, job>>
    BY <1>1 DEF AskModel
  <2>2. made'[s] \in Nat /\ made'[s] <= made[s] + 1
    BY <1>t, <2>1
  <2>3. made' \in [Source -> Nat] /\ \A x \in Source \ {s} : made'[x] = made[x]
    BY <1>t, <2>1
  <2>4. ~ReserveCall(s)
    BY <2>1 DEF ReserveCall
  <2> QED BY <2>1, <2>2, <2>3, <2>4, GotoDoes
<1>2. CASE ReserveCall(s)
  BY <1>2, <1>t DEF ReserveCall, history
<1>3. ASSUME ~AskModel(s), ~ReserveCall(s)
      PROVE  UNCHANGED <<sent, made, job>> /\ pc'[s] # "asking"
  <2>1. UNCHANGED <<sent, made, job>>
    BY <1>3 DEF LoopStep, DecideNoMore, Reply, ReplyNothing, Malformed, Unavailable, CountRound,
                Judge, Observe, history
  <2>2. ASSUME NEW p, Goto(s, p), p # "asking" PROVE pc'[s] # "asking"
    BY <2>2, GotoDoes
  <2>3. CASE DecideNoMore(s) \/ ReplyNothing(s) \/ Malformed(s) \/ Unavailable(s)
    BY <2>1, <2>2, <2>3 DEF DecideNoMore, ReplyNothing, Malformed, Unavailable, End
  <2>4. CASE Reply(s) \/ CountRound(s) \/ Judge(s)
    BY <2>1, <2>2, <2>4 DEF Reply, CountRound, Judge
  <2>5. CASE Observe(s)
    BY <2>1, <2>2, <2>5 DEF Observe, End
  <2> QED BY <1>3, <2>1, <2>3, <2>4, <2>5 DEF LoopStep
<1> QED BY <1>t, <1>1, <1>2, <1>3

LEMMA LoopCountsStep ==
  ASSUME TypeOK, CountsInv, NEW s \in Source, LoopStep(s)
  PROVE  CountsInv' /\ Within'
<1>t. /\ \A x \in Source : made[x] \in Nat /\ ws.calls[x] \in Nat /\ Reserved(x) \in {0, 1}
      /\ Within /\ \A x \in Source : Limit(x) \in Nat
  BY CountTypes DEF Limit
<1>w. ws.calls \in [Source -> Nat]
  BY DEF TypeOK, Workspace
<1>1. RequestsAreCounted'
  BY LoopCounts, LoopDoes DEF CountsInv, RequestsAreCounted, Sending
<1>m. LoopMove(s)
  BY LoopMoves
<1>2. ASSUME NEW x \in Source
      PROVE  made'[x] + Reserved(x)' <= ws'.calls[x] /\ ws'.calls[x] <= Limit(x)
  <2>0. made[x] + Reserved(x) <= ws.calls[x] /\ ws.calls[x] <= Limit(x)
    BY <1>t DEF CountsInv, CallsAreCounted, Within
  <2>1. CASE x # s
    <3>1. made'[x] = made[x] /\ ws'.calls[x] = ws.calls[x]
      BY <1>w, <2>1, LoopCounts, LoopDoes
    <3>2. pc'[x] = pc[x]
      BY <1>m, <2>1 DEF LoopMove
    <3> QED BY <2>0, <3>1, <3>2 DEF Reserved
  <2>2. CASE x = s /\ ReserveCall(s)
    <3>1. /\ made'[s] = made[s] /\ ws'.calls[s] = ws.calls[s] + 1
          /\ pc[s] = "decide" /\ ws.calls[s] < Limit(s)
      <4>1. made'[s] = made[s] /\ ws'.calls = [ws.calls EXCEPT ![s] = @ + 1]
        BY <2>2, LoopCounts, LoopDoes
      <4>2. pc[s] = "decide" /\ ws.calls[s] < Limit(s)
        BY <2>2 DEF ReserveCall
      <4> QED BY <1>w, <4>1, <4>2
    <3>2. Reserved(s) = 0 /\ Reserved(s)' \in {0, 1}
      BY <3>1 DEF Reserved
    <3>3. ws.calls[s] + 1 <= Limit(s)
      BY <1>t, <3>1
    <3> QED BY <1>t, <2>0, <2>2, <3>1, <3>2, <3>3
  <2>3. CASE x = s /\ ~ReserveCall(s)
    <3>1. ws'.calls = ws.calls
      BY <2>3, LoopDoes
    <3>2. CASE pc[s] = "asking" /\ made'[s] <= made[s] + 1 /\ pc'[s] = "asked"
      <4>1. Reserved(s) = 1 /\ Reserved(s)' = 0 /\ made'[s] \in Nat
        BY <3>2, LoopCounts DEF Reserved
      <4> QED BY <1>t, <2>0, <2>3, <3>1, <3>2, <4>1
    <3>3. CASE made'[s] = made[s] /\ pc'[s] # "asking"
      <4>1. Reserved(s)' = 0
        BY <3>3 DEF Reserved
      <4> QED BY <1>t, <2>0, <2>3, <3>1, <3>3, <4>1
    <3> QED BY <2>3, <3>2, <3>3, LoopCounts
  <2> QED BY <2>1, <2>2, <2>3
<1>3. Within'
  BY <1>2 DEF Within, Limit
<1> QED BY <1>1, <1>2, <1>3 DEF CountsInv, CallsAreCounted

LEMMA RunCountsStep ==
  ASSUME TypeOK, ControlInv, CountsInv, RunStep
  PROVE  CountsInv' /\ Within'
<1>t. /\ \A s \in Source : made[s] \in Nat /\ ws.calls[s] \in Nat /\ Reserved(s) \in {0, 1}
      /\ sent \in Nat /\ ws.requests \in Nat /\ Cardinality(Sending) \in Nat /\ IsFiniteSet(Sending)
      /\ Within /\ PlannerLimit \in Nat /\ ReviewerLimit \in Nat
  BY CountTypes
<1>m. RunMove
  BY RunMoves
<1>1. CASE Continued
  <2>1. \A s \in Source : pc'[s] = "asking" => pc[s] = "asking"
    BY <1>m DEF RunMove, Source
  <2>2. ASSUME NEW s \in Source PROVE made'[s] + Reserved(s)' <= ws'.calls[s]
    <3>1. made[s] + Reserved(s) <= ws.calls[s]
      BY DEF CountsInv, CallsAreCounted
    <3>2. Reserved(s)' \in Nat /\ Reserved(s)' <= Reserved(s)
      BY <2>1 DEF Reserved
    <3>3. made'[s] = made[s] /\ ws'.calls[s] = ws.calls[s]
      BY <1>1 DEF Continued, history
    <3> QED BY <1>t, <3>1, <3>2, <3>3
  <2>3. Sending' \subseteq Sending
    BY <1>m DEF RunMove, Sending
  <2>4. IsFiniteSet(Sending') /\ Cardinality(Sending') <= Cardinality(Sending)
    BY <1>t, <2>3, FS_Subset
  <2>5. Cardinality(Sending') \in Nat
    BY <2>4, FS_CardinalityType
  <2>6. RequestsAreCounted'
    <3>1. sent' = sent /\ ws'.requests = ws.requests
      BY <1>1 DEF Continued, history
    <3>2. sent + Cardinality(Sending) <= ws.requests
      BY DEF CountsInv, RequestsAreCounted
    <3> HIDE DEF Sending
    <3> QED BY <1>t, <2>4, <2>5, <3>1, <3>2 DEF RequestsAreCounted
  <2>7. Within'
    BY <1>1, <1>t DEF Continued, Within, Limit
  <2> QED BY <2>2, <2>6, <2>7 DEF CountsInv, CallsAreCounted
<1>2. CASE Renewed /\ (Resume \/ Answer)
  <2>1. pc["planner"] = "idle"
    BY <1>2 DEF Resume, Answer
  <2>2. pc["reviewer"] = "idle" /\ \A c \in Call : job[c].at = "none"
    BY <2>1 DEF ControlInv, JobsAreSound, Runs, Source
  <2>3. \A s \in Source : pc'[s] # "asking"
    BY <1>m, <2>1, <2>2 DEF RunMove, Source
  <2>4. Sending' = {}
    BY <1>m, <2>2 DEF RunMove, Sending
  <2>5. RequestsAreCounted'
    <3>1. Cardinality(Sending') = 0
      BY <2>4, FS_EmptySet
    <3> QED BY <1>2, <3>1 DEF Renewed, RequestsAreCounted
  <2>6. ASSUME NEW s \in Source PROVE made'[s] + Reserved(s)' <= ws'.calls[s] /\ ws'.calls[s] = 0
    BY <1>2, <2>3 DEF Renewed, Reserved
  <2>7. Within'
    BY <1>t, <2>6 DEF Within, Limit
  <2> QED BY <2>5, <2>6, <2>7 DEF CountsInv, CallsAreCounted
<1> QED BY <1>1, <1>2, RunDoes

-----------------------------------------------------------------------------
(* Types of the rest *)

JobType == [at : {"none", "working", "sending", "calculated", "reviewing"}, seen : View]
Place == {"idle", "await", "decide", "asking", "asked", "prepare", "judge", "tools", "ended",
          "closing"}

RestOK ==
  /\ last' \in [Source -> SUBSET Call]
  /\ receipt' \in [Call -> Receipt]
  /\ pc' \in [Source -> Place]
  /\ job' \in [Call -> JobType]
  /\ late' \in BOOLEAN

RestIsTyped == /\ last \in [Source -> SUBSET Call] /\ receipt \in [Call -> Receipt]
               /\ pc \in [Source -> Place] /\ job \in [Call -> JobType] /\ late \in BOOLEAN

LEMMA TypeParts == TypeOK => RestIsTyped
BY DEF TypeOK, RestIsTyped, JobType, Place

LEMMA NoJobType == NoJob \in JobType
BY EmptySeq DEF NoJob, JobType, Nothing, NoCalc, View, Calculation

LEMMA SettleType ==
  ASSUME TypeOK, NEW c \in Call, NEW st \in {"completed", "failed"}, NEW m \in BOOLEAN,
         Settle(c, st, m)
  PROVE  receipt' \in [Call -> Receipt] /\ job' \in [Call -> JobType]
<1>1. receipt \in [Call -> Receipt] /\ job \in [Call -> JobType] /\ receipt[c] \in Receipt
  BY TypeParts DEF RestIsTyped
<1> DEFINE r == [[receipt[c] EXCEPT !.status = st] EXCEPT !.merged = m]
<1>2. r \in Receipt
  BY <1>1 DEF Receipt
<1>3. receipt' = [receipt EXCEPT ![c] = r]
  BY <1>1 DEF Settle
<1>4. job' = [job EXCEPT ![c] = NoJob]
  BY DEF Settle
<1> HIDE DEF r
<1> QED BY <1>1, <1>2, <1>3, <1>4, NoJobType

LEMMA SetJobType ==
  ASSUME TypeOK, NEW c \in Call, NEW p \in {"working", "sending", "calculated", "reviewing"},
         SetJob(c, p)
  PROVE  job' \in [Call -> JobType]
<1>1. job \in [Call -> JobType] /\ job[c] \in JobType
  BY TypeParts DEF RestIsTyped
<1>2. [job[c] EXCEPT !.at = p] \in JobType
  BY <1>1 DEF JobType
<1> QED BY <1>1, <1>2 DEF SetJob

LEMMA GotoType ==
  ASSUME TypeOK, NEW s \in Source, NEW p \in Place, Goto(s, p)
  PROVE  pc' \in [Source -> Place]
BY TypeParts DEF RestIsTyped, Goto

LEMMA ToolTypes ==
  ASSUME TypeOK, NEW c \in Call, ToolStep(c)
  PROVE  RestOK /\ UNCHANGED <<late, plan>>
<1>t. /\ last \in [Source -> SUBSET Call] /\ receipt \in [Call -> Receipt]
      /\ pc \in [Source -> Place] /\ job \in [Call -> JobType] /\ late \in BOOLEAN
      /\ receipt[c].merged \in BOOLEAN
  BY TypeParts DEF RestIsTyped, Receipt
<1>s. "reviewer" \in Source
  BY DEF Source
<1>p. {"idle", "prepare", "decide"} \subseteq Place
  BY DEF Place
<1>1. ASSUME NEW s \in Source, Begin(s, c) PROVE RestOK /\ UNCHANGED <<late, plan>>
  <2>1. [at |-> "working", seen |-> Seen(ws)] \in JobType
    BY SeenIsTyped DEF JobType
  <2>2. job' \in [Call -> JobType]
    BY <1>1, <1>t, <2>1 DEF Begin
  <2> QED BY <1>1, <1>t, <2>2 DEF Begin, RestOK, durable
<1>2. CASE Reserve(c) \/ Send(c)
  <2>1. job' \in [Call -> JobType]
    BY <1>2, SetJobType DEF Reserve, Send
  <2> QED BY <1>2, <1>t, <2>1 DEF Reserve, Send, RestOK, durable
<1>3. CASE ToolFails(c) \/ QueryEnds(c) \/ WriteEnds(c) \/ CheckEnds(c) \/ SubmitEnds(c)
           \/ FinishEnds(c) \/ AskEnds(c)
  <2>1. \E st \in {"completed", "failed"}, m \in BOOLEAN : Settle(c, st, m)
    BY <1>3, <1>t DEF ToolFails, QueryEnds, WriteEnds, CheckEnds, SubmitEnds, FinishEnds, AskEnds
  <2>2. receipt' \in [Call -> Receipt] /\ job' \in [Call -> JobType]
    BY <2>1, SettleType
  <2>3. UNCHANGED <<last, pc, late, plan>>
    BY <1>3 DEF ToolFails, QueryEnds, WriteEnds, CheckEnds, SubmitEnds, FinishEnds, AskEnds
  <2> QED BY <1>t, <2>2, <2>3 DEF RestOK
<1>4. CASE ReviewCalculates(c)
  <2>1. ASSUME NEW found \in BOOLEAN, receipt' = [receipt EXCEPT ![c].merged = @ \/ found]
        PROVE  receipt' \in [Call -> Receipt]
    <3>1. [receipt[c] EXCEPT !.merged = receipt[c].merged \/ found] \in Receipt
      BY <1>t DEF Receipt
    <3> QED BY <1>t, <2>1, <3>1
  <2>2. receipt' \in [Call -> Receipt]
    BY <1>4, <1>t, <2>1 DEF ReviewCalculates
  <2>3. job' \in [Call -> JobType]
    BY <1>4, SetJobType DEF ReviewCalculates
  <2> QED BY <1>4, <1>t, <2>2, <2>3 DEF ReviewCalculates, RestOK
<1>5. CASE ReviewStarts(c)
  <2>1. job' \in [Call -> JobType]
    BY <1>5, SetJobType DEF ReviewStarts
  <2>2. pc' \in [Source -> Place]
    BY <1>5, <1>s, <1>p, GotoType DEF ReviewStarts
  <2>3. last' \in [Source -> SUBSET Call]
    BY <1>5, <1>t DEF ReviewStarts
  <2> QED BY <1>5, <1>t, <2>1, <2>2, <2>3 DEF ReviewStarts, RestOK
<1>6. CASE ReviewEnds(c)
  <2>1. receipt' \in [Call -> Receipt] /\ job' \in [Call -> JobType]
    BY <1>6, <1>t, SettleType DEF ReviewEnds
  <2>2. pc' \in [Source -> Place]
    BY <1>6, <1>s, <1>p, GotoType DEF ReviewEnds
  <2> QED BY <1>6, <1>t, <2>1, <2>2 DEF ReviewEnds, RestOK
<1> QED BY <1>1, <1>2, <1>3, <1>4, <1>5, <1>6 DEF ToolStep

LEMMA LoopTypes ==
  ASSUME TypeOK, NEW s \in Source, LoopStep(s)
  PROVE  RestOK /\ UNCHANGED <<late, plan>>
<1>t. /\ last \in [Source -> SUBSET Call] /\ receipt \in [Call -> Receipt]
      /\ pc \in [Source -> Place] /\ job \in [Call -> JobType] /\ late \in BOOLEAN
  BY TypeParts DEF RestIsTyped
<1>p. {"asking", "asked", "prepare", "judge", "tools", "ended", "closing", "decide", "await"}
        \subseteq Place
  BY DEF Place
<1>e. [last EXCEPT ![s] = {}] \in [Source -> SUBSET Call]
  BY <1>t
<1>g. ASSUME NEW p \in Place, Goto(s, p), UNCHANGED <<job, late>>,
             last' \in [Source -> SUBSET Call], receipt' \in [Call -> Receipt]
      PROVE  RestOK
  BY <1>g, <1>t, GotoType DEF RestOK
<1>1. CASE DecideNoMore(s) \/ ReserveCall(s) \/ AskModel(s) \/ CountRound(s) \/ Unavailable(s)
           \/ ReplyNothing(s) \/ Malformed(s)
  <2>1. /\ UNCHANGED <<receipt, job, late, plan>>
        /\ last' = last \/ last' = [last EXCEPT ![s] = {}]
    BY <1>1 DEF DecideNoMore, ReserveCall, AskModel, CountRound, Unavailable, ReplyNothing,
                Malformed, durable
  <2>2. ASSUME NEW p \in Place, Goto(s, p) PROVE RestOK
    BY <1>g, <1>e, <1>t, <2>1, <2>2
  <2>3. RestOK
    BY <1>1, <1>p, <2>2 DEF DecideNoMore, ReserveCall, AskModel, CountRound, Unavailable,
                            ReplyNothing, Malformed, End
  <2> QED BY <2>1, <2>3
<1>2. CASE Observe(s)
  <2>1. /\ UNCHANGED <<receipt, job, late, plan>> /\ last' = [last EXCEPT ![s] = {}]
    BY <1>2 DEF Observe
  <2>2. ASSUME NEW p \in Place, Goto(s, p) PROVE RestOK
    BY <1>g, <1>e, <1>t, <2>1, <2>2
  <2>3. \E p \in {"await", "closing", "ended", "decide"} : Goto(s, p)
    BY <1>2 DEF Observe, End
  <2> QED BY <1>p, <2>1, <2>2, <2>3
<1>3. CASE Judge(s)
  <2> DEFINE B == last[s]
             new(c) == IF c \notin B \/ receipt[c].status = "completed" THEN receipt[c]
                       ELSE IF FailedBefore(c, B) THEN [receipt[c] EXCEPT !.status = "repeated"]
                       ELSE IF receipt[c].status = "pending"
                               /\ (OutOfRounds(s) \/ Refused([d \in B |-> receipt[d].tool], Tools(s)))
                       THEN [receipt[c] EXCEPT !.status = "failed"] ELSE receipt[c]
  <2>1. receipt' = [c \in Call |-> new(c)] /\ Goto(s, "tools") /\ UNCHANGED <<last, job, late, plan>>
    BY <1>3 DEF Judge
  <2>2. ASSUME NEW c \in Call PROVE new(c) \in Receipt
    <3>1. /\ receipt[c] \in Receipt
          /\ [receipt[c] EXCEPT !.status = "repeated"] \in Receipt
          /\ [receipt[c] EXCEPT !.status = "failed"] \in Receipt
      BY <1>t DEF Receipt
    <3> QED BY <3>1
  <2> HIDE DEF new
  <2>3. receipt' \in [Call -> Receipt]
    BY <2>1, <2>2
  <2> QED BY <1>g, <1>p, <1>t, <2>1, <2>3
<1>4. CASE Reply(s)
  <2>1. PICK n \in Batches :
          LET B == Asked + 1..Asked + n IN
            /\ B \subseteq Call
            /\ \E tool \in [B -> Tools(s)], arg \in [B -> Arg] :
                 receipt' = [c \in Call |->
                   IF c \notin B THEN receipt[c]
                   ELSE [NoReceipt EXCEPT
                           !.tool = tool[c], !.arg = arg[c], !.seen = Seen(ws),
                           !.refused = Refused(tool, Allowed(s)),
                           !.verdict = ws.review.by,
                           !.status = IF tool[c] \in Allowed(s) THEN "pending" ELSE "failed"]]
            /\ last' = [last EXCEPT ![s] = B]
    BY <1>4 DEF Reply
  <2> DEFINE B == Asked + 1..Asked + n
  <2>2. PICK tool \in [B -> Tools(s)], arg \in [B -> Arg] :
          receipt' = [c \in Call |->
            IF c \notin B THEN receipt[c]
            ELSE [NoReceipt EXCEPT
                    !.tool = tool[c], !.arg = arg[c], !.seen = Seen(ws),
                    !.refused = Refused(tool, Allowed(s)),
                    !.verdict = ws.review.by,
                    !.status = IF tool[c] \in Allowed(s) THEN "pending" ELSE "failed"]]
    BY <2>1
  <2> DEFINE r(c) == [tool |-> tool[c], arg |-> arg[c],
                      status |-> IF tool[c] \in Allowed(s) THEN "pending" ELSE "failed",
                      refused |-> Refused(tool, Allowed(s)), merged |-> FALSE,
                      seen |-> Seen(ws), verdict |-> ws.review.by]
  <2>3. /\ receipt' = [c \in Call |-> receipt'[c]]
        /\ \A c \in Call \ B : receipt'[c] = receipt[c]
    BY <2>2
  <2>8. ASSUME NEW c \in B PROVE receipt'[c] = r(c)
    <3>1. c \in Call
      BY <2>1
    <3> QED BY <2>2, <3>1 DEF NoReceipt
  <2>4. ASSUME NEW c \in B PROVE r(c) \in Receipt
    <3>1. tool[c] \in Tool /\ arg[c] \in Arg
      BY <2>2 DEF Tools, Tool
    <3>2. ws.review.by \in Call \cup {None}
      BY DEF TypeOK, Workspace
    <3>3. Refused(tool, Allowed(s)) \in BOOLEAN
      BY DEF Refused
    <3>4. Seen(ws) \in View
      BY DEF TypeOK, Seen, View, Workspace
    <3> DEFINE q == Refused(tool, Allowed(s))
               v == Seen(ws)
               st == IF tool[c] \in Allowed(s) THEN "pending" ELSE "failed"
    <3>5. st \in {"pending", "failed"}
      OBVIOUS
    <3> HIDE DEF q, v, st
    <3> QED BY <3>1, <3>2, <3>3, <3>4, <3>5 DEF Receipt, q, v, st
  <2> HIDE DEF r
  <2>5. receipt' \in [Call -> Receipt]
    <3>1. ASSUME NEW c \in Call PROVE receipt'[c] \in Receipt
      BY <1>t, <2>3, <2>4, <2>8
    <3> QED BY <2>3, <3>1
  <2>6. last' \in [Source -> SUBSET Call]
    <3>1. B \subseteq Call /\ last' = [last EXCEPT ![s] = B]
      BY <2>1
    <3> HIDE DEF B
    <3> QED BY <1>t, <3>1
  <2>7. Goto(s, "prepare") /\ UNCHANGED <<job, late, plan>>
    BY <1>4 DEF Reply
  <2> QED BY <1>g, <1>p, <2>5, <2>6, <2>7
<1> QED BY <1>1, <1>2, <1>3, <1>4 DEF LoopStep

LEMMA RunTypes ==
  ASSUME TypeOK, RunStep
  PROVE  /\ RestOK
         /\ plan' = plan \/ plan' \in [draft : Seq(Call),
                                       status : {"none", "verified", "with_issues", "not_reviewed"}]
<1>t. /\ last \in [Source -> SUBSET Call] /\ receipt \in [Call -> Receipt]
      /\ pc \in [Source -> Place] /\ job \in [Call -> JobType] /\ late \in BOOLEAN
      /\ "planner" \in Source /\ "reviewer" \in Source
  BY TypeParts DEF RestIsTyped, Source
<1>p. {"idle", "await", "closing", "prepare", "decide"} \subseteq Place
  BY DEF Place
<1>l. [last EXCEPT !["reviewer"] = {}] \in [Source -> SUBSET Call]
  BY <1>t
<1>g. ASSUME NEW p \in {"idle", "await", "closing", "prepare", "decide"}, Goto("planner", p),
             UNCHANGED <<receipt, job>>, StartSegment \/ UNCHANGED <<last, late>>
      PROVE  RestOK
  BY <1>g, <1>l, <1>p, <1>t, GotoType DEF RestOK, StartSegment
<1>r. \A w : Route(w) \in {"await", "prepare", "decide"}
  BY DEF Route
<1>1. CASE Resume
  BY <1>1, <1>g, <1>r DEF Resume
<1>2. CASE Answer
  BY <1>2, <1>g, <1>r DEF Answer
<1>3. CASE AwaitUser \/ CloseEmpty
  BY <1>3, <1>g DEF AwaitUser, CloseEmpty
<1>4. CASE Publish
  <2>1. RestOK
    BY <1>4, <1>g DEF Publish
  <2>2. ws \in Workspace /\ ws.draft \in Seq(Call)
    BY DEF TypeOK, Workspace
  <2>3. PICK ok \in BOOLEAN :
          LET w == [ws EXCEPT !.calc = [draft |-> ws.draft, facts |-> ws.facts, ok |-> ok]] IN
          plan' = [draft |-> w.draft, status |-> Assessment(w)]
    BY <1>4 DEF Publish
  <2> DEFINE w == [ws EXCEPT !.calc = [draft |-> ws.draft, facts |-> ws.facts, ok |-> ok]]
  <2>4. w.draft = ws.draft
    BY <2>2 DEF Workspace
  <2>5. Assessment(w) \in {"verified", "with_issues", "not_reviewed"}
    BY DEF Assessment
  <2>6. plan' = [draft |-> w.draft, status |-> Assessment(w)]
    BY <2>3
  <2> HIDE DEF w
  <2> QED BY <2>1, <2>2, <2>4, <2>5, <2>6
<1>5. CASE Crash \/ Deadline
  <2>1. UNCHANGED <<last, receipt, late, plan>> /\ job' = [c \in Call |-> NoJob]
    BY <1>5 DEF Crash, Deadline, Stopped
  <2>2. pc' \in [Source -> Place]
    BY <1>5, <1>p DEF Crash, Deadline, Stopped
  <2> QED BY <1>t, <2>1, <2>2, NoJobType DEF RestOK
<1>6. CASE TimePasses
  BY <1>6, <1>t DEF TimePasses, RestOK, durable, places
<1> QED BY <1>1, <1>2, <1>3, <1>4, <1>5, <1>6 DEF RunStep

-----------------------------------------------------------------------------
(* Every step keeps types and counts *)

LEMMA CountsStep ==
  ASSUME TypeOK, ControlInv, CountsInv, [Next]_vars
  PROVE  CountsInv' /\ Within'
<1>1. CASE UNCHANGED vars
  <2>1. Within
    BY CountTypes
  <2>2. UNCHANGED <<ws, pc, job, made, sent>>
    BY <1>1 DEF vars, durable, places, history
  <2>3. CallsAreCounted' /\ RequestsAreCounted'
    BY <2>2 DEF CountsInv, CallsAreCounted, RequestsAreCounted, Reserved, Sending
  <2> QED BY <2>1, <2>2, <2>3 DEF CountsInv, Within, Limit
<1> QED BY <1>1, Moves, ToolCountsStep, LoopCountsStep, RunCountsStep

LEMMA TypeStep ==
  ASSUME TypeOK, ControlInv, DataInv, CountsInv, [Next]_vars
  PROVE  TypeOK'
<1>t. /\ made \in [Source -> Nat] /\ sent \in Nat
      /\ plan \in [draft : Seq(Call), status : {"none", "verified", "with_issues", "not_reviewed"}]
  BY DEF TypeOK
<1>1. ASSUME ws' \in Workspace, RestOK, made' \in [Source -> Nat], sent' \in Nat,
             plan' \in [draft : Seq(Call),
                        status : {"none", "verified", "with_issues", "not_reviewed"}]
      PROVE  TypeOK'
  <2>1. ws'.calls["planner"] <= PlannerLimit /\ ws'.calls["reviewer"] <= ReviewerLimit
    <3>1. Within'
      BY CountsStep
    <3> QED BY <3>1 DEF Within, Limit, Source
  <2> QED BY <1>1, <2>1 DEF TypeOK, RestOK, JobType, Place
<1>2. ASSUME NEW c \in Call, ToolStep(c) PROVE TypeOK'
  <2>1. made' \in [Source -> Nat] /\ sent' \in Nat
    BY <1>2, <1>t, ToolCounts
  <2>2. ws' \in Workspace /\ RestOK /\ plan' = plan
    BY <1>2, ToolData, ToolTypes
  <2> QED BY <1>1, <1>t, <2>1, <2>2
<1>3. ASSUME NEW s \in Source, LoopStep(s) PROVE TypeOK'
  <2>1. made' \in [Source -> Nat] /\ sent' \in Nat
    BY <1>3, <1>t, LoopCounts
  <2>2. ws' \in Workspace /\ RestOK /\ plan' = plan
    BY <1>3, LoopDoes, LoopTypes
  <2> QED BY <1>1, <1>t, <2>1, <2>2
<1>4. CASE RunStep
  <2>1. made' \in [Source -> Nat] /\ sent' \in Nat
    BY <1>4, <1>t, RunDoes DEF Continued, Renewed, history
  <2>2. ws' \in Workspace /\ RestOK
    BY <1>4, RunDoes, RunTypes
  <2>3. plan' \in [draft : Seq(Call), status : {"none", "verified", "with_issues", "not_reviewed"}]
    BY <1>4, <1>t, RunTypes
  <2> QED BY <1>1, <2>1, <2>2, <2>3
<1>5. CASE UNCHANGED vars
  BY <1>5 DEF vars, durable, places, history, TypeOK
<1> QED BY <1>2, <1>3, <1>4, <1>5, Moves

-----------------------------------------------------------------------------
(* Questions *)

LEMMA CompletedStays ==
  ASSUME TypeOK, ControlInv, [Next]_vars, NEW q \in Call, receipt[q].status = "completed"
  PROVE  receipt'[q].status = "completed"
<1>1. ASSUME NEW c \in Call, ToolMove(c) PROVE receipt'[q].status = "completed"
  <2>1. CASE q # c
    BY <1>1, <2>1 DEF ToolMove
  <2>2. CASE q = c
    <3>1. ~Ends(c)
      BY <2>2 DEF Ends, ControlInv, JobsAreSound, Runs
    <3> QED BY <1>1, <2>2, <3>1 DEF ToolMove, Goes, Calculates, Reviews
  <2> QED BY <2>1, <2>2
<1>2. ASSUME NEW s \in Source, LoopMove(s) PROVE receipt'[q].status = "completed"
  <2>1. CASE Replies(s)
    <3>1. q \notin last'[s]
      BY <2>1, ReplyIsFresh DEF ControlInv
    <3> QED BY <2>1, <3>1 DEF Replies
  <2> QED BY <1>2, <2>1 DEF LoopMove, Decides, Judges, Observes
<1> QED BY <1>1, <1>2, Moves DEF RunMove

(* What a running or beginning tool shows of its batch. *)
LEMMA WhereItRuns ==
  ASSUME TypeOK, ControlInv, NEW c \in Call, ToolMove(c)
  PROVE  /\ receipt[c].status = "pending"
         /\ \E s \in Source : c \in last[s] /\ pc[s] = "tools"
BY DEF ToolMove, Goes, Calculates, Reviews, Ends, ControlInv, JobsAreSound, Runs

LEMMA NoToolWhileOpen ==
  ASSUME TypeOK, ControlInv, QuestionIsHeld, OpenQuestion, NEW c \in Call, ToolStep(c)
  PROVE  FALSE
<1>1. /\ receipt[c].status = "pending"
      /\ \E s \in Source : c \in last[s] /\ pc[s] = "tools"
  BY ToolMoves, WhereItRuns
<1>2. c \in last["planner"] /\ pc["planner"] = "tools"
  BY <1>1 DEF QuestionIsHeld, Source
<1>3. c = ws.question
  BY <1>2 DEF QuestionIsHeld
<1> QED BY <1>1, <1>3 DEF QuestionIsHeld, OpenQuestion, Questions

LEMMA LoopWhileOpen ==
  ASSUME TypeOK, QuestionIsHeld, OpenQuestion, NEW s \in Source, LoopStep(s)
  PROVE  s = "planner" /\ UNCHANGED ws /\ Goto("planner", "await")
<1>1. pc[s] \in {"decide", "asking", "asked", "prepare", "judge", "tools"}
  <2>1. ASSUME Reply(s) PROVE pc[s] = "asked"
    BY <2>1, Zenon DEF Reply
  <2>2. ASSUME Judge(s) PROVE pc[s] \in {"prepare", "judge"}
    BY <2>2 DEF Judge
  <2> QED BY <2>1, <2>2 DEF LoopStep, DecideNoMore, ReserveCall, AskModel, ReplyNothing, Malformed,
                            Unavailable, CountRound, Observe
<1>2. s = "planner"
  BY <1>1 DEF QuestionIsHeld, Source
<1>3. pc["planner"] = "tools" /\ ws.status = "awaiting" /\ last["planner"] = {ws.question}
  BY <1>1, <1>2 DEF QuestionIsHeld
<1>4. Observe("planner")
  BY <1>2, <1>3 DEF LoopStep, DecideNoMore, ReserveCall, AskModel, Reply, ReplyNothing, Malformed,
                    Unavailable, CountRound, Judge
<1>5. ~Repeats(ws.question)
  BY DEF QuestionIsHeld, OpenQuestion, Questions, Repeats
<1>6. ~\A c \in last["planner"] : Repeats(c)
  BY <1>3, <1>5
<1>7. UNCHANGED ws /\ Goto("planner", "await")
  BY <1>3, <1>4, <1>6 DEF Observe
<1> QED BY <1>2, <1>7

(* Only ask() opens a question, and nothing but its answer closes it.        *)
LEMMA ToolQuestions ==
  ASSUME TypeOK, ControlInv, NEW c \in Call, ToolStep(c)
  PROVE  SameQuestion \/ AskEnds(c)
<1>t. ws \in Workspace
  BY DEF TypeOK
<1>1. CASE \/ \E s \in Source : Begin(s, c)
           \/ Send(c) \/ ToolFails(c) \/ ReviewEnds(c)
  BY <1>1 DEF Begin, Send, ToolFails, ReviewEnds, durable, SameQuestion
<1>2. CASE Reserve(c)
  BY <1>2, <1>t DEF Reserve, SameQuestion, Workspace
<1>3. CASE QueryEnds(c)
  BY <1>3, MergedDoes DEF QueryEnds, Aside, SameQuestion
<1>4. CASE WriteEnds(c)
  BY <1>4, WriteDoes DEF Aside
<1>5. CASE CheckEnds(c)
  <2>1. CASE \E found, ok \in BOOLEAN : ws' = Calculated(c, found, ok)
    BY <2>1, CalculatedDoes DEF Aside
  <2>2. CASE ws' = [ws EXCEPT !.draft = job[c].seen.draft, !.facts = job[c].seen.facts,
                              !.calc = job[c].seen.calc]
    BY <1>t, <2>2 DEF Workspace, SameQuestion
  <2> QED BY <1>5, <2>1, <2>2 DEF CheckEnds
<1>6. CASE ReviewCalculates(c)
  BY <1>6, CalculatedDoes DEF ReviewCalculates, Aside, SameQuestion
<1>7. CASE ReviewStarts(c)
  <2>1. \/ UNCHANGED ws
        \/ ws' = [ws EXCEPT !.reviewing = TRUE, !.calls["reviewer"] = 0, !.rounds = 0,
                            !.counted = FALSE, !.review = NoReview]
    BY <1>7 DEF ReviewStarts
  <2> QED BY <1>t, <2>1 DEF Workspace, SameQuestion
<1>8. CASE SubmitEnds(c)
  BY <1>8, SubmitDoes DEF Aside
<1>9. CASE FinishEnds(c)
  BY <1>9, FinishDoes DEF Aside
<1> QED BY <1>1, <1>2, <1>3, <1>4, <1>5, <1>6, <1>7, <1>8, <1>9 DEF ToolStep

LEMMA RunQuestions ==
  ASSUME TypeOK, RunStep
  PROVE  \/ SameQuestion
         \/ Answer
         \/ AwaitUser /\ ws.answered = ws.question /\ ws' = [ws EXCEPT !.resumed = ws.question]
<1>t. ws \in Workspace
  BY DEF TypeOK
<1>1. CASE Resume
  BY <1>1, ResumeDoes
<1>2. CASE Publish
  BY <1>2, PublishDoes
<1>3. CASE UNCHANGED ws
  BY <1>3 DEF SameQuestion
<1>4. ASSUME NEW st, ws' = [ws EXCEPT !.status = st] PROVE SameQuestion
  BY <1>4, <1>t DEF SameQuestion, Workspace
<1>5. CASE Crash \/ CloseEmpty
  BY <1>3, <1>4, <1>5 DEF Crash, CloseEmpty
<1>6. CASE Deadline
  <2>1. ws' = [ws EXCEPT !.stop = "exhausted"]
    BY <1>6 DEF Deadline
  <2> QED BY <1>t, <2>1 DEF SameQuestion, Workspace
<1>7. CASE AwaitUser
  BY <1>3, <1>7 DEF AwaitUser
<1>8. CASE TimePasses
  BY <1>3, <1>8 DEF TimePasses, durable
<1> QED BY <1>1, <1>2, <1>5, <1>6, <1>7, <1>8 DEF RunStep

(* One step of the whole system, then the bookkeeping of the loop's places.  *)
LEMMA QuestionsStay ==
  ASSUME TypeOK, ControlInv, QuestionIsHeld, [Next]_vars
  PROVE  \A q \in Questions' : receipt'[q].status = "completed"
<1>q. Questions \subseteq Call /\ None \notin Call
  BY Constants DEF Questions, TypeOK, Workspace
<1>1. \A q \in Questions : receipt'[q].status = "completed"
  BY <1>q, CompletedStays DEF QuestionIsHeld
<1>2. CASE SameQuestion
  BY <1>1, <1>2 DEF SameQuestion, Questions
<1>3. ASSUME NEW c \in Call, AskEnds(c) PROVE \A q \in Questions' : receipt'[q].status = "completed"
  <2>1. Settle(c, "completed", FALSE) /\ ws' = [ws EXCEPT !.status = "awaiting", !.question = c]
    BY <1>3 DEF AskEnds
  <2>2. receipt'[c].status = "completed"
    BY <2>1, SettleDoes
  <2>3. ws'.question = c /\ ws'.answered = ws.answered /\ ws'.resumed = ws.resumed
    BY <2>1 DEF TypeOK, Workspace
  <2> QED BY <1>1, <2>2, <2>3 DEF Questions
<1>4. CASE Answer
  BY <1>1, <1>4, AnswerDoes DEF Questions
<1>5. CASE ws' = [ws EXCEPT !.resumed = ws.question]
  <2>1. ws'.question = ws.question /\ ws'.answered = ws.answered /\ ws'.resumed = ws.question
    BY <1>5 DEF TypeOK, Workspace
  <2> QED BY <1>1, <2>1 DEF Questions
<1>6. CASE UNCHANGED vars
  <2>1. SameQuestion
    BY <1>6 DEF vars, durable, SameQuestion
  <2> QED BY <1>2, <2>1
<1> QED BY <1>2, <1>3, <1>4, <1>5, <1>6, Moves, ToolQuestions, LoopDoes, RunQuestions

Held ==
  OpenQuestion =>
    /\ ws.resumed # ws.question
    /\ pc["reviewer"] = "idle"
    /\ \/ pc["planner"] \in {"idle", "await", "closing"}
       \/ /\ pc["planner"] = "tools" /\ ws.status = "awaiting"
          /\ last["planner"] = {ws.question}

(* ask() opens a question in a batch of its own.                             *)
LEMMA AskHolds ==
  ASSUME TypeOK, ControlInv, QuestionIsHeld, NEW c \in Call, AskEnds(c)
  PROVE  Held'
<1>1. /\ job[c].at = "working" /\ receipt[c].tool = "ask" /\ UNCHANGED <<last, pc>>
      /\ ws' = [ws EXCEPT !.status = "awaiting", !.question = c]
  BY DEF AskEnds, Working
<1>2. PICK s \in Source : c \in last[s]
  BY <1>1 DEF ControlInv, JobsAreSound, Runs
<1>3. c \in last["planner"]
  BY <1>1, <1>2, ReviewIsForPlanner DEF ControlInv, BatchesAreSound, Source
<1>4. pc["reviewer"] = "idle" /\ pc["planner"] = "tools" /\ last["planner"] = {c}
  BY <1>1, <1>3, NoReviewerYet DEF ControlInv
<1>5. c \notin Questions /\ c # None
  BY <1>1, Constants DEF QuestionIsHeld, ControlInv, JobsAreSound, Runs
<1>6. ws'.resumed = ws.resumed /\ ws'.question = c /\ ws'.status = "awaiting"
  BY <1>1 DEF TypeOK, Workspace
<1>7. ws'.resumed # ws'.question
  BY <1>5, <1>6 DEF Questions
<1> QED BY <1>1, <1>4, <1>6, <1>7 DEF Held

(* While it is open, a resume stops at it and everything else stops.         *)
LEMMA RunHolds ==
  ASSUME TypeOK, QuestionIsHeld, RunStep
  PROVE  Held'
<1>m. RunMove
  BY RunMoves
<1>s. "planner" \in Source /\ "reviewer" \in Source
  BY DEF Source
<1>1. CASE Answer
  BY <1>1, AnswerDoes DEF Held, OpenQuestion
<1>2. CASE AwaitUser /\ ws.answered = ws.question /\ ws' = [ws EXCEPT !.resumed = ws.question]
  <2>1. ws'.question = ws.question /\ ws'.answered = ws.question
    BY <1>2 DEF TypeOK, Workspace
  <2> QED BY <2>1 DEF Held, OpenQuestion
<1>3. CASE SameQuestion
  <2>1. SUFFICES ASSUME OpenQuestion
                 PROVE  Held'
    BY <1>3 DEF Held, OpenQuestion, SameQuestion
  <2>2. /\ ws.resumed # ws.question /\ ws'.resumed # ws'.question
        /\ pc["reviewer"] = "idle" /\ pc'["reviewer"] = "idle"
    BY <1>3, <1>m, <2>1 DEF QuestionIsHeld, RunMove, SameQuestion
  <2>3. ASSUME pc'["planner"] \in {"idle", "await", "closing"} PROVE Held'
    BY <2>2, <2>3 DEF Held
  <2>4. ASSUME NEW p \in {"idle", "await", "closing"}, Goto("planner", p) PROVE Held'
    BY <1>s, <2>3, <2>4, GotoDoes
  <2>5. CASE Resume
    BY <2>1, <2>2, <2>3, <2>5, ResumeDoes
  <2>6. CASE AwaitUser
    BY <2>1, <2>4, <2>6 DEF AwaitUser, OpenQuestion
  <2>7. CASE CloseEmpty \/ Publish
    <3>1. Goto("planner", "idle")
      BY <2>7, Zenon DEF CloseEmpty, Publish
    <3> QED BY <2>4, <3>1
  <2>8. CASE Crash \/ Deadline
    <3>1. pc'["planner"] \in {"idle", "closing"}
      BY <1>s, <2>8 DEF Crash, Deadline, Stopped
    <3> QED BY <2>3, <3>1
  <2>9. CASE TimePasses
    BY <2>1, <2>9 DEF TimePasses, durable, places, QuestionIsHeld, Held, OpenQuestion
  <2> QED BY <1>1, <2>5, <2>6, <2>7, <2>8, <2>9 DEF RunStep
<1> QED BY <1>1, <1>2, <1>3, RunQuestions

LEMMA QuestionStep ==
  ASSUME TypeOK, ControlInv, QuestionIsHeld, [Next]_vars
  PROVE  QuestionIsHeld'
<1>1. ASSUME NEW c \in Call, ToolStep(c) PROVE Held'
  <2>1. CASE AskEnds(c)
    BY <2>1, AskHolds
  <2>2. CASE SameQuestion
    <3>1. ~OpenQuestion
      BY <1>1, NoToolWhileOpen
    <3> QED BY <2>2, <3>1 DEF Held, OpenQuestion, SameQuestion
  <2> QED BY <1>1, <2>1, <2>2, ToolQuestions
<1>2. ASSUME NEW s \in Source, LoopStep(s) PROVE Held'
  <2>1. SameQuestion
    BY <1>2, LoopDoes
  <2>2. CASE OpenQuestion
    <3>1. UNCHANGED ws /\ Goto("planner", "await") /\ "planner" \in Source
      BY <1>2, <2>2, LoopWhileOpen DEF Source
    <3>2. pc'["planner"] = "await" /\ pc'["reviewer"] = pc["reviewer"]
      BY <3>1, GotoDoes DEF Source
    <3> QED BY <2>2, <3>1, <3>2 DEF QuestionIsHeld, Held
  <2>3. CASE ~OpenQuestion
    BY <2>1, <2>3 DEF Held, OpenQuestion, SameQuestion
  <2> QED BY <2>2, <2>3
<1>3. ASSUME RunStep PROVE Held'
  BY <1>3, RunHolds
<1>4. ASSUME UNCHANGED vars PROVE Held'
  <2>1. UNCHANGED <<ws, last, pc>>
    BY <1>4 DEF vars, durable, places
  <2> QED BY <2>1 DEF QuestionIsHeld, Held, OpenQuestion
<1>5. Held'
  BY <1>1, <1>2, <1>3, <1>4, Moves
<1> QED BY <1>5, QuestionsStay DEF Held, QuestionIsHeld

-----------------------------------------------------------------------------
(* The invariant is inductive *)

LEMMA InitType == Init => TypeOK
<1> SUFFICES ASSUME Init PROVE TypeOK
  OBVIOUS
<1>1. NoCalc \in Calculation /\ << >> \in Seq(Call)
  BY EmptySeq DEF NoCalc, Calculation
<1>2. NoReview \in [by : Call \cup {None}, draft : Seq(Call), facts : SUBSET Call,
                    calc : Calculation, accepted : BOOLEAN]
  BY <1>1 DEF NoReview
<1>3. Nothing \in View
  BY <1>1 DEF Nothing, View
<1>4. NoReceipt \in Receipt
  <2>1. (CHOOSE a \in Arg : TRUE) \in Arg
    BY Constants
  <2> QED BY <1>3, <2>1 DEF NoReceipt, Receipt, Tool
<1>5. ws \in Workspace
  <2>1. 0 \in 0..QueryRounds /\ 0 \in 0..MaxRequests /\ 0 \in 0..MaxRevisions
    BY Constants
  <2>2. [s \in Source |-> 0] \in [Source -> Nat]
    OBVIOUS
  <2> QED BY <1>1, <1>2, <2>1, <2>2 DEF Init, Workspace
<1>6. ws.calls["planner"] <= PlannerLimit /\ ws.calls["reviewer"] <= ReviewerLimit
  BY Constants DEF Init, Source
<1>7. /\ last \in [Source -> SUBSET Call]
      /\ receipt \in [Call -> Receipt]
      /\ job \in [Call -> JobType]
      /\ pc \in [Source -> Place] /\ late \in BOOLEAN
      /\ made \in [Source -> Nat] /\ sent \in Nat
  BY <1>4, NoJobType DEF Init, Place
<1>8. plan \in [draft : Seq(Call), status : {"none", "verified", "with_issues", "not_reviewed"}]
  BY <1>1 DEF Init, NoPlan
<1> QED BY <1>5, <1>6, <1>7, <1>8 DEF TypeOK, JobType, Place

LEMMA InvInit == Init => IInv
<1> SUFFICES ASSUME Init PROVE IInv
  OBVIOUS
<1>1. TypeOK
  BY InitType
<1>2. /\ \A c \in Call : receipt[c].status = "none" /\ ~receipt[c].merged /\ job[c].at = "none"
      /\ \A s \in Source : last[s] = {} /\ pc[s] = "idle" /\ made[s] = 0 /\ ws.calls[s] = 0
      /\ sent = 0 /\ ws.requests = 0
      /\ ws.draft = << >> /\ ws.facts = {} /\ ws.calc = NoCalc
      /\ ws.question = None /\ ws.answered = None /\ ws.resumed = None
  BY DEF Init, NoReceipt, NoJob
<1>3. ControlInv
  <2>1. Numbered
    <3>1. 0 \in 0..MaxCalls /\ \A c \in Call : ~(c <= 0)
      BY Constants DEF Call
    <3> QED BY <1>2, <3>1 DEF Numbered
  <2>2. ReceiptsAreSound /\ BatchesAreSound /\ JobsAreSound
    BY <1>2 DEF ReceiptsAreSound, BatchesAreSound, JobsAreSound, Runs, Source
  <2> QED BY <2>1, <2>2 DEF ControlInv
<1>4. DataInv
  <2>1. EffectsMatchReceipts
    BY <1>2 DEF EffectsMatchReceipts
  <2>2. CalculationIsCurrent /\ ReadsAreCurrent
    BY <1>2 DEF CalculationIsCurrent, ReadsAreCurrent, HasCalc
  <2> QED BY <2>1, <2>2 DEF DataInv
<1>5. CallsAreCounted /\ RequestsAreCounted
  <2>1. Sending = {}
    BY <1>2 DEF Sending
  <2>2. Cardinality(Sending) = 0
    BY <2>1, FS_EmptySet
  <2> QED BY <1>2, <2>2 DEF CallsAreCounted, RequestsAreCounted, Reserved
<1>6. QuestionIsHeld
  BY <1>2 DEF QuestionIsHeld, OpenQuestion, Questions
<1> QED BY <1>1, <1>3, <1>4, <1>5, <1>6 DEF IInv

LEMMA InvStep == IInv /\ [Next]_vars => IInv'
BY TypeStep, ControlStep, DataStep, CountsStep, QuestionStep DEF IInv, CountsInv

LEMMA Inductive == Spec => []IInv
BY InvInit, InvStep, PTL DEF Spec

(* While a question is open no loop is asking; a new segment only takes the  *)
(* count of its calls back to nothing.                                       *)
LEMMA OpenAsksNothing ==
  ASSUME IInv, [Next]_vars, OpenQuestion, NEW s \in Source
  PROVE  made'[s] <= made[s]
<1>t. /\ \A x \in Source : made[x] \in Nat
      /\ TypeOK /\ ControlInv /\ QuestionIsHeld
  BY CountTypes DEF IInv
<1>1. ASSUME NEW c \in Call, ToolStep(c) PROVE FALSE
  BY <1>t, <1>1, NoToolWhileOpen
<1>2. ASSUME NEW x \in Source, LoopStep(x) PROVE made'[s] <= made[s]
  <2>1. pc[x] # "asking"
    BY <1>t DEF QuestionIsHeld, Source
  <2> QED BY <1>t, <1>2, <2>1, LoopCounts
<1>3. ASSUME RunStep PROVE made'[s] <= made[s]
  BY <1>t, <1>3, RunDoes DEF Continued, Renewed, history
<1>4. ASSUME UNCHANGED vars PROVE made'[s] <= made[s]
  BY <1>t, <1>4 DEF vars, history
<1> QED BY <1>t, <1>1, <1>2, <1>3, <1>4, Moves

-----------------------------------------------------------------------------
(* What is delivered *)

(* A verdict that stands was submitted by a call that ended well, about a    *)
(* draft with a calculation of it, and it accepts none that did not pass.    *)
ReviewIsSound ==
  ws.review # NoReview =>
    LET v == ws.review IN
    /\ v.by \in Call /\ receipt[v.by].tool = "submit" /\ receipt[v.by].status = "completed"
    /\ v.calc.draft = v.draft /\ v.calc.facts = v.facts
    /\ v.accepted => v.calc.ok

(* A published plan is the draft it was made from, assessed as it was.       *)
PlanIsSettled ==
  plan # NoPlan =>
    /\ pc["planner"] = "idle"
    /\ plan.draft = ws.draft /\ plan.status = Assessment(ws)

DeliveryInv == ReviewIsSound /\ PlanIsSettled

(* A plan goes out as verified only if a reviewer's submit_review, saved     *)
(* with its receipt, accepted this very draft with just these facts and a    *)
(* calculation of them that passed, and none was touched since.              *)
VerifiedWasReviewed ==
  plan.status = "verified" =>
    \E c \in Call :
      /\ receipt[c].tool = "submit" /\ receipt[c].status = "completed"
      /\ ws.review.by = c /\ ws.review.accepted
      /\ ws.review.draft = plan.draft /\ ws.review.facts = ws.facts /\ ws.review.calc = ws.calc
      /\ ws.calc.draft = plan.draft /\ ws.calc.facts = ws.facts /\ ws.calc.ok

LEMMA CompletedIsKept ==
  ASSUME TypeOK, ControlInv, [Next]_vars, NEW q \in Call, receipt[q].status = "completed"
  PROVE  receipt'[q].status = "completed" /\ receipt'[q].tool = receipt[q].tool
<1>1. ASSUME NEW c \in Call, ToolMove(c) PROVE receipt'[q].tool = receipt[q].tool
  BY <1>1 DEF ToolMove
<1>2. ASSUME NEW s \in Source, LoopMove(s) PROVE receipt'[q].tool = receipt[q].tool
  <2>1. CASE Replies(s)
    <3>1. q \notin last'[s]
      BY <2>1, ReplyIsFresh DEF ControlInv
    <3> QED BY <2>1, <3>1 DEF Replies
  <2> QED BY <1>2, <2>1 DEF LoopMove, Decides, Judges, Observes
<1> QED BY <1>1, <1>2, CompletedStays, Moves DEF RunMove

(* Only submit_review writes a verdict; a write, a new review and an answer  *)
(* take it away.                                                             *)
ReviewKept == ws'.review = ws.review \/ ws'.review = NoReview

LEMMA ToolReviews ==
  ASSUME TypeOK, NEW c \in Call, ToolStep(c)
  PROVE  ReviewKept \/ SubmitEnds(c)
<1>t. ws \in Workspace
  BY DEF TypeOK
<1>1. CASE UNCHANGED ws
  BY <1>1 DEF ReviewKept
<1>2. CASE (\E s \in Source : Begin(s, c)) \/ Send(c) \/ ToolFails(c) \/ ReviewEnds(c)
  BY <1>1, <1>2 DEF Begin, Send, ToolFails, ReviewEnds, durable
<1>3. CASE Reserve(c)
  BY <1>3, <1>t DEF Reserve, ReviewKept, Workspace
<1>4. CASE QueryEnds(c)
  <2>1. ASSUME ws' = Merged(c) PROVE ReviewKept
    BY <2>1, <1>t DEF Merged, ReviewKept, Workspace
  <2> QED BY <1>1, <1>4, <2>1 DEF QueryEnds
<1>5. CASE WriteEnds(c)
  <2>1. ws'.review = NoReview
    BY <1>5, <1>t DEF WriteEnds, Workspace
  <2> QED BY <2>1 DEF ReviewKept
<1>6. ASSUME NEW found \in BOOLEAN, NEW ok \in BOOLEAN
      PROVE  Calculated(c, found, ok).review = ws.review
  BY <1>t DEF Calculated, Workspace
<1>7. CASE CheckEnds(c)
  <2>1. ASSUME NEW found \in BOOLEAN, NEW ok \in BOOLEAN, ws' = Calculated(c, found, ok)
        PROVE  ReviewKept
    BY <1>6, <2>1 DEF ReviewKept
  <2>2. ASSUME ws' = [ws EXCEPT !.draft = job[c].seen.draft, !.facts = job[c].seen.facts,
                                !.calc = job[c].seen.calc]
        PROVE  ReviewKept
    BY <1>t, <2>2 DEF Workspace, ReviewKept
  <2> QED BY <1>7, <2>1, <2>2 DEF CheckEnds
<1>8. CASE ReviewCalculates(c)
  <2>1. ASSUME NEW found \in BOOLEAN, NEW ok \in BOOLEAN, ws' = Calculated(c, found, ok)
        PROVE  ReviewKept
    BY <1>6, <2>1 DEF ReviewKept
  <2> QED BY <1>1, <1>8, <2>1 DEF ReviewCalculates
<1>9. CASE ReviewStarts(c)
  <2>1. ASSUME ws' = [ws EXCEPT !.reviewing = TRUE, !.calls["reviewer"] = 0, !.rounds = 0,
                                !.counted = FALSE, !.review = NoReview]
        PROVE  ReviewKept
    BY <1>t, <2>1 DEF ReviewKept, Workspace
  <2> QED BY <1>1, <1>9, <2>1 DEF ReviewStarts
<1>10. CASE FinishEnds(c)
  <2>1. PICK ok \in BOOLEAN : ws' = [Calculated(c, FALSE, ok) EXCEPT !.status = "ready"]
    BY <1>10 DEF FinishEnds
  <2> DEFINE w == Calculated(c, FALSE, ok)
  <2>2. w.review = ws.review
    BY <1>6
  <2>3. "review" \in DOMAIN w
    BY <1>t DEF Calculated, Workspace
  <2>4. ws' = [w EXCEPT !.status = "ready"]
    BY <2>1
  <2> HIDE DEF w
  <2> QED BY <2>2, <2>3, <2>4 DEF ReviewKept
<1>11. CASE AskEnds(c)
  <2>1. ws' = [ws EXCEPT !.status = "awaiting", !.question = c]
    BY <1>11 DEF AskEnds
  <2> QED BY <1>t, <2>1 DEF ReviewKept, Workspace
<1> QED BY <1>2, <1>3, <1>4, <1>5, <1>7, <1>8, <1>9, <1>10, <1>11 DEF ToolStep

LEMMA LoopReviews ==
  ASSUME TypeOK, NEW s \in Source, LoopStep(s)
  PROVE  ReviewKept
<1>t. ws \in Workspace
  BY DEF TypeOK
<1>1. CASE UNCHANGED ws
  BY <1>1 DEF ReviewKept
<1>2. ASSUME NEW why, StopAs(why) PROVE ReviewKept
  BY <1>t, <1>2 DEF StopAs, ReviewKept, Workspace
<1>3. CASE DecideNoMore(s) \/ ReplyNothing(s) \/ Malformed(s)
  BY <1>1, <1>2, <1>3 DEF DecideNoMore, ReplyNothing, Malformed
<1>4. CASE Observe(s)
  BY <1>1, <1>2, <1>4 DEF Observe
<1>5. CASE ReserveCall(s)
  <2>1. ws' = [ws EXCEPT !.calls[s] = @ + 1]
    BY <1>5 DEF ReserveCall
  <2> QED BY <1>t, <2>1 DEF ReviewKept, Workspace
<1>6. CASE Reply(s)
  <2>1. ws' = [ws EXCEPT !.counted = IF s = "reviewer" THEN FALSE ELSE @]
    BY <1>6, Zenon DEF Reply
  <2> QED BY <1>t, <2>1 DEF ReviewKept, Workspace
<1>7. CASE CountRound(s)
  <2>1. ASSUME ws' = [ws EXCEPT !.rounds = @ + 1, !.counted = TRUE] PROVE ReviewKept
    BY <1>t, <2>1 DEF ReviewKept, Workspace
  <2> QED BY <1>1, <1>7, <2>1 DEF CountRound
<1>8. CASE AskModel(s) \/ Unavailable(s) \/ Judge(s)
  BY <1>1, <1>8 DEF AskModel, Unavailable, Judge, durable
<1> QED BY <1>3, <1>4, <1>5, <1>6, <1>7, <1>8 DEF LoopStep

LEMMA RunReviews ==
  ASSUME TypeOK, RunStep
  PROVE  ReviewKept
<1>t. ws \in Workspace
  BY DEF TypeOK
<1>1. CASE UNCHANGED ws
  BY <1>1 DEF ReviewKept
<1>n. NewSegment(ws).review = NoReview /\ NewSegment(ws) \in Workspace
  BY <1>t, NewSegmentDoes DEF NewSegment, Workspace
<1>2. CASE Resume
  <2> DEFINE w == IF Exhausted(ws) THEN [NewSegment(ws) EXCEPT !.review = ws.review] ELSE ws
  <2>1. w.review = ws.review /\ "review" \in DOMAIN w
    <3>1. [NewSegment(ws) EXCEPT !.review = ws.review].review = ws.review
      BY <1>n DEF Workspace
    <3>2. "review" \in DOMAIN [NewSegment(ws) EXCEPT !.review = ws.review] /\ "review" \in DOMAIN ws
      BY <1>n, <1>t DEF Workspace
    <3> QED BY <3>1, <3>2
  <2>2. ws' = [w EXCEPT !.status = "planning"] \/ ws' = Recovered(w)
    BY <1>2 DEF Resume
  <2> HIDE DEF w
  <2>3. ws'.review = w.review
    BY <2>1, <2>2 DEF Recovered
  <2> QED BY <2>1, <2>3 DEF ReviewKept
<1>3. CASE Answer
  <2> DEFINE w == NewSegment(ws)
  <2>1. ws' = [w EXCEPT !.status = "planning", !.answered = ws.question, !.calc = NoCalc]
    BY <1>3 DEF Answer
  <2>2. "review" \in DOMAIN w /\ w.review = NoReview
    BY <1>n DEF Workspace
  <2> HIDE DEF w
  <2>3. ws'.review = NoReview
    BY <2>1, <2>2
  <2> QED BY <2>3 DEF ReviewKept
<1>4. CASE Publish
  <2>1. PICK ok \in BOOLEAN :
          LET w == [ws EXCEPT !.calc = [draft |-> ws.draft, facts |-> ws.facts, ok |-> ok]] IN
          ws' = [w EXCEPT !.status = "ready"]
    BY <1>4 DEF Publish
  <2>2. ws'.review = ws.review
    BY <1>t, <2>1 DEF Workspace
  <2> QED BY <2>2 DEF ReviewKept
<1>5. ASSUME NEW st, ws' = [ws EXCEPT !.status = st] PROVE ReviewKept
  BY <1>5, <1>t DEF ReviewKept, Workspace
<1>6. CASE Crash \/ CloseEmpty
  BY <1>1, <1>5, <1>6 DEF Crash, CloseEmpty
<1>7. CASE AwaitUser
  <2>1. ASSUME ws' = [ws EXCEPT !.resumed = ws.question] PROVE ReviewKept
    BY <1>t, <2>1 DEF ReviewKept, Workspace
  <2> QED BY <1>1, <1>7, <2>1 DEF AwaitUser
<1>8. CASE Deadline
  <2>1. ws' = [ws EXCEPT !.stop = "exhausted"]
    BY <1>8 DEF Deadline
  <2> QED BY <1>t, <2>1 DEF ReviewKept, Workspace
<1>9. CASE TimePasses
  BY <1>1, <1>9 DEF TimePasses, durable
<1> QED BY <1>2, <1>3, <1>4, <1>6, <1>7, <1>8, <1>9 DEF RunStep

LEMMA ReviewStep ==
  ASSUME TypeOK, ControlInv, CalculationIsCurrent, ReviewIsSound, [Next]_vars
  PROVE  ReviewIsSound'
<1>t. ws \in Workspace
  BY DEF TypeOK
<1>1. CASE ReviewKept
  <2> SUFFICES ASSUME ws'.review # NoReview PROVE ReviewIsSound'
    BY DEF ReviewIsSound
  <2>1. ws'.review = ws.review /\ ws.review # NoReview
    BY <1>1 DEF ReviewKept
  <2>2. /\ ws.review.by \in Call
        /\ receipt[ws.review.by].tool = "submit" /\ receipt[ws.review.by].status = "completed"
    BY <2>1 DEF ReviewIsSound
  <2>3. receipt'[ws.review.by].tool = "submit" /\ receipt'[ws.review.by].status = "completed"
    BY <2>2, CompletedIsKept
  <2> QED BY <2>1, <2>2, <2>3 DEF ReviewIsSound
<1>2. ASSUME NEW c \in Call, SubmitEnds(c) PROVE ReviewIsSound'
  <2>1. PICK accepted \in BOOLEAN :
          /\ accepted => ws.calc.ok
          /\ ws' = [ws EXCEPT !.review = [by |-> c, draft |-> ws.draft, facts |-> ws.facts,
                                          calc |-> ws.calc, accepted |-> accepted],
                              !.reviewing = FALSE]
    BY <1>2 DEF SubmitEnds
  <2> DEFINE v == [by |-> c, draft |-> ws.draft, facts |-> ws.facts,
                   calc |-> ws.calc, accepted |-> accepted]
  <2>2. ws'.review = v
    BY <1>t, <2>1 DEF Workspace
  <2>3. ws.calc.draft = ws.draft /\ ws.calc.facts = ws.facts
    BY <1>2 DEF SubmitEnds, CalculationIsCurrent
  <2>4. /\ v.by = c /\ v.calc.draft = v.draft /\ v.calc.facts = v.facts
        /\ v.accepted => v.calc.ok
    BY <2>1, <2>3
  <2>5. receipt'[c].tool = "submit" /\ receipt'[c].status = "completed"
    BY <1>2, SettleDoes DEF SubmitEnds, Working
  <2> HIDE DEF v
  <2> QED BY <2>2, <2>4, <2>5 DEF ReviewIsSound
<1>3. CASE UNCHANGED vars
  <2>1. ReviewKept
    BY <1>3 DEF vars, durable, ReviewKept
  <2> QED BY <1>1, <2>1
<1> QED BY <1>1, <1>2, <1>3, Moves, ToolReviews, LoopReviews, RunReviews

(* A published plan is the end: nothing starts again.                        *)
LEMMA PublishedIsOver ==
  ASSUME TypeOK, ControlInv, PlanIsSettled, plan # NoPlan, [Next]_vars
  PROVE  UNCHANGED <<ws, plan, pc>>
<1>1. pc["planner"] = "idle" /\ pc["reviewer"] = "idle"
  BY DEF PlanIsSettled, ControlInv, JobsAreSound
<1>2. ASSUME NEW c \in Call, ToolStep(c) PROVE FALSE
  BY <1>1, <1>2, ToolMoves, WhereItRuns DEF Source
<1>3. ASSUME NEW s \in Source, LoopStep(s) PROVE FALSE
  <2>1. pc[s] # "idle"
    BY <1>3, LoopMoves DEF LoopMove, Decides, Replies, Judges, Observes
  <2> QED BY <1>1, <2>1 DEF Source
<1>4. ASSUME RunStep PROVE FALSE
  <2>1. ~Publish
    BY <1>1, Zenon DEF Publish
  <2> QED BY <1>1, <1>4, <2>1
          DEF RunStep, Resume, Answer, AwaitUser, CloseEmpty, Crash, TimePasses, Deadline
<1> QED BY <1>2, <1>3, <1>4, Moves DEF vars, durable, places

LEMMA SettledStep ==
  ASSUME TypeOK, ControlInv, PlanIsSettled, [Next]_vars
  PROVE  PlanIsSettled'
<1>t. ws \in Workspace
  BY DEF TypeOK
<1>1. CASE plan # NoPlan
  <2>1. UNCHANGED <<ws, plan, pc>>
    BY <1>1, PublishedIsOver
  <2> QED BY <2>1 DEF PlanIsSettled, Assessment, CurrentReview, HasDraft, HasCalc
<1>2. CASE Publish
  <2>1. PICK ok \in BOOLEAN :
          LET w == [ws EXCEPT !.calc = [draft |-> ws.draft, facts |-> ws.facts, ok |-> ok]] IN
          /\ ws' = [w EXCEPT !.status = "ready"]
          /\ plan' = [draft |-> w.draft, status |-> Assessment(w)]
    BY <1>2 DEF Publish
  <2> DEFINE n == [draft |-> ws.draft, facts |-> ws.facts, ok |-> ok]
             w == [ws EXCEPT !.calc = n]
  <2>2. ws' = [w EXCEPT !.status = "ready"] /\ plan' = [draft |-> w.draft, status |-> Assessment(w)]
    BY <2>1
  <2>3. w \in Workspace
    BY <1>t DEF Workspace, Calculation
  <2> HIDE DEF w
  <2>4. ws'.draft = w.draft /\ ws'.facts = w.facts /\ ws'.calc = w.calc /\ ws'.review = w.review
    BY <2>2, <2>3 DEF Workspace
  <2>5. Assessment(w) = Assessment(ws)'
    BY <2>4 DEF Assessment, CurrentReview, HasDraft, HasCalc
  <2>6. pc'["planner"] = "idle"
    <3>1. Goto("planner", "idle") /\ "planner" \in Source
      BY <1>2, Zenon DEF Publish, Source
    <3> QED BY <3>1, GotoDoes
  <2> QED BY <2>2, <2>4, <2>5, <2>6 DEF PlanIsSettled
<1>3. CASE plan = NoPlan /\ plan' = plan
  BY <1>3 DEF PlanIsSettled
<1>4. ASSUME ~Publish PROVE plan' = plan
  <2>1. ASSUME RunStep PROVE plan' = plan
    BY <1>4, <2>1 DEF RunStep, Resume, Answer, AwaitUser, CloseEmpty, Crash, TimePasses, Deadline
  <2> QED BY <2>1, ToolTypes, LoopTypes, Moves DEF vars
<1> QED BY <1>1, <1>2, <1>3, <1>4

LEMMA DeliveryIsSound == Spec => [](IInv /\ DeliveryInv)
<1>1. Init => DeliveryInv
  <2> SUFFICES ASSUME Init PROVE DeliveryInv
    OBVIOUS
  <2>1. ws.review = NoReview /\ plan = NoPlan
    BY DEF Init
  <2> QED BY <2>1 DEF DeliveryInv, ReviewIsSound, PlanIsSettled
<1>2. IInv /\ DeliveryInv /\ [Next]_vars => DeliveryInv'
  BY ReviewStep, SettledStep DEF IInv, DataInv, DeliveryInv
<1> QED BY <1>1, <1>2, InvInit, InvStep, PTL DEF Spec

-----------------------------------------------------------------------------
(* Theorems *)

(* The workspace, the receipts and the places of the loops always have the   *)
(* values their contracts allow (PlannerReactState); the counters of the     *)
(* workspace stay within their limits.                                       *)
THEOREM TypeCorrect == Spec => []TypeOK
<1>1. IInv => TypeOK
  BY DEF IInv
<1> QED BY <1>1, Inductive, PTL

(* A tool's result and its receipt are saved in one update                   *)
(* (_durable_tool_call): whatever crashed, was cancelled or ran beside it,   *)
(* every draft written is there once, every fact found is kept, and nothing  *)
(* is there that no receipt speaks of.                                       *)
THEOREM EffectsAreExact == Spec => []EffectsMatchReceipts
<1>1. IInv => EffectsMatchReceipts
  BY DEF IInv, DataInv
<1> QED BY <1>1, Inductive, PTL

(* A model call and an external request are counted in the workspace before  *)
(* they are made (_decide, AgentSession.reserve_external), so no crash  *)
(* and no resume lets a run make more of them than its budget.               *)
THEOREM BudgetsAreKept == Spec => []BudgetsHold
<1>1. ASSUME IInv PROVE BudgetsHold
  <2>1. TypeOK /\ CallsAreCounted /\ RequestsAreCounted
    BY <1>1 DEF IInv
  <2>2. /\ \A s \in Source : made[s] \in Nat /\ ws.calls[s] \in Nat /\ Reserved(s) \in {0, 1}
        /\ sent \in Nat /\ ws.requests \in 0..MaxRequests /\ ws.requests \in Nat
        /\ Cardinality(Sending) \in Nat
        /\ Within
        /\ \A s \in Source : Limit(s) \in Nat /\ MaxRequests \in Nat
    BY <2>1, CountTypes DEF Limit
  <2>3. ASSUME NEW s \in Source PROVE made[s] <= Limit(s)
    <3>1. made[s] + Reserved(s) <= ws.calls[s] /\ ws.calls[s] <= Limit(s)
      BY <2>1, <2>2 DEF CallsAreCounted, Within
    <3> QED BY <2>2, <3>1
  <2>4. sent <= MaxRequests
    <3>1. sent + Cardinality(Sending) <= ws.requests /\ ws.requests <= MaxRequests
      BY <2>1, <2>2, Constants DEF RequestsAreCounted
    <3> HIDE DEF Sending
    <3> QED BY <2>2, <3>1, Constants
  <2> QED BY <2>3, <2>4 DEF BudgetsHold
<1> QED BY <1>1, Inductive, PTL

(* checked() and finish() calculate from what the tool has read, while       *)
(* queries of the same batch and of the reviewer merge facts; yet a          *)
(* calculation in the workspace is always one of its draft and its facts.    *)
THEOREM CalculationsAreCurrent == Spec => []CalculationIsCurrent
<1>1. IInv => CalculationIsCurrent
  BY DEF IInv, DataInv
<1> QED BY <1>1, Inductive, PTL

(* From ask() to the answer no model is called, by neither loop, through     *)
(* every crash and resume (_restore_route leads back to _await_user).        *)
THEOREM QuestionsAreWaitedFor == Spec => QuestionStopsTheLoop
<1>1. IInv /\ [Next]_vars => [OpenQuestion => \A s \in Source : made'[s] <= made[s]]_vars
  BY OpenAsksNothing
<1> QED BY <1>1, Inductive, PTL DEF Spec, QuestionStopsTheLoop

(* prepare_result_delivery and the two publishers of the loop: a plan goes   *)
(* out as verified only if delivery_assessment finds a verdict that          *)
(* submit_review accepted and saved, of this very draft, these facts and     *)
(* their passing calculation; what crashed, resumed or was written beside    *)
(* the review cannot lend its verdict to another draft.                      *)
THEOREM VerifiedIsReviewed == Spec => []VerifiedWasReviewed
<1>1. ASSUME IInv, DeliveryInv, plan.status = "verified" PROVE VerifiedWasReviewed
  <2>1. plan # NoPlan
    BY <1>1 DEF NoPlan
  <2>2. plan.draft = ws.draft /\ Assessment(ws) = "verified"
    BY <1>1, <2>1 DEF DeliveryInv, PlanIsSettled
  <2>3. ws.calc.ok /\ CurrentReview(ws) /\ ws.review.accepted
    <3>1. CASE ~ws.calc.ok
      BY <2>2, <3>1 DEF Assessment
    <3>2. CASE ~CurrentReview(ws)
      BY <2>2, <3>2 DEF Assessment
    <3>3. CASE CurrentReview(ws) /\ ~ws.review.accepted
      BY <2>2, <3>3 DEF Assessment
    <3> QED BY <3>1, <3>2, <3>3
  <2> QED BY <1>1, <2>2, <2>3 DEF DeliveryInv, ReviewIsSound, VerifiedWasReviewed, CurrentReview, HasCalc
<1>2. IInv /\ DeliveryInv => VerifiedWasReviewed
  BY <1>1 DEF VerifiedWasReviewed
<1> QED BY <1>2, DeliveryIsSound, PTL

==============================================================================
