----------------------------- MODULE ReactLoop -----------------------------
(***************************************************************************)
(* The planner's decision loop and the reviewer's loop inside it:          *)
(* ReActRuntime and AgentSession (backend/agent/planner/react_runtime.py), *)
(* the tools of react_tools.py, PlannerEngineRouter (react_graph.py) and   *)
(* the part of PlannerJourneyService._run that starts, resumes and closes  *)
(* a run.                                                                  *)
(*                                                                         *)
(* A loop asks the model for a batch of tool calls, runs them, observes    *)
(* their results and asks again.  Every step is one AgentSession.update:   *)
(* the workspace is saved before the session goes on from it, so a crash   *)
(* loses places (pc, job), never rows.  That one session at a time writes  *)
(* is what PlannerRun shows.                                               *)
(*                                                                         *)
(* Plans, facts and verdicts are left out but for what they are made of: a *)
(* draft is the sequence of the calls that wrote it, the facts are the     *)
(* calls that brought them, a calculation remembers draft and facts.       *)
(***************************************************************************)
EXTENDS Naturals, Sequences, FiniteSets

CONSTANTS
  MaxCalls,       \* tool calls of the whole run: the bound of the model
  Arg,            \* arguments of a call, as far as calls can be identical
  None,
  PlannerLimit,   \* planner_call_limit
  ReviewerLimit,  \* reviewer decisions of one review (5)
  QueryRounds,    \* reviewer query rounds of one review (2)
  MaxRevisions,   \* MAX_EFFECTIVE_REVISIONS
  MaxRequests,    \* external requests of a segment (80)
  BatchSize,      \* MAX_TOOL_BATCH_SIZE
  Batches         \* sizes of the batches a model answers with, also too large

(* A tool call is known by its number. *)
Call == 1..MaxCalls

ASSUME Constants ==
  /\ MaxCalls \in Nat /\ None \notin Call /\ Arg # {}
  /\ PlannerLimit \in Nat /\ ReviewerLimit \in Nat \ {0, 1} /\ QueryRounds \in Nat
  /\ MaxRevisions \in Nat /\ MaxRequests \in Nat /\ BatchSize \in Nat \ {0}
  /\ Batches \subseteq Nat \ {0}

VARIABLES
  ws,       \* the durable workspace
  last,     \* last[s]: the calls of the last message of s, if not answered yet
  receipt,  \* receipt[c]: the durable receipt of a call
  pc,       \* pc[s]: where the loop of s is
  job,      \* job[c]: the execution of a tool, with the workspace it read
  late,     \* the deadline of the segment is near
  made,     \* made[s]: model calls made (history)
  sent,     \* external requests made in this segment (history)
  plan      \* what was published

durable == <<ws, last, receipt>>
places == <<pc, job>>
history == <<made, sent>>
vars == <<durable, places, late, history, plan>>

Source == {"planner", "reviewer"}
Tool == {"query", "write", "check", "review", "submit", "finish", "ask"}

NoCalc == [draft |-> << >>, facts |-> {}, ok |-> FALSE]
NoReview == [by |-> None, draft |-> << >>, facts |-> {}, calc |-> NoCalc, accepted |-> FALSE]
Nothing == [draft |-> << >>, facts |-> {}, calc |-> NoCalc]
NoReceipt == [tool |-> "query", arg |-> CHOOSE a \in Arg : TRUE, status |-> "none",
              refused |-> FALSE, merged |-> FALSE, seen |-> Nothing, verdict |-> None]
NoJob == [at |-> "none", seen |-> Nothing]
NoPlan == [draft |-> << >>, status |-> "none"]

Calculation == [draft : Seq(Call), facts : SUBSET Call, ok : BOOLEAN]
View == [draft : Seq(Call), facts : SUBSET Call, calc : Calculation]

Workspace ==
  [draft : Seq(Call), facts : SUBSET Call, calc : Calculation,
   review : [by : Call \cup {None}, draft : Seq(Call), facts : SUBSET Call,
             calc : Calculation, accepted : BOOLEAN],
   reviewing : BOOLEAN, counted : BOOLEAN,
   status : {"planning", "awaiting", "failed", "ready"},
   question : Call \cup {None}, answered : Call \cup {None}, resumed : Call \cup {None},
   calls : [Source -> Nat], rounds : 0..QueryRounds,
   requests : 0..MaxRequests, revisions : 0..MaxRevisions,
   stop : {"none", "exhausted", "other"}]

Receipt ==
  [tool : Tool, arg : Arg, status : {"none", "pending", "completed", "failed", "repeated"},
   refused : BOOLEAN, merged : BOOLEAN, seen : View, verdict : Call \cup {None}]

(* Every record has the values its contract allows (PlannerReactState). *)
TypeOK ==
  /\ ws \in Workspace
  /\ ws.calls["planner"] <= PlannerLimit /\ ws.calls["reviewer"] <= ReviewerLimit
  /\ last \in [Source -> SUBSET Call]
  /\ receipt \in [Call -> Receipt]
  /\ pc \in [Source -> {"idle", "await", "decide", "asking", "asked", "prepare", "judge",
                        "tools", "ended", "closing"}]
  /\ job \in [Call -> [at : {"none", "working", "sending", "calculated", "reviewing"},
                       seen : View]]
  /\ late \in BOOLEAN
  /\ made \in [Source -> Nat] /\ sent \in Nat
  /\ plan \in [draft : Seq(Call), status : {"none", "verified", "with_issues", "not_reviewed"}]

Init ==
  /\ ws = [draft |-> << >>, facts |-> {}, calc |-> NoCalc, review |-> NoReview,
           reviewing |-> FALSE, counted |-> FALSE, status |-> "planning",
           question |-> None, answered |-> None, resumed |-> None,
           calls |-> [s \in Source |-> 0], rounds |-> 0,
           requests |-> 0, revisions |-> 0, stop |-> "none"]
  /\ last = [s \in Source |-> {}]
  /\ receipt = [c \in Call |-> NoReceipt]
  /\ pc = [s \in Source |-> "idle"]
  /\ job = [c \in Call |-> NoJob]
  /\ late = FALSE
  /\ made = [s \in Source |-> 0] /\ sent = 0
  /\ plan = NoPlan

HasCalc(w) == w.calc # NoCalc
HasDraft(w) == w.draft # << >>
Seen(w) == [draft |-> w.draft, facts |-> w.facts, calc |-> w.calc]

(* has_current_review.  What is no input of a calculation - web excerpts, map *)
(* observations - is left out: the code's review is current at most so often. *)
CurrentReview(w) ==
  /\ w.review # NoReview /\ HasDraft(w) /\ HasCalc(w)
  /\ w.review.draft = w.draft /\ w.review.facts = w.facts /\ w.review.calc = w.calc

Goto(s, place) == pc' = [pc EXCEPT ![s] = place]
SetJob(c, place) == job' = [job EXCEPT ![c].at = place]

-----------------------------------------------------------------------------
(* Starting, resuming, closing: _run, PlannerEngineRouter, ReActRuntime.invoke *)

(* begin_answer_segment *)
NewSegment(w) ==
  [w EXCEPT !.calls = [s \in Source |-> 0], !.requests = 0, !.revisions = 0,
            !.review = NoReview, !.rounds = 0, !.counted = FALSE,
            !.reviewing = FALSE, !.stop = "none"]

StartSegment ==
  /\ late' = FALSE
  /\ made' = [s \in Source |-> 0] /\ sent' = 0
  /\ last' = [last EXCEPT !["reviewer"] = {}]

(* _restore_route *)
Route_NoQuestion(w) == IF last["planner"] # {} THEN "prepare" ELSE "decide"

Route(w) ==
  IF w.question # None /\ w.question # w.resumed THEN "await"
  ELSE IF last["planner"] # {} THEN "prepare" ELSE "decide"

(* _resume_workspace, and invoke's reset of the stop reason. *)
Recovered_Refunded(w) ==
  [w EXCEPT !.status = "planning", !.stop = "none", !.requests = 0]

Recovered(w) == [w EXCEPT !.status = "planning", !.stop = "none"]

(* resume_with_configured_budget renews it; limits are not raised meanwhile. *)
Exhausted(w) == w.status = "failed" /\ (w.stop = "exhausted" \/ late)

(* The first start, and a resume.  A failed attempt with a draft and a run   *)
(* that is ready are only delivered; an exhausted one gets a new segment.    *)
Resume ==
  /\ pc["planner"] = "idle" /\ plan = NoPlan
  /\ ws.status # "awaiting"
  /\ LET w == IF Exhausted(ws) THEN [NewSegment(ws) EXCEPT !.review = ws.review] ELSE ws IN
     IF ws.status \in {"failed", "ready"} /\ HasDraft(ws)
     THEN ws' = [w EXCEPT !.status = "planning"] /\ Goto("planner", "closing")
     ELSE ws' = Recovered(w) /\ Goto("planner", Route(w))
  /\ IF Exhausted(ws) THEN StartSegment ELSE UNCHANGED <<last, late, history>>
  /\ UNCHANGED <<receipt, job, plan>>

(* An answer to the open question starts a segment of its own. *)
Answer ==
  /\ pc["planner"] = "idle" /\ plan = NoPlan
  /\ ws.status = "awaiting" /\ ws.question # None
  /\ ws' = [NewSegment(ws) EXCEPT !.status = "planning", !.answered = ws.question,
                                  !.calc = NoCalc]
  /\ StartSegment
  /\ Goto("planner", Route(ws'))
  /\ UNCHANGED <<receipt, job, plan>>

(* _await_user: an interrupt leaves the loop until the answer is there. *)
AwaitUser ==
  /\ pc["planner"] = "await"
  /\ IF ws.answered = ws.question
     THEN ws' = [ws EXCEPT !.resumed = ws.question] /\ Goto("planner", "decide")
     ELSE UNCHANGED ws /\ Goto("planner", "closing")
  /\ UNCHANGED <<last, receipt, job, late, history, plan>>

(* After the loop: FAILED unless it is ready or waits for the user; the     *)
(* question is put, or there is nothing to deliver.                         *)
CloseEmpty ==
  /\ pc["planner"] = "closing"
  /\ ws.status = "awaiting" \/ ~HasDraft(ws)
  /\ ws' = [ws EXCEPT !.status = IF @ = "awaiting" THEN @ ELSE "failed"]
  /\ Goto("planner", "idle")
  /\ UNCHANGED <<last, receipt, job, late, history, plan>>

(* delivery_assessment *)
Assessment(w) ==
  IF ~w.calc.ok \/ (CurrentReview(w) /\ ~w.review.accepted) THEN "with_issues"
  ELSE IF CurrentReview(w) THEN "verified" ELSE "not_reviewed"

(* prepare_result_delivery and the publication: whatever its state, a draft *)
(* is calculated once more and delivered with what was found.               *)
Publish ==
  /\ pc["planner"] = "closing"
  /\ ws.status # "awaiting" /\ HasDraft(ws)
  /\ \E ok \in BOOLEAN :
       LET w == [ws EXCEPT !.calc = [draft |-> ws.draft, facts |-> ws.facts, ok |-> ok]] IN
       /\ ws' = [w EXCEPT !.status = "ready"]
       /\ plan' = [draft |-> w.draft, status |-> Assessment(w)]
  /\ Goto("planner", "idle")
  /\ UNCHANGED <<last, receipt, job, late, history>>

(* The process dies, the task is cancelled, the lease or a save is lost, or *)
(* an error that is no tool's leaves the loop; the failure handler may save *)
(* a FAILED workspace.                                                      *)
Stopped == pc' = [s \in Source |-> "idle"] /\ job' = [c \in Call |-> NoJob]

Crash ==
  /\ pc["planner"] # "idle"
  /\ Stopped
  /\ \/ UNCHANGED ws
     \/ ws' = [ws EXCEPT !.status = "failed"]
  /\ UNCHANGED <<last, receipt, late, history, plan>>

(* The deadline comes near: decisions stop, and the timeout around the loop *)
(* ends it.                                                                 *)
TimePasses ==
  /\ ~late /\ pc["planner"] # "idle"
  /\ late' = TRUE
  /\ UNCHANGED <<durable, places, history, plan>>

Deadline ==
  /\ late /\ pc["planner"] \notin {"idle", "closing"}
  /\ ws' = [ws EXCEPT !.stop = "exhausted"]
  /\ pc' = [s \in Source |-> IF s = "planner" THEN "closing" ELSE "idle"]
  /\ job' = [c \in Call |-> NoJob]
  /\ UNCHANGED <<last, receipt, late, history, plan>>

-----------------------------------------------------------------------------
(* _decide *)

End(s) == Goto(s, IF s = "planner" THEN "closing" ELSE "ended")
StopAs(why) == ws' = [ws EXCEPT !.stop = why]

Limit(s) == IF s = "planner" THEN PlannerLimit ELSE ReviewerLimit

(* No time, or no decision left. *)
DecideNoMore(s) ==
  /\ pc[s] = "decide"
  /\ late \/ ws.calls[s] >= Limit(s)
  /\ IF late \/ s = "planner" THEN StopAs("exhausted") ELSE UNCHANGED ws
  /\ End(s)
  /\ UNCHANGED <<last, receipt, job, late, history, plan>>

(* The call is counted before it is made ... *)
ReserveCall(s) ==
  /\ pc[s] = "decide"
  /\ ~late /\ ws.calls[s] < Limit(s)
  /\ ws' = [ws EXCEPT !.calls[s] = @ + 1]
  /\ Goto(s, "asking")
  /\ UNCHANGED <<last, receipt, job, late, history, plan>>

AskModel(s) ==
  /\ pc[s] = "asking"
  /\ made' = [made EXCEPT ![s] = IF @ > Limit(s) THEN @ ELSE @ + 1]
  /\ Goto(s, "asked")
  /\ UNCHANGED <<durable, job, late, sent, plan>>

(* _allowed: the tools of a source.  allowed in _decide: those the          *)
(* workspace leaves it.                                                     *)
Tools(s) ==
  IF s = "planner" THEN Tool \ {"submit"} ELSE {"query", "check", "submit"}

Closing == ws.revisions >= MaxRevisions /\ HasDraft(ws)

Forced(s, n) ==
  IF s = "reviewer" /\ (n >= ReviewerLimit \/ (n = ReviewerLimit - 1 /\ ~HasCalc(ws)))
  THEN IF HasCalc(ws) THEN {"submit"} ELSE {"check"}
  ELSE Tool

Allowed(s) ==
  {t \in Tools(s) \cap Forced(s, ws.calls[s]) :
     /\ t = "query" => /\ ws.requests < MaxRequests /\ ~Closing
                       /\ s = "reviewer" => ws.rounds < QueryRounds
     /\ t = "check" => ~HasCalc(ws) /\ (Closing => s = "reviewer")
     /\ t = "review" => ~CurrentReview(ws)
     /\ t = "write" => ws.revisions < MaxRevisions}

(* _invalid_batch: what is no query runs alone.  Equal requests and exclusive *)
(* groups, which it refuses too, are not told apart.                          *)
Refused(tool, ts) ==
  LET B == DOMAIN tool IN
  \/ Cardinality(B) > BatchSize
  \/ Cardinality(B) > 1 /\ \E c \in B : tool[c] \in ts \ {"query"}

Asked == Cardinality({c \in Call : receipt[c].status # "none"})

(* The model answers with a batch of new calls; a call it may not make is   *)
(* kept as a failed one.                                                    *)
Reply(s) ==
  /\ pc[s] = "asked"
  /\ \E n \in Batches :
     LET B == Asked + 1..Asked + n IN
       /\ B \subseteq Call
       /\ \E tool \in [B -> Tools(s)], arg \in [B -> Arg] :
            receipt' = [c \in Call |->
              IF c \notin B THEN receipt[c]
              ELSE [NoReceipt EXCEPT
                      !.tool = tool[c], !.arg = arg[c], !.seen = Seen(ws),
                      !.refused = Refused(tool, Allowed(s)),
                      !.verdict = ws.review.by,
                      !.status = IF tool[c] \in Allowed(s) THEN "pending" ELSE "failed"]]
       /\ last' = [last EXCEPT ![s] = B]
  /\ ws' = [ws EXCEPT !.counted = IF s = "reviewer" THEN FALSE ELSE @]
  /\ Goto(s, "prepare")
  /\ UNCHANGED <<job, late, history, plan>>

(* No call at all. *)
ReplyNothing(s) ==
  /\ pc[s] = "asked"
  /\ last' = [last EXCEPT ![s] = {}]
  /\ StopAs("other") /\ End(s)
  /\ UNCHANGED <<receipt, job, late, history, plan>>

(* _decision_error: feedback and another decision; the second time the same *)
(* feedback ends the loop.                                                  *)
Malformed(s) ==
  /\ pc[s] = "asked"
  /\ last' = [last EXCEPT ![s] = {}]
  /\ \/ UNCHANGED ws /\ Goto(s, "decide")
     \/ StopAs("exhausted") /\ End(s)
  /\ UNCHANGED <<receipt, job, late, history, plan>>

(* The retry policy: a transient error, and the node runs again. *)
Unavailable(s) ==
  /\ pc[s] = "asked"
  /\ Goto(s, "decide")
  /\ UNCHANGED <<durable, job, late, history, plan>>

-----------------------------------------------------------------------------
(* _prepare_tools *)

Queries(s) == \E c \in last[s] : receipt[c].tool \notin {"submit", "check"}
OutOfRounds(s) ==
  s = "reviewer" /\ Queries(s) /\ ~ws.counted /\ ws.rounds >= QueryRounds

(* A batch of the reviewer is counted once, whatever crashes follow. *)
CountRound(s) ==
  /\ s = "reviewer" /\ pc[s] = "prepare"
  /\ ws' = IF Queries(s) /\ ~ws.counted /\ ws.rounds < QueryRounds
           THEN [ws EXCEPT !.rounds = @ + 1, !.counted = TRUE] ELSE ws
  /\ Goto(s, "judge")
  /\ UNCHANGED <<last, receipt, job, late, history, plan>>

(* The fingerprint of a call. *)
PrintOf(c) == <<receipt[c].tool, receipt[c].arg, receipt[c].seen, receipt[c].verdict,
              receipt[c].refused>>

FailedBefore(c, B) ==
  \E d \in Call \ B : receipt[d].status \in {"failed", "repeated"} /\ PrintOf(d) = PrintOf(c)

(* A denied batch is settled before any tool of it starts.  (The planner    *)
(* has no rounds to count.)                                                 *)
Judge(s) ==
  LET B == last[s] IN
  /\ pc[s] = (IF s = "planner" THEN "prepare" ELSE "judge")
  /\ receipt' = [c \in Call |->
       IF c \notin B \/ receipt[c].status = "completed" THEN receipt[c]
       ELSE IF FailedBefore(c, B) THEN [receipt[c] EXCEPT !.status = "repeated"]
       ELSE IF receipt[c].status = "pending" /\ (OutOfRounds(s) \/ Refused([d \in B |-> receipt[d].tool], Tools(s)))
       THEN [receipt[c] EXCEPT !.status = "failed"] ELSE receipt[c]]
  /\ Goto(s, "tools")
  /\ UNCHANGED <<ws, last, job, late, history, plan>>

-----------------------------------------------------------------------------
(* Tools: _durable_tool_call, _run_tool, the handlers of PlannerToolBindings. *)
(* What a handler has read is in job[c].seen; what it changes is saved in     *)
(* one update with its receipt.                                               *)

(* A settled receipt is replayed, a pending one runs. *)
MustRun_Always(c) == receipt[c].status \in {"pending", "completed"}

MustRun(c) == receipt[c].status = "pending"

Begin(s, c) ==
  /\ pc[s] = "tools" /\ c \in last[s]
  /\ MustRun(c) /\ job[c].at = "none"
  /\ job' = [job EXCEPT ![c] = [at |-> "working", seen |-> Seen(ws)]]
  /\ UNCHANGED <<durable, pc, late, history, plan>>

(* RequestBudget.reserve counts and saves, then the request goes out. *)
MayReserve_OneMore == ws.requests <= MaxRequests

MayReserve == ws.requests < MaxRequests

Reserve(c) ==
  /\ job[c].at = "working" /\ receipt[c].tool \in {"query", "check", "review"}
  /\ MayReserve
  /\ ws' = [ws EXCEPT !.requests = @ + 1]
  /\ SetJob(c, "sending")
  /\ UNCHANGED <<last, receipt, pc, late, history, plan>>

Send(c) ==
  /\ job[c].at = "sending"
  /\ sent' = IF sent > MaxRequests THEN sent ELSE sent + 1
  /\ SetJob(c, "working")
  /\ UNCHANGED <<durable, pc, late, made, plan>>

Settle(c, status, merged) ==
  /\ receipt' = [receipt EXCEPT ![c].status = status, ![c].merged = merged]
  /\ job' = [job EXCEPT ![c] = NoJob]

(* Any tool may fail: its guards, a provider, a timeout. *)
ToolFails(c) ==
  /\ job[c].at \in {"working", "sending", "calculated"}
  /\ Settle(c, "failed", receipt[c].merged)
  /\ UNCHANGED <<ws, last, pc, late, history, plan>>

Working(c, t) == job[c].at = "working" /\ receipt[c].tool = t

Merged_KeepsCalculation(c) == [ws EXCEPT !.facts = @ \cup {c}, !.status = "planning"]

(* Facts are merged into the workspace of this moment and take a draft's    *)
(* calculation away.                                                        *)
Merged(c) ==
  [ws EXCEPT !.facts = @ \cup {c}, !.calc = NoCalc, !.status = "planning"]

(* A miss is merged as well; cached facts change nothing.                   *)
QueryEnds(c) ==
  /\ Working(c, "query")
  /\ \/ /\ \E status \in {"completed", "failed"} : Settle(c, status, TRUE)
        /\ ws' = Merged(c)
     \/ Settle(c, "completed", FALSE) /\ UNCHANGED ws
  /\ UNCHANGED <<last, pc, late, history, plan>>

(* write, edit and patch: a new draft, which nobody has reviewed. *)
WriteEnds(c) ==
  /\ Working(c, "write")
  /\ HasDraft(ws) => ws.revisions < MaxRevisions
  /\ ws' = [ws EXCEPT !.draft = Append(@, c), !.calc = NoCalc, !.review = NoReview,
                      !.status = "planning",
                      !.revisions = IF HasDraft(ws) THEN @ + 1 ELSE @]
  /\ Settle(c, "completed", TRUE)
  /\ UNCHANGED <<last, pc, late, history, plan>>

(* checked(): facts the draft still lacks are looked up, then times and     *)
(* costs are calculated and validated; all of it from what was read.        *)
Calculated(c, found, ok) ==
  LET r == job[c].seen
      f == IF found THEN r.facts \cup {c} ELSE r.facts
  IN [ws EXCEPT !.draft = r.draft, !.facts = f,
                !.calc = [draft |-> r.draft, facts |-> f, ok |-> ok]]

CheckEnds(c) ==
  /\ Working(c, "check") /\ job[c].seen.draft # << >>
  /\ \/ /\ job[c].seen.calc = NoCalc
        /\ \E found, ok \in BOOLEAN :
             ws' = Calculated(c, found, ok) /\ Settle(c, "completed", found)
     \/ /\ job[c].seen.calc # NoCalc
        /\ ws' = [ws EXCEPT !.draft = job[c].seen.draft, !.facts = job[c].seen.facts,
                            !.calc = job[c].seen.calc]
        /\ Settle(c, "completed", FALSE)
  /\ UNCHANGED <<last, pc, late, history, plan>>

(* review: a calculation first if there is none ... *)
ReviewCalculates(c) ==
  /\ Working(c, "review") /\ job[c].seen.draft # << >>
  /\ IF job[c].seen.calc = NoCalc
     THEN \E found, ok \in BOOLEAN :
            /\ ws' = Calculated(c, found, ok)
            /\ receipt' = [receipt EXCEPT ![c].merged = @ \/ found]
     ELSE UNCHANGED <<ws, receipt>>
  /\ SetJob(c, "calculated")
  /\ UNCHANGED <<last, pc, late, history, plan>>

(* ... then the reviewer's loop, a new one unless one is under way.         *)
ReviewStarts(c) ==
  /\ job[c].at = "calculated" /\ ~CurrentReview(ws)
  /\ pc["reviewer"] = "idle"
  /\ IF ws.reviewing
     THEN /\ UNCHANGED <<ws, last, made>>
          /\ Goto("reviewer", IF last["reviewer"] # {} THEN "prepare" ELSE "decide")
     ELSE /\ ws' = [ws EXCEPT !.reviewing = TRUE, !.calls["reviewer"] = 0, !.rounds = 0,
                              !.counted = FALSE, !.review = NoReview]
          /\ last' = [last EXCEPT !["reviewer"] = {}]
          /\ made' = [made EXCEPT !["reviewer"] = 0]
          /\ Goto("reviewer", "decide")
  /\ SetJob(c, "reviewing")
  /\ UNCHANGED <<receipt, late, sent, plan>>

ReviewEnds(c) ==
  /\ \/ job[c].at = "calculated" /\ CurrentReview(ws)
     \/ job[c].at = "reviewing" /\ pc["reviewer"] = "ended"
  /\ Settle(c, IF ws.review = NoReview THEN "failed" ELSE "completed", receipt[c].merged)
  /\ Goto("reviewer", "idle")
  /\ UNCHANGED <<ws, last, late, history, plan>>

(* submit_review binds the verdict to the workspace it is submitted in. *)
SubmitEnds(c) ==
  /\ Working(c, "submit") /\ HasDraft(ws) /\ HasCalc(ws)
  /\ \E accepted \in BOOLEAN :
       /\ accepted => ws.calc.ok
       /\ ws' = [ws EXCEPT !.review = [by |-> c, draft |-> ws.draft, facts |-> ws.facts,
                                       calc |-> ws.calc, accepted |-> accepted],
                           !.reviewing = FALSE]
  /\ Settle(c, "completed", FALSE)
  /\ UNCHANGED <<last, pc, late, history, plan>>

FinishEnds(c) ==
  /\ Working(c, "finish") /\ job[c].seen.draft # << >>
  /\ \E ok \in BOOLEAN :
       ws' = [Calculated(c, FALSE, ok) EXCEPT !.status = "ready"]
  /\ Settle(c, "completed", FALSE)
  /\ UNCHANGED <<last, pc, late, history, plan>>

AskEnds(c) ==
  /\ Working(c, "ask")
  /\ ws' = [ws EXCEPT !.status = "awaiting", !.question = c]
  /\ Settle(c, "completed", FALSE)
  /\ UNCHANGED <<last, pc, late, history, plan>>

-----------------------------------------------------------------------------
(* _observe: every call of the batch has its result. *)

Repeats(c) ==
  /\ receipt[c].status = "repeated"
  /\ \E d \in Call \ {c} : receipt[d].status = "repeated" /\ PrintOf(d) = PrintOf(c)

Observe(s) ==
  LET B == last[s] IN
  /\ pc[s] = "tools"
  /\ \A c \in B : job[c].at = "none" /\ receipt[c].status # "pending"
  /\ last' = [last EXCEPT ![s] = {}]
  /\ IF s = "planner" /\ \A c \in B : Repeats(c)
     THEN StopAs("exhausted") /\ End(s)
     ELSE /\ UNCHANGED ws
          /\ CASE s = "planner" /\ ws.status = "awaiting" -> Goto(s, "await")
               [] s = "planner" /\ ws.status = "ready" -> End(s)
               [] s = "reviewer" /\ ~ws.reviewing -> End(s)
               [] OTHER -> Goto(s, "decide")
  /\ UNCHANGED <<receipt, job, late, history, plan>>

-----------------------------------------------------------------------------

ToolStep(c) ==
  \/ \E s \in Source : Begin(s, c)
  \/ Reserve(c) \/ Send(c) \/ ToolFails(c)
  \/ QueryEnds(c) \/ WriteEnds(c) \/ CheckEnds(c)
  \/ ReviewCalculates(c) \/ ReviewStarts(c) \/ ReviewEnds(c)
  \/ SubmitEnds(c) \/ FinishEnds(c) \/ AskEnds(c)

LoopStep(s) ==
  \/ DecideNoMore(s) \/ ReserveCall(s) \/ AskModel(s)
  \/ Reply(s) \/ ReplyNothing(s) \/ Malformed(s) \/ Unavailable(s)
  \/ CountRound(s) \/ Judge(s) \/ Observe(s)

Work ==
  \/ \E s \in Source : LoopStep(s)
  \/ \E c \in Call : ToolStep(c)
  \/ AwaitUser \/ CloseEmpty \/ Publish \/ Deadline

Next == Work \/ Resume \/ Answer \/ Crash \/ TimePasses

Spec == Init /\ [][Next]_vars

-----------------------------------------------------------------------------
(* Properties *)

(* What a receipt says was done is in the workspace, and nothing else is:   *)
(* each write once, each fact kept, whatever ran beside it or crashed after *)
(* it.                                                                      *)
EffectsMatchReceipts ==
  LET of(t) == {c \in Call : receipt[c].tool = t /\ receipt[c].merged} IN
  /\ \A i, j \in DOMAIN ws.draft : ws.draft[i] = ws.draft[j] => i = j
  /\ {ws.draft[i] : i \in DOMAIN ws.draft} = of("write")
  /\ ws.facts = of("query") \cup of("check") \cup of("review")

(* The model and the providers are called no more often than the budget     *)
(* says, counted where the calls are really made: a crash refunds nothing.  *)
BudgetsHold ==
  /\ \A s \in Source : made[s] <= Limit(s)
  /\ sent <= MaxRequests

(* A calculation in the workspace is about the draft and the facts beside    *)
(* it, though facts arrive while it is made, tools work on what they have    *)
(* read, and the planner and the reviewer both merge facts.                  *)
CalculationIsCurrent ==
  HasCalc(ws) => ws.calc.draft = ws.draft /\ ws.calc.facts = ws.facts

(* A verdict is about what its reviewer had before it when it decided:      *)
(* "Review approval binds exact semantic, evidence and calculation          *)
(* versions".                                                               *)
VerdictIsAboutCalculation ==
  ws.review # NoReview =>
    LET r == receipt[ws.review.by] IN
    r.seen = [draft |-> ws.review.draft, facts |-> ws.review.facts, calc |-> ws.review.calc]

(* As long as a question to the user is open no model is asked. *)
OpenQuestion == ws.question # None /\ ws.answered # ws.question
QuestionStopsTheLoop == [][OpenQuestion => \A s \in Source : made'[s] <= made[s]]_vars
=============================================================================
