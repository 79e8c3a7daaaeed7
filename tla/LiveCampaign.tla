----------------------------- MODULE LiveCampaign -----------------------------
(***************************************************************************)
(* The live text campaign of src/src/live/loop.ts: prepare, run, promote,  *)
(* reject, rollback, task, revoke and recover, over the files of           *)
(* .dal/live/<id>/.  Durable state is the hash-linked snapshot history,    *)
(* the pointer current.json, the prompt generations, the review records    *)
(* and the reservations and receipts of LiveOperations; everything else is *)
(* lost when the supervisor dies.  Every snapshot is published before the  *)
(* pointer, and a crash can fall between the two.                          *)
(***************************************************************************)
EXTENDS LiveOperations, LiveDiscovery

CONSTANTS
  Base,            \* the generation of plan.base_prompt
  EvaluatedCases,  \* the development and qualification cases, in plan order
  CanaryCases,     \* the canary cases, in plan order
  Development,     \* which of EvaluatedCases are development cases
  MinimumGain,     \* plan.minimum_gain, in qualification cases
  CandidateLimit,  \* plan.limits.candidates
  MaxParallelism,  \* exploration_policy.max_parallelism
  MaxRounds,       \* exploration_policy.max_rounds
  Strategy,        \* exploration_policy.strategy
  TaskName,        \* operation names given to dal live task
  ApprovalId,      \* decision files a reviewer may write
  HistoryLimit,    \* snapshots a loader accepts: 1001
  MaxCrashes       \* bound of the model: crashes of a supervisor

Qualification == ToSet(EvaluatedCases) \ Development
Invalid == "invalid"     \* a reply that is JSON but no well-formed proposal
Verdict == {"pass", "miss"}
NoCase == "-"

LiveOperation ==
  {<<"baseline", 0, k>> : k \in ToSet(EvaluatedCases)}
  \cup {<<"proposal", n, NoCase>> : n \in 0..(CandidateLimit - 1)}
  \cup {<<"candidate", n, k>> : n \in 0..(CandidateLimit - 1), k \in ToSet(EvaluatedCases)}
  \cup {<<"probe", 0, k>> : k \in ToSet(CanaryCases)}
  \cup {<<"task", 0, t>> : t \in TaskName}

(* validateLivePlan *)
ASSUME PlanAssumption ==
  /\ Operation = LiveOperation
  /\ Answer = Verdict \cup {Invalid} \cup Generation
  /\ Caller = 1..MaxParallelism
  /\ Base \in Generation /\ CandidateLimit \in Nat
  /\ EvaluatedCases \in Seq(ToSet(EvaluatedCases)) /\ CanaryCases \in Seq(ToSet(CanaryCases))
  /\ Development \subseteq ToSet(EvaluatedCases)
  /\ Development # {} /\ Qualification # {} /\ CanaryCases # <<>>
  /\ MinimumGain \in 1..Cardinality(Qualification)
  /\ MaxParallelism \in 1..CandidateLimit /\ MaxRounds \in 1..CandidateLimit
  /\ Strategy \in Strategies
  /\ Len(EvaluatedCases) * (1 + CandidateLimit) + CandidateLimit + Len(CanaryCases)
       <= Requests

(* At most 8 rounds, by the schema of the plan, and 1001 snapshots.        *)
ASSUME HistoryAssumption == HistoryLimit \in Nat /\ MaxRounds + 5 <= HistoryLimit

VARIABLES
  history,    \* the published snapshots, state-0000.json first
  pointer,    \* current.json: [seq, gen], or None before the first publication
  stored,     \* generations/: the published prompts
  reviews,    \* reviews/: the published review requests
  decisions,  \* reviews/: the published review decisions
  approvals,  \* the reviewer's decision files: [outcome, valid]
  lease,      \* lease.json: "free" or "held"
  run,        \* the command in progress: [cmd, at, next, arg]
  chain,      \* chain[c]: what expansion c of the command in progress is doing
  served,     \* history: every generation the pointer has named
  crashes     \* history: crashes so far

durable == <<history, pointer, stored, reviews, decisions, served>>
vars == <<opVars, durable, approvals, lease, run, chain, crashes>>

-------------------------------------------------------------------------------
(* What the files hold.  Of the codes a failure is recorded with, those    *)
(* are told apart that a command decides on; the rest is LIVE_FAILED.      *)
Searching == {"prepared", "baseline", "search"}
Outcome == {"approved", "rejected"}
ErrorCode == {"LIVE_FAILED", "LIVE_BUDGET_EXHAUSTED", "LIVE_CANARY_REGRESSION", "LIVE_REVIEW_REJECTED"}
ReviewRequest == [candidate : Generation, incumbent : Generation, seq : Nat, evidence : Nat]
ReviewDecision == [approval : ApprovalId, outcome : Outcome, candidate : Generation]
ReviewState == [request : ReviewRequest, decision : ReviewDecision \cup {None}]
LiveState ==
  [phase : Searching \cup {"awaiting_review", "probe", "complete", "rolled_back", "rejected",
                           "failed"},
   active : Generation, retained : Seq(Generation), evaluated : Seq(Generation),
   parent : Seq(Nat), round : Seq(Nat), rounds : Nat, review : ReviewState \cup {None},
   error : ErrorCode \cup {None}]
Pointer == [seq : Nat, gen : Generation]

ASSUME NoneIsNothing == None \notin Outcome \cup ReviewDecision \cup ReviewState \cup Pointer

-------------------------------------------------------------------------------
(* Snapshots.  Scores are not stored: the loader recomputes them from the  *)
(* receipts, so an evaluation is the generation it graded.                 *)

Prepared ==
  [phase |-> "prepared", active |-> Base, retained |-> <<Base>>, evaluated |-> <<>>,
   parent |-> <<>>, round |-> <<>>, rounds |-> 0, review |-> None, error |-> None]

Now == history[Len(history)]
Candidates(st) == IF st.evaluated = <<>> THEN 0 ELSE Len(st.evaluated) - 1

EvalOp(i, k) == IF i = 1 THEN <<"baseline", 0, k>> ELSE <<"candidate", i - 2, k>>
Passes(i, k) == receipt[EvalOp(i, k)] = "pass"
Score(i, cases) == Cardinality({k \in cases : Passes(i, k)})

(* What selected() requires of evaluation i of a state. *)
Eligible(i) ==
  /\ Score(i, Qualification) >= Score(1, Qualification) + MinimumGain
  /\ \A k \in Qualification : Passes(1, k) => Passes(i, k)

(* The stable sort keeps the earliest of the best eligible evaluations. *)
Winners(st) ==
  LET eligible == {i \in 2..Len(st.evaluated) : Eligible(i)}
      best(i) == \A j \in eligible :
                    \/ Score(j, Qualification) < Score(i, Qualification)
                    \/ Score(j, Qualification) = Score(i, Qualification) /\ i <= j
  IN  {st.evaluated[i] : i \in {j \in eligible : best(j)}}
Selected(st) == IF Winners(st) = {} THEN None ELSE CHOOSE g \in Winners(st) : TRUE

Tree(st) == [i \in DOMAIN st.evaluated |->
               [parent |-> st.parent[i], round |-> st.round[i],
                score |-> Score(i, Development)]]

(* stageReview: the evaluation it quotes is the first of that generation. *)
Request(st, seq, g) ==
  [candidate |-> g, incumbent |-> st.active, seq |-> seq,
   evidence |-> CHOOSE i \in DOMAIN st.evaluated :
                  /\ st.evaluated[i] = g
                  /\ \A j \in 1..(i - 1) : st.evaluated[j] # g]

(* loadState: what the loader demands of snapshot n. *)
ReviewLoads(n) ==
  LET st == history[n]
      review == st.review
  IN  /\ st.phase = "awaiting_review" => review # None
      /\ review # None =>
           /\ review.request \in reviews
           /\ review.request.seq < n
           /\ LET before == history[review.request.seq]
              IN  /\ Selected(before) = review.request.candidate
                  /\ review.request = Request(before, review.request.seq,
                                              review.request.candidate)
           /\ review.decision # None => review.decision \in decisions
           /\ st.phase = "awaiting_review" => review.decision = None
           /\ st.phase = "rejected" => review.decision.outcome = "rejected"
           /\ st.phase \in {"probe", "complete", "rolled_back"} =>
                review.decision.outcome = "approved"

SnapshotLoads(n) ==
  LET st == history[n]
  IN  /\ n = 1 => st = Prepared
      /\ n > 1 => Candidates(st) >= Candidates(history[n-1])
      /\ Candidates(st) <= CandidateLimit
      /\ st.retained[1] = Base
      /\ ToSet(st.retained) \cup ToSet(st.evaluated) \cup {st.active} \subseteq stored
      /\ \A i \in DOMAIN st.evaluated, k \in ToSet(EvaluatedCases) :
           /\ intent[EvalOp(i, k)] = st.evaluated[i]
           /\ receipt[EvalOp(i, k)] \in Verdict
      /\ st.rounds <= MaxRounds
      /\ Explored(Tree(st), st.rounds, Strategy, MaxParallelism, CandidateLimit)
      /\ st.active # Base => st.active = Selected(st)
      /\ ReviewLoads(n)

HistoryLoads == \A n \in DOMAIN history : SnapshotLoads(n)
(* Mutant: the snapshots are not counted. *)
LoadsAnyLength == history # <<>> /\ HistoryLoads

Loads == history # <<>> /\ Len(history) <= HistoryLimit /\ HistoryLoads

Current == [seq |-> Len(history), gen |-> Now.active]
PointerAgrees ==
  \/ pointer = Current
  \/ /\ Now.phase = "probe"
     /\ pointer = [seq |-> Len(history) - 1, gen |-> Now.review.request.incumbent]

-------------------------------------------------------------------------------
NoRun == [cmd |-> "none", at |-> "idle", next |-> "idle", arg |-> None]
NoChain == [kind |-> "none", index |-> 0, gen |-> None, todo |-> <<>>]

Init ==
  /\ OpInit
  /\ history = <<>> /\ pointer = None /\ stored = {}
  /\ reviews = {} /\ decisions = {}
  /\ approvals = [a \in ApprovalId |-> [outcome |-> None, valid |-> FALSE]]
  /\ lease = "free" /\ run = NoRun
  /\ chain = [c \in Caller |-> NoChain]
  /\ served = {} /\ crashes = 0

Move(at) == run' = [run EXCEPT !.at = at]
Busy(cmd, at) == run.cmd = cmd /\ run.at = at
Quiet == UNCHANGED opVars /\ UNCHANGED chain

(* saveState publishes the snapshot first; Point moves current.json next. *)
SaveState(st, next) ==
  /\ history' = Append(history, st)
  /\ run' = [run EXCEPT !.at = "point", !.next = next]
  /\ UNCHANGED <<pointer, stored, reviews, decisions, served>>

PublishPointer ==
  /\ pointer' = Current
  /\ served' = served \cup {Now.active}
  /\ UNCHANGED <<history, stored, reviews, decisions>>

Point ==
  /\ run.at = "point"
  /\ PublishPointer
  /\ Move(run.next)
  /\ UNCHANGED <<approvals, lease, crashes>> /\ Quiet

(* Mutant: the failure is not recorded as final. *)
StopRetryable(code) ==
  SaveState([Now EXCEPT !.active = Last(Now.retained), !.error = code], "release")

(* The catch blocks: compensation to the newest retained generation. *)
Stop(code) ==
  SaveState([Now EXCEPT !.phase = "failed", !.active = Last(Now.retained), !.error = code],
            "release")

Unlease ==
  /\ run.at = "release"
  /\ lease' = "free"
  /\ run' = NoRun
  /\ UNCHANGED <<durable, approvals, crashes>> /\ Quiet

-------------------------------------------------------------------------------
(* Expansions.  A chain walks the operations of one evaluation, or of one  *)
(* proposal and the evaluation of the candidate it yields.                 *)

OpKind(kind) == IF kind = "expand" THEN "proposal" ELSE kind

ChainFor(kind, index, g, cases) ==
  [kind |-> kind, index |-> index, gen |-> g, todo |-> Tail(cases)]
CallFor(kind, index, g, cases) ==
  [at |-> "admit", op |-> <<OpKind(kind), index, Head(cases)>>, gen |-> g]

(* One chain on caller 1: the baseline, a probe, a task. *)
StartAlone(kind, g, cases) ==
  /\ chain' = [c \in Caller |-> IF c = 1 THEN ChainFor(kind, 0, g, cases) ELSE NoChain]
  /\ call' = [c \in Caller |-> IF c = 1 THEN CallFor(kind, 0, g, cases) ELSE Idle]
  /\ UNCHANGED <<intent, receipt, granted, revoked, sent, late>>

(* Mutant: the parents are taken in reverse. *)
StartBatchReversed(batch) ==
  /\ chain' = [c \in Caller |->
                 IF c \in DOMAIN batch
                 THEN [NoChain EXCEPT !.kind = "open",
                                      !.gen = Now.evaluated[batch[Len(batch) + 1 - c]],
                                      !.index = Candidates(Now) + c - 1]
                 ELSE NoChain]
  /\ UNCHANGED opVars

(* Mutant: the expansions are not numbered apart. *)
StartBatchUnnumbered(batch) ==
  /\ chain' = [c \in Caller |->
                 IF c \in DOMAIN batch
                 THEN [NoChain EXCEPT !.kind = "open", !.gen = Now.evaluated[batch[c]],
                                      !.index = Candidates(Now)]
                 ELSE NoChain]
  /\ UNCHANGED opVars

(* One expansion per parent of the batch; none has issued a call yet. *)
StartBatch(batch) ==
  /\ chain' = [c \in Caller |->
                 IF c \in DOMAIN batch
                 THEN [NoChain EXCEPT !.kind = "open", !.gen = Now.evaluated[batch[c]],
                                      !.index = Candidates(Now) + c - 1]
                 ELSE NoChain]
  /\ UNCHANGED opVars

Elsewhere == UNCHANGED <<durable, approvals, lease, run, crashes>>

Replies(o) ==
  {Failed} \cup IF o[1] = "proposal" THEN Generation \cup {Invalid} ELSE Verdict

Call(c) ==
  /\ call[c].at \notin {"idle", "done", "error"}
  /\ CallStep(c, Replies(call[c].op))
  /\ UNCHANGED chain /\ Elsewhere

NextOperation(c, kind, index, g, cases) ==
  /\ chain' = [chain EXCEPT ![c] = ChainFor(kind, index, g, cases)]
  /\ call' = [call EXCEPT ![c] = CallFor(kind, index, g, cases)]
  /\ UNCHANGED <<intent, receipt, granted, revoked, sent, late>>

EndChain(c, kind) ==
  /\ chain' = [chain EXCEPT ![c].kind = kind]
  /\ call' = [call EXCEPT ![c] = Idle]
  /\ UNCHANGED <<intent, receipt, granted, revoked, sent, late>>

Result(c) == receipt[call[c].op]

(* The parent's generation file is read, then the proposal is requested. *)
Open(c) ==
  /\ chain[c].kind = "open"
  /\ NextOperation(c, "expand", chain[c].index, chain[c].gen, <<NoCase>>)
  /\ Elsewhere

(* A graded case: the next one, or the end of the evaluation; a probe      *)
(* stops at the first canary that misses.                                  *)
Graded(c) ==
  /\ call[c].at = "done" /\ chain[c].kind \in {"baseline", "candidate", "probe", "task"}
  /\ IF chain[c].kind = "probe" /\ Result(c) = "miss" THEN EndChain(c, "missed")
     ELSE IF chain[c].todo = <<>> THEN EndChain(c, "ended")
     ELSE NextOperation(c, chain[c].kind, chain[c].index, chain[c].gen, chain[c].todo)
  /\ Elsewhere

(* A proposal becomes a candidate: saveGeneration first looks for the file. *)
Proposed(c) ==
  /\ call[c].at = "done" /\ chain[c].kind = "expand"
  /\ IF Result(c) = Invalid THEN EndChain(c, "failed")
     ELSE IF Result(c) \in stored
     THEN NextOperation(c, "candidate", chain[c].index, Result(c), EvaluatedCases)
     ELSE /\ chain' = [chain EXCEPT ![c] = [@ EXCEPT !.kind = "publish", !.gen = Result(c)]]
          /\ call' = [call EXCEPT ![c] = Idle]
          /\ UNCHANGED <<intent, receipt, granted, revoked, sent, late>>
  /\ Elsewhere

(* ... and publishes it.  A sibling that published the same prompt in the  *)
(* meantime did so with its own hypothesis, equal to this one or not.      *)
StoreGeneration(c) ==
  /\ chain[c].kind = "publish"
  /\ stored' = stored \cup {chain[c].gen}
  /\ \/ NextOperation(c, "candidate", chain[c].index, chain[c].gen, EvaluatedCases)
     \/ chain[c].gen \in stored /\ EndChain(c, "failed")
  /\ UNCHANGED <<history, pointer, reviews, decisions, served>>
  /\ UNCHANGED <<approvals, lease, run, crashes>>

Broken(c) ==
  /\ call[c].at = "error"
  /\ EndChain(c, "failed")
  /\ Elsewhere

Chain(c) == Call(c) \/ Open(c) \/ Graded(c) \/ Proposed(c) \/ StoreGeneration(c)
            \/ Broken(c)

Working == \E c \in Caller : chain[c].kind \notin {"none", "ended", "missed", "failed"}
BatchFailed == \E c \in Caller : chain[c].kind = "failed"
BatchEnded == \A c \in Caller : chain[c].kind \in {"none", "ended"}
Forget == chain' = [c \in Caller |-> NoChain]

Stay == UNCHANGED <<approvals, lease, crashes>>

-------------------------------------------------------------------------------
(* withLease: a command starts by creating lease.json.  Every command      *)
(* refuses a failed campaign once it has loaded it, without any effect, so *)
(* none is started on one here.                                            *)
Start(cmd, arg) ==
  /\ lease = "free"
  /\ lease' = "held"
  /\ run' = [cmd |-> cmd, at |-> "load", next |-> "idle", arg |-> arg]
  /\ UNCHANGED <<durable, approvals, crashes>> /\ Quiet

Ongoing == history # <<>> /\ Now.phase # "failed"

StartPrepare == Start("prepare", None)
StartRun == Ongoing /\ Authorized("send_text") /\ Start("run", None)
StartPromote == Ongoing /\ \E a \in ApprovalId : Start("promote", a)
StartReject == Ongoing /\ \E a \in ApprovalId : Start("reject", a)
StartRollback == Ongoing /\ Authorized("rollback_prompt") /\ Start("rollback", None)
StartTask == Ongoing /\ \E t \in TaskName : Start("task", t)

(* prepareLive *)
PrepareFiles ==
  /\ Busy("prepare", "load")
  /\ stored' = stored \cup {Base}
  /\ Move("first")
  /\ UNCHANGED <<history, pointer, reviews, decisions, served>> /\ Stay /\ Quiet

PrepareState ==
  /\ Busy("prepare", "first")
  /\ IF history = <<>> THEN SaveState(Prepared, "release")
                        ELSE Move("release") /\ UNCHANGED durable
  /\ Stay /\ Quiet

-------------------------------------------------------------------------------
(* runLive *)
(* The pointer is repaired only while no decision is recorded yet. *)
RunLoad ==
  /\ Busy("run", "load")
  /\ IF Loads /\ Now.phase \in Searching \cup {"awaiting_review"}
     THEN PublishPointer
     ELSE UNCHANGED durable
  /\ Move(IF Loads /\ Now.phase \in Searching THEN "baseline" ELSE "release")
  /\ Stay /\ Quiet

RunBaseline ==
  /\ Busy("run", "baseline")
  /\ IF Now.evaluated = <<>>
     THEN StartAlone("baseline", Base, EvaluatedCases) /\ Move("grade")
     ELSE Quiet /\ Move("round")
  /\ UNCHANGED durable /\ Stay

RunGraded ==
  /\ Busy("run", "grade")
  /\ \/ BatchFailed /\ Stop("LIVE_FAILED") /\ UNCHANGED chain
     \/ /\ BatchEnded /\ Forget
        /\ SaveState([Now EXCEPT !.phase = "baseline", !.evaluated = <<Base>>,
                                  !.parent = <<0>>, !.round = <<0>>], "round")
  /\ UNCHANGED opVars /\ Stay

(* assertBatchAllocation counts every reservation, those of this batch     *)
(* that an interrupted run already made included.                          *)
BatchCost(batch) == Len(batch) * (1 + Len(EvaluatedCases))
Funded(batch) == Cardinality(Reserved) + BatchCost(batch) <= Requests

Batch == FirstOf(SelectBatch(Tree(Now), DOMAIN Now.evaluated, Strategy, MaxParallelism),
                 CandidateLimit - Candidates(Now))

RunRound ==
  /\ Busy("run", "round")
  /\ \/ /\ Candidates(Now) < CandidateLimit /\ Now.rounds < MaxRounds
        /\ \/ ~Funded(Batch) /\ Stop("LIVE_BUDGET_EXHAUSTED") /\ Quiet
           \/ Funded(Batch) /\ StartBatch(Batch) /\ Move("expand") /\ UNCHANGED durable
     \/ /\ Candidates(Now) = CandidateLimit \/ Now.rounds = MaxRounds
        /\ Move("select") /\ UNCHANGED durable /\ Quiet
  /\ Stay

(* Mutant: a failed expansion is not noticed. *)
RunExpandedDeaf ==
  /\ Busy("run", "expand")
  /\ BatchEnded /\ Forget
  /\ LET n == Cardinality({c \in Caller : chain[c].kind = "ended"})
     IN  SaveState([Now EXCEPT !.phase = "search", !.rounds = @ + 1,
                      !.evaluated = @ \o [c \in 1..n |-> chain[c].gen],
                      !.parent = @ \o FirstOf(Batch, n),
                      !.round = @ \o [c \in 1..n |-> Now.rounds + 1]], "round")
  /\ UNCHANGED opVars /\ Stay

(* Promise.all rejects with the first failure; the siblings are not        *)
(* stopped.                                                                *)
RunExpanded ==
  /\ Busy("run", "expand")
  /\ \/ BatchFailed /\ Stop("LIVE_FAILED") /\ UNCHANGED chain
     \/ /\ BatchEnded /\ Forget
        /\ LET n == Cardinality({c \in Caller : chain[c].kind = "ended"})
           IN  SaveState([Now EXCEPT !.phase = "search", !.rounds = @ + 1,
                            !.evaluated = @ \o [c \in 1..n |-> chain[c].gen],
                            !.parent = @ \o FirstOf(Batch, n),
                            !.round = @ \o [c \in 1..n |-> Now.rounds + 1]], "round")
  /\ UNCHANGED opVars /\ Stay

RunSelect ==
  /\ Busy("run", "select")
  /\ IF Selected(Now) \in {None, Base}
     THEN SaveState([Now EXCEPT !.phase = "complete"], "release")
     ELSE /\ reviews' = reviews \cup {Request(Now, Len(history), Selected(Now))}
          /\ Move("stage")
          /\ UNCHANGED <<history, pointer, stored, decisions, served>>
  /\ Stay /\ Quiet

RunStage ==
  /\ Busy("run", "stage")
  /\ SaveState([Now EXCEPT !.phase = "awaiting_review",
                   !.review = [request |-> Request(Now, Len(history), Selected(Now)),
                               decision |-> None]], "release")
  /\ Stay /\ Quiet

-------------------------------------------------------------------------------
(* promoteLive and rejectLive *)
RulesAny(a, outcome) == approvals[a].valid   \* mutant: the outcome is not read
Rules(a, outcome) == approvals[a] = [outcome |-> outcome, valid |-> TRUE]
Decision(outcome) == [approval |-> run.arg, outcome |-> outcome,
                      candidate |-> Now.review.request.candidate]

PromoteLoad ==
  /\ Busy("promote", "load")
  /\ IF Loads /\ Now.phase \in {"awaiting_review", "probe"} /\ Rules(run.arg, "approved")
     THEN Move("authorize") ELSE Move("release")
  /\ UNCHANGED durable /\ Stay /\ Quiet

(* Before the activation an error changes nothing; afterwards it fails the *)
(* campaign and restores the retained generation.                          *)
PromoteFails == IF Now.phase = "awaiting_review"
                THEN Move("release") /\ UNCHANGED durable
                ELSE Stop("LIVE_FAILED")

PromoteAuthorize ==
  /\ Busy("promote", "authorize")
  /\ IF \A action \in GrantAction : Authorized(action)
     THEN /\ Move(IF Now.phase = "awaiting_review" THEN "decide" ELSE "resume")
          /\ UNCHANGED durable
     ELSE PromoteFails
  /\ Stay /\ Quiet

(* Mutant: the decision is not published before the activation. *)
PromoteDecideUnrecorded ==
  /\ Busy("promote", "decide")
  /\ IF Rules(run.arg, "approved") /\ Authorized("activate_prompt")
     THEN Move("activate") /\ UNCHANGED durable
     ELSE PromoteFails
  /\ Stay /\ Quiet

PromoteDecide ==
  /\ Busy("promote", "decide")
  /\ IF Rules(run.arg, "approved") /\ Authorized("activate_prompt")
     THEN /\ decisions' = decisions \cup {Decision("approved")}
          /\ Move("activate")
          /\ UNCHANGED <<history, pointer, stored, reviews, served>>
     ELSE PromoteFails
  /\ Stay /\ Quiet

PromoteActivate ==
  /\ Busy("promote", "activate")
  /\ SaveState([Now EXCEPT !.phase = "probe", !.active = Now.review.request.candidate,
                           !.review.decision = Decision("approved")], "canary")
  /\ Stay /\ Quiet

(* A probe that was interrupted: only the recorded decision may finish it. *)
PromoteResume ==
  /\ Busy("promote", "resume")
  /\ IF /\ Now.review.decision.approval = run.arg
        /\ Rules(run.arg, "approved") /\ Authorized("activate_prompt")
     THEN PublishPointer /\ Move("canary")
     ELSE PromoteFails
  /\ Stay /\ Quiet

PromoteCanary ==
  /\ Busy("promote", "canary")
  /\ StartAlone("probe", pointer.gen, CanaryCases)
  /\ Move("verify") /\ UNCHANGED durable /\ Stay

PromoteVerify ==
  /\ Busy("promote", "verify")
  /\ \/ BatchFailed /\ Stop("LIVE_FAILED")
     \/ /\ chain[1].kind = "missed"
        /\ SaveState([Now EXCEPT !.phase = "rolled_back", !.active = Last(Now.retained),
                         !.error = "LIVE_CANARY_REGRESSION"], "release")
     \/ BatchEnded /\ ~Authorized("activate_prompt") /\ Stop("LIVE_FAILED")
     \/ /\ BatchEnded /\ Authorized("activate_prompt")
        /\ SaveState([Now EXCEPT !.phase = "complete",
                         !.retained = IF Now.active \in ToSet(@) THEN @
                                      ELSE Append(@, Now.active)], "release")
  /\ Forget /\ UNCHANGED opVars /\ Stay

RejectLoad ==
  /\ Busy("reject", "load")
  /\ IF Loads /\ Now.phase = "awaiting_review" /\ Rules(run.arg, "rejected")
     THEN /\ decisions' = decisions \cup {Decision("rejected")}
          /\ Move("record")
          /\ UNCHANGED <<history, pointer, stored, reviews, served>>
     ELSE Move("release") /\ UNCHANGED durable
  /\ Stay /\ Quiet

RejectRecord ==
  /\ Busy("reject", "record")
  /\ SaveState([Now EXCEPT !.phase = "rejected", !.error = "LIVE_REVIEW_REJECTED",
                           !.review.decision = Decision("rejected")], "release")
  /\ Stay /\ Quiet

-------------------------------------------------------------------------------
(* rollbackLive and taskLive serve only a settled campaign whose pointer   *)
(* agrees with its history.                                                *)
(* Mutant: an interrupted probe already serves. *)
ServingProbe ==
  Loads /\ Now.phase \in {"complete", "rolled_back", "probe"} /\ PointerAgrees

Serving == Loads /\ Now.phase \in {"complete", "rolled_back"} /\ PointerAgrees

Rollback ==
  /\ Busy("rollback", "load")
  /\ LET kept == Now.retained
         below == IF Len(kept) > 1 THEN Len(kept) - 1 ELSE 1
     IN  IF Serving
         THEN SaveState([Now EXCEPT !.phase = "rolled_back", !.active = kept[below],
                                    !.retained = SubSeq(kept, 1, below), !.error = None],
                        "release")
         ELSE Move("release") /\ UNCHANGED durable
  /\ Stay /\ Quiet

TaskLoad ==
  /\ Busy("task", "load")
  /\ IF Serving THEN StartAlone("task", pointer.gen, <<run.arg>>) /\ Move("work")
                ELSE Quiet /\ Move("release")
  /\ UNCHANGED durable /\ Stay

TaskDone ==
  /\ Busy("task", "work")
  /\ ~Working
  /\ Forget /\ Move("release")
  /\ UNCHANGED <<opVars, durable>> /\ Stay

-------------------------------------------------------------------------------
(* The reviewer writes a decision file for the staged request; it expires. *)
Review ==
  /\ \/ \E a \in ApprovalId, outcome \in {"approved", "rejected"} :
          /\ reviews # {} /\ approvals[a].outcome = None
          /\ approvals' = [approvals EXCEPT ![a] = [outcome |-> outcome, valid |-> TRUE]]
     \/ \E a \in ApprovalId :
          /\ approvals[a].valid
          /\ approvals' = [approvals EXCEPT ![a].valid = FALSE]
  /\ UNCHANGED <<durable, lease, run, crashes>> /\ Quiet

Authority ==
  /\ Revoke \/ \E actions \in Grants : Regrant(actions)
  /\ UNCHANGED chain /\ Elsewhere

Crash ==
  /\ crashes < MaxCrashes
  /\ run.cmd # "none" \/ Working
  /\ crashes' = crashes + 1
  /\ run' = NoRun
  /\ Forget /\ OpCrash
  /\ UNCHANGED <<durable, approvals, lease>>

(* recoverLive, once the owner of the lease is dead. *)
Recover ==
  /\ lease = "held" /\ run.cmd = "none"
  /\ lease' = "free"
  /\ UNCHANGED <<durable, approvals, run, crashes>> /\ Quiet

Supervise ==
  \/ Point \/ Unlease
  \/ PrepareFiles \/ PrepareState
  \/ RunLoad \/ RunBaseline \/ RunGraded \/ RunRound \/ RunExpanded \/ RunSelect \/ RunStage
  \/ PromoteLoad \/ PromoteAuthorize \/ PromoteDecide \/ PromoteActivate
  \/ PromoteResume \/ PromoteCanary \/ PromoteVerify
  \/ RejectLoad \/ RejectRecord \/ Rollback \/ TaskLoad \/ TaskDone

Command == \/ StartPrepare \/ StartRun \/ StartPromote
           \/ StartReject \/ StartRollback \/ StartTask

Next == \/ Command
        \/ Supervise
        \/ \E c \in Caller : Chain(c)
        \/ Review \/ Authority \/ Crash \/ Recover

Spec == Init /\ [][Next]_vars

(* A supervisor keeps running its own steps, and the driver answers within *)
(* timeout_ms, so every started step of a live process is taken.           *)
Progress == /\ WF_vars(Supervise)
            /\ \A c \in Caller : WF_vars(Chain(c))

FairSpec == Spec /\ Progress

(* The operator recovers a dead lease and starts the run again.            *)
OperatedSpec == FairSpec /\ WF_vars(Recover) /\ WF_vars(StartPrepare /\ history = <<>>)
                         /\ SF_vars(StartRun)

-------------------------------------------------------------------------------
(* The loader accepts every history a supervisor can leave behind, but for *)
(* one: the snapshots, receipts and reviews of a campaign always agree,    *)
(* and it is refused for its length alone, when the rollback command, the  *)
(* only one that may be repeated, has published one snapshot too many.     *)
(* Every crash costs the pointer at most one publication, and the prompt   *)
(* it still names is the one that its snapshot made active.                *)
Settling == MaxRounds + 5   \* snapshots until a campaign is settled
Published == IF pointer = None THEN 0 ELSE pointer.seq
OverLimit ==
  /\ Len(history) = HistoryLimit + 1
  /\ \A n \in (Settling + 1)..Len(history) : history[n].phase = "rolled_back"
PointerFollows ==
  /\ Len(history) - Published <= crashes
  /\ pointer # None => pointer.seq \in DOMAIN history
                       /\ pointer.gen = history[pointer.seq].active
HistoryAccepted ==
  run.at = "load" /\ history # <<>> =>
    /\ HistoryLoads
    /\ Len(history) <= HistoryLimit \/ OverLimit
    /\ PointerFollows

(* Whatever was ever served besides the base prompt had an approved human  *)
(* decision on record and a measured gain without a regression.            *)
Approved(g) == \E d \in decisions : /\ d.candidate = g /\ d.outcome = "approved"
                                     /\ approvals[d.approval].outcome = "approved"
Qualified(g) == \E i \in 2..Len(Now.evaluated) : Now.evaluated[i] = g /\ Eligible(i)
HumanGate == \A g \in served \ {Base} : Approved(g) /\ Qualified(g)

(* Search, probes and tasks together stay inside the request allocation,   *)
(* whatever of it a failed or interrupted attempt has used up.             *)
AllocationHeld == Cardinality(Reserved) <= Requests

(* The tree names as a node's parent the generation its proposal was       *)
(* really requested for, also when a restart finished the expansion.       *)
ParentsAreTrue ==
  history # <<>> =>
    \A i \in 2..Len(Now.evaluated) :
      intent[<<"proposal", i - 2, NoCase>>] = Now.evaluated[Now.parent[i]]

(* A finished search can be dreamed about: replaying its tree under the    *)
(* plan's own policy reveals every node, in as many rounds as were run.    *)
Finished == /\ history # <<>> /\ Now.phase \in {"awaiting_review", "complete", "rejected",
                                                "rolled_back"}
            /\ Now.rounds = MaxRounds \/ Candidates(Now) = CandidateLimit
ReplayReproduces ==
  Finished => /\ Revealed(Tree(Now), Strategy, MaxParallelism, MaxRounds) = DOMAIN Now.evaluated
              /\ UsefulRounds(Tree(Now), Strategy, MaxParallelism, MaxRounds) = Now.rounds

(* A prompt is retained, and tasks run it, only after every canary passed. *)
Proven(g) == g = Base \/ \A k \in ToSet(CanaryCases) : receipt[<<"probe", 0, k>>] = "pass"
OnlyProvenPromptsWork ==
  /\ history # <<>> => \A g \in ToSet(Now.retained) : Proven(g)
  /\ \A t \in TaskName : intent[<<"task", 0, t>>] # None => Proven(intent[<<"task", 0, t>>])

(* Every started command of a live supervisor ends and gives the lease up. *)
CommandEnds == run.cmd # "none" ~> run.cmd = "none"

(* With standing authority the search comes to a decision, a result or a   *)
(* recorded failure, whatever crashes interrupt it.                        *)
Standing == ~revoked /\ granted = GrantAction
Settled == history # <<>> /\ Now.phase \notin Searching
CampaignSettles == <>[]Standing => <>Settled

(* The campaign uses the call protocol as LiveOperations assumes: however  *)
(* its commands, restarts and parallel expansions interleave, each of them *)
(* takes an operation up only while nobody else holds its name.  What is   *)
(* proved of the protocol therefore holds of its campaigns.                *)
CallProtocol == OpSpec

(* What is served follows PromptPromotion: only an approved candidate that *)
(* never served before is activated, only what was retained is restored.   *)
Promotion == INSTANCE PromptPromotion WITH
               Prompt   <- Generation,
               serving  <- IF pointer = None THEN Base ELSE pointer.gen,
               approved <- {d.candidate : d \in {e \in decisions : e.outcome = "approved"}},
               kept     <- {Base} \cup UNION {ToSet(history[n].retained) : n \in DOMAIN history}
PromotionSpec == Promotion!Spec

-------------------------------------------------------------------------------
(* What the documents and comments of the repository say, and the code     *)
(* does not keep.                                                          *)

(* "Compensation ... never sends another request", and "a live failed      *)
(* campaign requires a new plan/grant to start new attempts": nothing is   *)
(* sent once the failure is recorded.                                      *)
CompensationIsSilent ==
  [][history # <<>> /\ Now.phase = "failed" => sent' = sent]_vars

(* "Only a strict qualification gain with no baseline-passing case         *)
(* regression qualifies for review": the evaluation a request quotes is    *)
(* one that qualifies.                                                     *)
EvidenceQualifies == \A r \in reviews : Eligible(r.evidence)

(* "Resuming a completed operation reuses verified evidence": a plan that  *)
(* was accepted as sufficiently funded never runs out in its own search.   *)
SearchIsFunded == history # <<>> => Now.error # "LIVE_BUDGET_EXHAUSTED"

(* "An interrupted snapshot/pointer publication is reconciled by           *)
(* authorized `live run`": when run ends, the pointer is current again,    *)
(* unless a probe is waiting for promote.                                  *)
PointerReconciled ==
  run.cmd = "run" /\ run.at = "release" /\ Now.phase # "probe" => pointer = Current
===============================================================================
