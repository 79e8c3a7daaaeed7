------------------------ MODULE ImprovementProposals ------------------------
(***************************************************************************)
(* Evaluations (evaluation.ts) and the life of an improvement proposal     *)
(* (improvement.ts, approval.ts).  Every stage of a proposal is a file of  *)
(* its own: a transition reads one, checks it, and publishes the next.     *)
(* Between two transitions people edit what the next stage needs: the      *)
(* candidate, the prediction, the evaluation, the measurements.  History,  *)
(* stage and decision_ref are only written by transitions and by whoever   *)
(* writes a first file.  The candidate itself is a file outside the        *)
(* stores: outside.artifact is the version that is there now.              *)
(*                                                                         *)
(* One proposal.  A record: stage; history (of to, by, at); candidate (a   *)
(* version or None); predicted; evaluation (the path of a scorecard or     *)
(* None); decision (an ID or None); measured.                              *)
(***************************************************************************)
EXTENDS EvidenceStore

CONSTANTS Versions,    \* of the candidate's artifact, by digest
          Suites,      \* target (a version), passes: all its cases and limits
          Decisions,   \* approval decisions: id, candidate, value, reviewer, until
          Humans, Actors, Times,
          Authored     \* proposals that people wrote themselves

Stages == {"observed", "normalized", "human_reviewed", "proposed", "sandbox_evaluated", "awaiting_decision",
           "approved", "rejected", "applied", "measured"}
Entries == [to : Stages, by : Actors, at : Times]
IsProposal(p) ==
    /\ DOMAIN p = {"stage", "history", "candidate", "predicted", "evaluation", "decision", "measured"}
    /\ p.stage \in Stages /\ p.history \in Seq(Entries)

ASSUME AuthoredAssumption == \A p \in Authored : IsProposal(p)    \* of any stage

NextStages ==
    [observed |-> {"normalized"}, normalized |-> {"human_reviewed"}, human_reviewed |-> {"proposed"},
     proposed |-> {"sandbox_evaluated"}, sandbox_evaluated |-> {"awaiting_decision"},
     awaiting_decision |-> {"approved", "rejected"}, approved |-> {"applied"}, rejected |-> {},
     applied |-> {"measured"}, measured |-> {}]
HumanStages == {"human_reviewed", "approved", "rejected"}
DecidedStages == {"approved", "rejected", "applied", "measured"}
EvaluatedStages == {"sandbox_evaluated", "awaiting_decision"} \cup DecidedStages
CandidateStages == {"proposed"} \cup EvaluatedStages

Scorecard(n) == <<"evaluations", n, "scorecard">>
ProposalFile(n) == <<"proposals", n, "state">>
Proposals == Authored \cup {files[p] : p \in Named("proposals", "state")}

TargetMatches(suite) == outside.artifact = suite.target

(* evaluationHardStopReasons: none.                                        *)
Result(suite, matched) == IF matched /\ suite.passes THEN "pass" ELSE "hard_stop"

(* runEvaluationSuite: the cases run, then the scorecard is validated like *)
(* any other, against the target as it is by then.                         *)
RunSuite(c, suite) ==
    /\ Start(c, Command("suite", "replay", Scorecard(made),
                        [suite |-> suite, matched |-> TargetMatches(suite),
                         result |-> Result(suite, TargetMatches(suite))], None))
    /\ UNCHANGED <<files, outside>>

(* validateEvaluationScorecard, as long as suite and policy stay the same: *)
(* the result follows from the cases and the target as they are now.       *)
ScorecardValid(card) ==
    /\ card.matched = TargetMatches(card.suite)
    /\ card.result = Result(card.suite, TargetMatches(card.suite))

Replay(c) ==
    /\ call[c].op = "suite" /\ call[c].at = "replay"
    /\ IF ScorecardValid(call[c].want) THEN Goto(c, "publish") ELSE Finish(c, "refused")
    /\ UNCHANGED <<files, outside>>

(* scorecardIssues: there are none                                         *)
ScorecardFits(p) ==
    /\ Has(p.evaluation)
    /\ ScorecardValid(files[p.evaluation])
    /\ files[p.evaluation].result = "pass"
    /\ files[p.evaluation].suite.target = p.candidate
    /\ outside.artifact = p.candidate

(* validateProposal                                                        *)
HistoryValid(p) ==
    /\ p.history[Len(p.history)].to = p.stage
    /\ \A n \in DOMAIN p.history :
         /\ p.history[n].to \in HumanStages => p.history[n].by \in Humans
         /\ n > 1 => /\ p.history[n].to \in NextStages[p.history[n - 1].to]
                     /\ p.history[n].at >= p.history[n - 1].at

ProposalValid(p) ==
    /\ HistoryValid(p)
    /\ p.predicted = (p.stage \in CandidateStages)
    /\ p.stage \in CandidateStages => p.candidate # None
    /\ (p.decision # None) = (p.stage \in DecidedStages)
    /\ p.stage = "measured" => p.measured
    /\ p.stage \in EvaluatedStages => p.evaluation # None /\ ScorecardFits(p)

(* What people make of a file before its next transition.                  *)
Edit(p, candidate, predicted, evaluation) ==
    [p EXCEPT !.candidate = candidate, !.predicted = predicted, !.evaluation = evaluation,
              !.measured = p.stage = "applied"]
Edited(p) ==
    {q \in {Edit(p, candidate, predicted, evaluation) :
              candidate \in Versions \cup {None}, predicted \in BOOLEAN,
              evaluation \in Named("evaluations", "scorecard") \cup {None}} : ProposalValid(q)}

(* validateApprovalDecision, verifyApproval and assertProposalDecision; a  *)
(* decision holds from the first time on, and lapses at its "until".       *)
Decides(d, p, to, by) == d.value = to /\ d.candidate = p.candidate /\ d.reviewer = by
InTime(d, at) == at < d.until

(* Mutant: a decision that was used in time may be used again later. *)
SupportedOnce(p, to, by, at, d) ==
    CASE to = "approved" -> d # None /\ Decides(d, p, to, by) /\ InTime(d, at)
      [] to = "rejected" -> d # None /\ Decides(d, p, to, by)
      [] to = "applied"  -> d # None /\ d.value = "approved" /\ d.candidate = p.candidate /\ d.id = p.decision
      [] OTHER           -> d = None

(* transitionProposal: the decision a transition needs, or none.           *)
Supported(p, to, by, at, d) ==
    CASE to = "approved" -> d # None /\ Decides(d, p, to, by) /\ InTime(d, at)
      [] to = "rejected" -> d # None /\ Decides(d, p, to, by)
      [] to = "applied"  -> /\ d # None /\ d.value = "approved" /\ d.candidate = p.candidate
                            /\ InTime(d, at) /\ d.id = p.decision
      [] OTHER           -> d = None

Allowed(p, to, by, at, d) ==
    /\ to \in NextStages[p.stage]
    /\ to \in HumanStages => by \in Humans
    /\ at >= p.history[Len(p.history)].at
    /\ Supported(p, to, by, at, d)

Moved(p, to, by, at, d) ==
    [p EXCEPT !.stage = to, !.history = Append(@, [to |-> to, by |-> by, at |-> at]),
              !.decision = IF to \in {"approved", "rejected"} THEN d.id ELSE @]

(* improvementTransition: reads and checks the file.  A request that is    *)
(* denied at once leaves nothing behind and is not a step.                 *)
Transition(c, p, to, by, at, d) ==
    /\ Allowed(p, to, by, at, d)
    /\ \E name \in {0, made} :
         Start(c, Command("transition", "decide", ProposalFile(name), Moved(p, to, by, at, d), p))
    /\ UNCHANGED <<files, outside>>

(* Checks it again before, and once more after.                            *)
Decide(c) ==
    /\ call[c].op = "transition" /\ call[c].at = "decide"
    /\ IF ProposalValid(call[c].read) THEN Goto(c, "revalidate") ELSE Finish(c, "refused")
    /\ UNCHANGED <<files, outside>>

Revalidate(c) ==
    /\ call[c].op = "transition" /\ call[c].at = "revalidate"
    /\ IF ProposalValid(call[c].want) THEN Goto(c, "publish") ELSE Finish(c, "refused")
    /\ UNCHANGED <<files, outside>>

EditArtifact(version) ==
    /\ outside.artifact # version
    /\ outside' = [outside EXCEPT !.artifact = version]
    /\ UNCHANGED <<files, call, made>>

ProposalNext ==
    \/ \E c \in Caller, suite \in Suites : RunSuite(c, suite)
    \/ \E c \in Free, p \in Proposals :
         \E q \in Edited(p), to \in NextStages[p.stage], by \in Actors, at \in Times,
            d \in Decisions \cup {None} : Transition(c, q, to, by, at, d)
    \/ \E c \in Caller :
         \/ Replay(c) \/ Decide(c) \/ Revalidate(c)
         \/ call[c].op \in {"suite", "transition"} /\ Compare(c, FALSE)
    \/ \E version \in Versions : EditArtifact(version)

(* The proposal that was applied as p, as its approval left it: people may *)
(* have edited what the application checks again, but not these.           *)
AppliedFrom(q, p) ==
    q.stage = "approved" /\ q.decision = p.decision /\ p.history = Append(q.history, p.history[Len(p.history)])
DecisionApproves(e, q) ==
    LET entry == q.history[Len(q.history)]
    IN  e.id = q.decision /\ Decides(e, q, "approved", entry.by) /\ InTime(e, entry.at)

(* An applied proposal was authorised, whatever was edited, evaluated or   *)
(* decided in between and whoever wrote its first file: a decision of the  *)
(* ID it names approves the candidate it applies and stood at that time,   *)
(* its evaluation is a passing scorecard of that candidate, and it was     *)
(* applied from a proposal that either people wrote as approved or was     *)
(* approved in time by the reviewer of a decision of that ID.              *)
AppliedIsAuthorized ==
    \A path \in Named("proposals", "state") :
      LET p == files[path]
      IN  p.stage = "applied" =>
            /\ \E d \in Decisions : /\ d.id = p.decision /\ d.value = "approved" /\ d.candidate = p.candidate
                                    /\ InTime(d, p.history[Len(p.history)].at)
            /\ files[p.evaluation].result = "pass" /\ files[p.evaluation].suite.target = p.candidate
            /\ \E q \in Proposals :
                 AppliedFrom(q, p) /\ (q \in Authored \/ \E e \in Decisions : DecisionApproves(e, q))

(* One might expect more, that the decision of the application is the one  *)
(* of the approval.  It is not when its ID names two decisions, or when    *)
(* the first file already says approved: only the ID is compared.          *)
ApprovalIsOfApplied ==
    \A path \in Named("proposals", "state") :
      LET p == files[path]
          last == Len(p.history)
      IN  p.stage = "applied" =>
            \E d \in Decisions :
              /\ d.id = p.decision /\ d.value = "approved" /\ d.candidate = p.candidate
              /\ d.reviewer = p.history[last - 1].by
              /\ InTime(d, p.history[last - 1].at) /\ InTime(d, p.history[last].at)

(* What docs/spec.md says: "the machine model supports this ordered        *)
(* lifecycle", so a proposal can be taken from any of its early stages to  *)
(* the next one.                                                           *)
OrderCanBeFollowed ==
    \A p \in Proposals :
      p.stage \in {"observed", "normalized", "human_reviewed"} =>
        \E q \in Edited(p), to \in NextStages[p.stage], by \in Actors, at \in Times :
          Allowed(q, to, by, at, None) /\ ProposalValid(Moved(q, to, by, at, None))
=============================================================================
