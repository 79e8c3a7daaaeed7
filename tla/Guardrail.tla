------------------------------ MODULE Guardrail ------------------------------
(***************************************************************************)
(* The guardrail (guardrail.ts): a requested action is judged by rules     *)
(* and the decision is recorded under the action's ID for ever.  What the  *)
(* rules look at besides the action changes: an approval lapses, a target  *)
(* is quarantined by evidence in the evaluation store (which is under .dal *)
(* itself).  A decision that would be another one now is stale.            *)
(*                                                                         *)
(* An action is a record: class (of its capability: "allowed", "sensitive",*)
(* "denied" or "unclassified"), fits (its budget, tool and sandbox are     *)
(* within policy), target (None or an artifact), approval (it names one).  *)
(***************************************************************************)
EXTENDS EvidenceStore

CONSTANTS ActionIds, Artifacts,
          Requests,     \* actions, each with the approval that comes along or none
          RateLimit     \* policy.max_policy_checks_per_window

ASSUME RateAssumption == RateLimit \in Nat

Decision(i) == <<"guardrail", i, "decision">>
HardStop(artifact) == <<"evaluations", artifact, "scorecard">>

Rule(id, effect) == [id |-> id, effect |-> effect]

Quarantined(action) == action.target # None /\ Has(HardStop(action.target))
Verified(action, approval) == approval /\ action.approval /\ outside.approvalStands

SensitiveRules(action, approval) ==
    IF Verified(action, approval)
    THEN {Rule("approval-verified", "allowed"), Rule("v0-executor-disabled", "denied")}
    ELSE {Rule("approval-required", "requires_human_approval")}

CapabilityRules(action, approval) ==
    CASE action.class = "allowed"      -> {Rule("capability-allowed", "allowed")}
      [] action.class = "sensitive"    -> SensitiveRules(action, approval)
      [] action.class = "denied"       -> {Rule("capability-denied", "denied")}
      [] action.class = "unclassified" -> {Rule("capability-unclassified", "denied")}

(* evaluateGuardrailAction: the rules that match now.                      *)
Rules(action, approval) ==
    CapabilityRules(action, approval)
    \cup (IF action.fits THEN {Rule("within-policy", "allowed")} ELSE {Rule("budget-or-boundary", "denied")})
    \cup {rule \in {Rule("artifact-quarantined", "denied")} : Quarantined(action)}
    \cup {rule \in {Rule("unexpected-approval", "denied")} : action.approval /\ action.class # "sensitive"}

(* overallEffect: the strongest effect of a matched rule.                  *)
Overall(rules) ==
    IF \E rule \in rules : rule.effect = "denied" THEN "denied"
    ELSE IF \E rule \in rules : rule.effect = "requires_human_approval" THEN "requires_human_approval"
    ELSE "allowed"

Evaluate(action, approval) ==
    [action |-> action, rules |-> Rules(action, approval),
     effect |-> Overall(Rules(action, approval)), approved |-> approval]

(* sameDecisionState: the rules and the approval, as they are now.         *)
Current(decision, action, approval) ==
    /\ decision.rules = Rules(action, approval)
    /\ decision.approved = approval

(* recordGuardrailDecision: "read" holds the request until it is judged.   *)
Record(c, i, action, approval) ==
    /\ Start(c, Command("guardrail", IF Has(Decision(i)) THEN "compare" ELSE "limit",
                        Decision(i), None, [action |-> action, approval |-> approval]))
    /\ UNCHANGED <<files, outside>>

Recent == {p \in Named("guardrail", "decision") : p \notin outside.aged}

EnforceRateLimit(c) ==
    /\ call[c].at = "limit"
    /\ IF Cardinality(Recent) >= RateLimit THEN Finish(c, "limit") ELSE Goto(c, "evaluate")
    /\ UNCHANGED <<files, outside>>

Judge(c) ==
    /\ call[c].at = "evaluate"
    /\ Update(c, [call[c] EXCEPT !.at = "publish", !.want = Evaluate(call[c].read.action, call[c].read.approval)])
    /\ UNCHANGED <<files, outside>>

(* An existing decision, or the one that won the race.                     *)
Repeat(c) ==
    /\ call[c].op = "guardrail" /\ call[c].at = "compare"
    /\ LET request == call[c].read
       IN  Finish(c, IF ~Has(call[c].path) THEN "refused"
                     ELSE IF Found(c).action # request.action THEN "conflict"
                     ELSE IF Current(Found(c), request.action, request.approval) THEN "idempotent"
                     ELSE "stale")
    /\ UNCHANGED <<files, outside>>

(* Evidence of a hard stop; the approval expires; the window moves on.     *)
Quarantine(artifact) ==
    /\ ~Has(HardStop(artifact))
    /\ files' = With(HardStop(artifact), "quarantine")
    /\ UNCHANGED <<call, made, outside>>
ApprovalLapses ==
    /\ outside.approvalStands
    /\ outside' = [outside EXCEPT !.approvalStands = FALSE]
    /\ UNCHANGED <<files, call, made>>
WindowPasses ==
    /\ Recent # {}
    /\ outside' = [outside EXCEPT !.aged = Named("guardrail", "decision")]
    /\ UNCHANGED <<files, call, made>>

GuardrailNext ==
    \/ \E c \in Caller, i \in ActionIds, request \in Requests :
         Record(c, i, request.action, request.approval)
    \/ \E c \in Caller : EnforceRateLimit(c) \/ Judge(c) \/ Repeat(c)
    \/ \E artifact \in Artifacts : Quarantine(artifact)
    \/ ApprovalLapses \/ WindowPasses

(* The rate limit is passed by less than the number of commands that run   *)
(* at the same time.                                                       *)
RateIsBounded == Cardinality(Recent) <= RateLimit + Cardinality(Caller) - 1
=============================================================================
