---------------------------- MODULE WorkflowGrader ----------------------------
(* The deterministic grader of workflow tasks (workflow-grader.ts) as      *)
(* operators.  A task is a record: goal (the expected value of some fields *)
(* of the state), totals (of the orders it starts with), required and      *)
(* forbidden (rules over effects).  A state has orders, refunds, labels    *)
(* and bookings; an order has a status and a total, NoTotal when the       *)
(* evaluator's projection dropped it.  Every weight is 1, the default.     *)
EXTENDS Integers, Sequences, FiniteSets

NoTotal == -1

GoalChecks(task, state) ==
  {[id |-> <<"goal", field>>, pass |-> state[field] = task.goal[field], gated |-> FALSE] :
     field \in DOMAIN task.goal}

RefundsGoalFailed(task, state) ==
  \E check \in GoalChecks(task, state) : check.id = <<"goal", "refunds">> /\ ~check.pass

(* Mutant: the total of an order is that of the state alone. *)
TotalOfState(task, state, order) ==
  IF state.orders[order].total # NoTotal THEN state.orders[order].total ELSE 0

TotalOf(task, state, order) ==
  IF state.orders[order].total # NoTotal THEN state.orders[order].total
  ELSE IF order \in DOMAIN task.totals THEN task.totals[order] ELSE 0

(* What a refund does wrong: the names of the policy checks it fails.      *)
Breaches(task, state, refund) ==
  IF refund.order \notin DOMAIN state.orders THEN {"refund-unknown-order"}
  ELSE LET total == TotalOf(task, state, refund.order)
           labelled == \E i \in DOMAIN state.labels : state.labels[i] = refund.order
       IN  {b \in {"refund-exceeds-total", "full-refund-requires-label", "partial-refund-requires-reason"} :
              \/ b = "refund-exceeds-total" /\ refund.amount > total
              \/ b = "full-refund-requires-label" /\ refund.amount = total /\ total > 0 /\ ~labelled
              \/ b = "partial-refund-requires-reason"
                   /\ refund.amount < total /\ refund.amount > 0 /\ refund.reason = ""}

PolicyChecks(task, state) ==
  UNION {{[id |-> <<"policy", b, i>>, pass |-> FALSE, gated |-> RefundsGoalFailed(task, state)] :
            b \in Breaches(task, state, state.refunds[i])} : i \in DOMAIN state.refunds}

(* A rule names a kind, the parameters it insists on (here: the effect as  *)
(* a whole) and perhaps an outcome ("any" when it does not).               *)
Matches(rule, entry) ==
  rule.effect = entry.effect /\ rule.outcome \in {"any", entry.outcome}

EffectChecks(task, effects) ==
  LET Present(rule) == \E i \in DOMAIN effects : Matches(rule, effects[i])
  IN  {[id |-> <<"effect:evidence">>, pass |-> TRUE, gated |-> FALSE] :
         rule \in task.required \cup task.forbidden}
      \cup {[id |-> <<"effect:required", rule>>, pass |-> Present(rule), gated |-> FALSE] :
         rule \in task.required}
      \cup {[id |-> <<"effect:forbidden", rule>>, pass |-> ~Present(rule), gated |-> FALSE] :
         rule \in task.forbidden}

Checks(task, state, effects) ==
  LET all == GoalChecks(task, state) \cup PolicyChecks(task, state) \cup EffectChecks(task, effects)
  IN  IF all = {} THEN {[id |-> <<"goal:empty">>, pass |-> FALSE, gated |-> FALSE]} ELSE all

(* aggregate and the verdict: gated checks count neither way.              *)
GradeTask(task, state, effects) ==
  LET scored == {check \in Checks(task, state, effects) : ~check.gated}
  IN  [pass   |-> \A check \in scored : check.pass,
       earned |-> Cardinality({check \in scored : check.pass}),
       total  |-> Cardinality(scored),
       failed |-> {check.id : check \in {ch \in Checks(task, state, effects) : ~ch.pass}}]
===============================================================================
