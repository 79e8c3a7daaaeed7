-------------------------- MODULE WorkflowEvaluation --------------------------
(* The service and the grader together: the evaluator fetches a snapshot,  *)
(* which is refused when the journal does not load, and grades it.         *)
EXTENDS WorkflowService

CONSTANT Tasks

G == INSTANCE WorkflowGrader

(* replay applies the successes in the order of the journal. *)
EffectsOf(kind) ==
    LET applied[n \in 0..Len(journal)] ==
          IF n = 0 THEN <<>>
          ELSE IF journal[n].outcome = "success" /\ journal[n].effect.kind = kind
               THEN Append(applied[n - 1], journal[n].effect)
               ELSE applied[n - 1]
    IN  applied[Len(journal)]

(* replay and projectServiceState: successes are applied in order, and the *)
(* evaluator's view leaves out what an order cost.                         *)
Snapshot ==
    LET refunds == EffectsOf("issue_refund")
        labels == EffectsOf("create_return_label")
        changes == EffectsOf("change_booking")
        Paid(o) == \E i \in DOMAIN refunds : refunds[i].order = o /\ refunds[i].amount >= Totals[o]
        Changes(b) == {i \in DOMAIN changes : changes[i].booking = b}
    IN  [orders   |-> [o \in DOMAIN Totals |->
                        [status |-> IF Paid(o) THEN "refunded" ELSE "delivered", total |-> G!NoTotal]],
         refunds  |-> [i \in DOMAIN refunds |->
                        [order |-> refunds[i].order, amount |-> refunds[i].amount, reason |-> refunds[i].reason]],
         labels   |-> [i \in DOMAIN labels |-> labels[i].order],
         bookings |-> [b \in Bookings |-> Cardinality(Changes(b))]]

Verdict(task) == G!GradeTask(task, Snapshot, journal)

(* The service and the evaluator hold the same policy on refunds: whatever *)
(* the agents did, no snapshot is faulted for a refund of an unknown order *)
(* or of more than the order's total, which the service promises to refuse *)
(* (unless the task itself starts from other orders than the service).     *)
ServiceKeepsPolicy ==
    ~torn => \A task \in Tasks :
      \A id \in Verdict(task).failed :
        id[1] = "policy" => id[2] \notin {"refund-unknown-order", "refund-exceeds-total"}
===============================================================================
