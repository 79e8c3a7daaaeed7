------------------------------ MODULE MCWorkflow ------------------------------
(* Two agents that use one key for different effects, with status queries, *)
(* under services that never fail, that do not know, and that find out     *)
(* later; and effects the service must refuse for other reasons.           *)
EXTENDS WorkflowEvaluation, TLC

CONSTANTS a1, a2, k1, i1, i2, i3

IdSymmetry == Permutations({i1, i2, i3})

Refund(o, n) == [kind |-> "issue_refund", order |-> o, amount |-> n, reason |-> "late"]
Label(o) == [kind |-> "create_return_label", order |-> o]
Change(b) == [kind |-> "change_booking", booking |-> b]

MCTotals == [o \in {"o1"} |-> 2]
MCBookings == {"b1"}

Effect(a, e) == [agent |-> a, tool |-> "effect", key |-> k1, effect |-> e]
Status(a) == [agent |-> a, tool |-> "status", key |-> k1, effect |-> None]
ProfileOf(fault, resolution, requests, number, deaths) ==
    [faults |-> [kind \in Kinds |-> IF kind = "change_booking" THEN "definite_failure" ELSE fault],
     resolutions |-> [kind \in Kinds |-> resolution],
     requests |-> requests, calls |-> number, restarts |-> deaths]
Refunds == {Effect(a1, Refund("o1", 2)), Effect(a2, Refund("o1", 3)), Status(a1)}
Others == {Effect(a1, Label("o2")), Effect(a1, Change("b1")), Status(a1)}

\* a call more for one agent alone, so that what it learns of a call in flight
\* lets a second one in, and a third one meets the answers of both
MCProfiles == {ProfileOf("success", None, Refunds, 3, 1), ProfileOf("unknown", None, Refunds, 3, 1),
               ProfileOf("unknown", "success", Refunds, 3, 1),
               ProfileOf("unknown", "success", Others, 3, 1),
               ProfileOf("success", None, {Effect(a1, Refund("o1", 2)), Status(a1)}, 4, 0)}

MCTasks == {[goal |-> [refunds |-> <<>>], totals |-> MCTotals, required |-> {}, forbidden |-> {}],
            [goal |-> [labels |-> <<>>], totals |-> MCTotals,
             required |-> {[effect |-> Refund("o1", 2), outcome |-> "any"]},
             forbidden |-> {[effect |-> Refund("o1", 3), outcome |-> "success"]}]}
===============================================================================
