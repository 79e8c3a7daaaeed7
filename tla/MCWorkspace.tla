------------------------------ MODULE MCWorkspace ------------------------------
(* Two commands of one store at the same time, three to five in all.       *)
EXTENDS Workspace, TLC

CONSTANTS c1, c2, f1, f2, f3

Request(class, fits, target, named, approval) ==
    [action |-> [class |-> class, fits |-> fits, target |-> target, approval |-> named],
     approval |-> approval]
MCRequests == {Request("allowed", TRUE, "artifact", FALSE, FALSE), Request("allowed", TRUE, None, TRUE, TRUE),
               Request("sensitive", TRUE, None, TRUE, TRUE), Request("sensitive", FALSE, None, TRUE, FALSE)}

Receipt(id, exec, content, pass) == [id |-> id, exec |-> exec, content |-> content, pass |-> pass]
MCOldResults == {[admission |-> "a1", candidate |-> "k1", nonce |-> 0, outcome |-> "passed"]}
MCReceipts == {Receipt("r1", "e1", "x1", TRUE), Receipt("r2", "e1", "x2", TRUE), Receipt("r1", "e2", "x3", FALSE)}
MCSymmetry == Permutations(Caller) \cup Permutations(RecordIds)
MCMaxCalls == [saga |-> 4, admission |-> 4, feedback |-> 4, reset |-> 3, guardrail |-> 4, branch |-> 4, seal |-> 4,
               control |-> 5, proposal |-> 5, cluster |-> 5, replay |-> 5]

Runtime(session, stable) == [session |-> session, manifest |-> "m1", stable |-> stable, proven |-> TRUE]
Run(batch, stage, runtime, business, check) ==
    [batch |-> batch, stage |-> stage, pins |-> "h1", runtime |-> runtime, context |-> "x1",
     succeeded |-> TRUE, failure |-> None, business |-> business, check |-> check]
MCRunContents ==
    {Run("b1", "checkpoint", Runtime("t1", TRUE), None, None),
     Run("b1", "final", Runtime("t1", TRUE), "passed", TRUE),
     Run("b1", "final", Runtime("t2", TRUE), "failed", FALSE),
     Run("b1", "final", Runtime("t2", TRUE), "failed", TRUE),
     Run("b1", "final", Runtime("t3", FALSE), None, TRUE),
     [Run("b1", "final", Runtime("t3", TRUE), None, TRUE) EXCEPT !.context = "x2"]}
\* two kinds of failure, two batches, and a checkpoint of a run that failed
MCFailedRuns ==
    {Run("b1", "final", Runtime("t1", TRUE), "failed", FALSE), Run("b2", "final", Runtime("t1", TRUE), "failed", FALSE),
     [Run("b1", "final", Runtime("t2", TRUE), None, None) EXCEPT !.succeeded = FALSE, !.failure = "timeout"],
     Run("b1", "checkpoint", Runtime("t2", TRUE), "failed", FALSE)}
MCPlans == {[baseline |-> {1}, candidates |-> <<{2, 3}, {1, 2}>>, minimum |-> 1],
            [baseline |-> {}, candidates |-> <<{1}, {2}>>, minimum |-> 0]}
MCMetrics == {[source |-> "harness", minimum |-> 1], [source |-> "business", minimum |-> 2],
              [source |-> "check", minimum |-> 1]}

MCSuites == {[target |-> "v1", passes |-> TRUE], [target |-> "v2", passes |-> TRUE]}
ApprovalDecision(id, version, value, reviewer, until) ==
    [id |-> id, candidate |-> version, value |-> value, reviewer |-> reviewer, until |-> until]
\* two of them have the same ID
MCDecisions == {ApprovalDecision("d1", "v1", "approved", "ann", 2), ApprovalDecision("d2", "v2", "approved", "ann", 3),
                ApprovalDecision("d3", "v1", "rejected", "ann", 3), ApprovalDecision("d1", "v2", "approved", "bob", 3)}
Entry(to, by) == [to |-> to, by |-> by, at |-> 1]
Early == <<Entry("observed", "tool"), Entry("normalized", "tool"), Entry("human_reviewed", "ann"),
           Entry("proposed", "tool")>>
Evaluated == Early \o <<Entry("sandbox_evaluated", "tool"), Entry("awaiting_decision", "tool")>>
MCProposal(stage, history, candidate, evaluation) ==
    [stage |-> stage, history |-> history, candidate |-> candidate, predicted |-> TRUE,
     evaluation |-> evaluation, decision |-> None, measured |-> FALSE]
\* one that awaits a decision and one that already says it was approved
MCAuthored == {MCProposal("awaiting_decision", Evaluated, "v1", Scorecard(1)),
               [MCProposal("approved", Append(Evaluated, Entry("approved", "ann")), "v1", Scorecard(1))
                  EXCEPT !.decision = "d1"]}
\* a proposal as its author leaves it when a human has reviewed it
MCAuthoredEarly == {[MCProposal("human_reviewed", SubSeq(Early, 1, 3), None, None) EXCEPT !.predicted = FALSE]}
===============================================================================
