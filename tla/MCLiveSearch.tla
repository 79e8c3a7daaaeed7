----------------------------- MODULE MCLiveSearch -----------------------------
(* The search of a campaign: three candidates, so that the second round    *)
(* expands two parents in parallel, and one crash anywhere.                *)
EXTENDS LiveCampaign

CONSTANTS base, g1

MCGeneration == {base, g1}
MCEvaluated == <<"dev", "qual">>
MCDevelopment == {"dev"}
MCCanaries == <<"canary">>
MCCaller == 1..MaxParallelism
MCAnswer == Verdict \cup {Invalid} \cup Generation
MCOperation ==
  {<<"baseline", 0, k>> : k \in {"dev", "qual"}}
  \cup {<<"proposal", n, NoCase>> : n \in 0..(CandidateLimit - 1)}
  \cup {<<"candidate", n, k>> : n \in 0..(CandidateLimit - 1), k \in {"dev", "qual"}}
  \cup {<<"probe", 0, "canary">>}
MCGrants == {GrantAction}
MCNone == {}

SearchNext == \/ StartPrepare /\ history = <<>>
              \/ StartRun
              \/ Supervise
              \/ \E c \in Caller : Chain(c)
              \/ Crash \/ Recover
SearchSpec == Init /\ [][SearchNext]_vars

(* Bound: no candidate can qualify over a baseline that passes its only    *)
(* qualification case, and no order depends on the baseline's development. *)
BaselineMisses == \A k \in {"dev", "qual"} : receipt[EvalOp(1, k)] # "pass"
===============================================================================
