----------------------------- MODULE MCLivePromotion -----------------------------
(* The whole life of a campaign with one candidate: review, promotion,     *)
(* rejection, canary, rollback and tasks, with changing authority.         *)
EXTENDS LiveCampaign

CONSTANTS base, g1, a1, a2, task1, task2

MCGeneration == {base, g1}
MCEvaluated == <<"dev", "qual">>
MCDevelopment == {"dev"}
MCCanaries == <<"canary">>
MCCaller == 1..MaxParallelism
MCAnswer == Verdict \cup {Invalid} \cup Generation
MCOperation ==
  {<<"baseline", 0, k>> : k \in {"dev", "qual"}}
  \cup {<<"proposal", n, NoCase>> : n \in 0..(CandidateLimit - 1)}
  \cup {<<"candidate", n, k>> : n \in 0..(CandidateLimit - 1), k \in {"dev", "qual"}}
  \cup {<<"probe", 0, "canary">>}
  \cup {<<"task", 0, t>> : t \in TaskName}
MCApproval == {a1, a2}
MCOneApproval == {a1}
MCTask == {task1, task2}
MCNoTask == {}
MCGrants == {GrantAction, {}}
MCFullGrants == {GrantAction}

(* Neither the reviewer's files nor the tasks differ but by name. *)
MCSymmetry == Permutations(MCApproval) \cup Permutations(MCTask)

(* Bound: development verdicts steer the search, not the promotion. *)
DevelopmentPasses == \A i \in 1..2 : receipt[EvalOp(i, "dev")] # "miss"
===============================================================================
