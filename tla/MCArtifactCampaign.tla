-------------------------- MODULE MCArtifactCampaign --------------------------
(* Two clients, a root workspace w, a workspace and a cache that attempts  *)
(* may produce, and a plan with room for two small attempts or a large one.*)
EXTENDS ArtifactCampaign, TLC

CONSTANTS c1, c2, n1, n2, w, x

MCClient == {c1, c2}
MCNode == {n1, n2}
MCArtifact == {w, x}
MCRoot == {w}
MCWorkspace == {w, x}
MCAmount == {1, 2}
Says(outcome, outputs, metric, usage) ==
  [outcome |-> outcome, outputs |-> outputs, metric |-> metric, usage |-> usage]
MCReport == {Says("completed", {x}, 1, 1), Says("completed", {}, 2, None),
             Says("completed", {w}, 2, 1),
             Says("failed", {x}, None, 2),
             Says("unknown", {x}, None, None), Says("unknown", {}, None, 1)}
MCSymmetry == Permutations(MCClient) \cup Permutations(MCNode)
===============================================================================
