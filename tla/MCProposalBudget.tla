--------------------------- MODULE MCProposalBudget ---------------------------
(* Two calls at a time over a ledger that has room for one of two          *)
(* requests until its cap is extended.                                     *)
EXTENDS ProposalBudget, TLC

CONSTANTS w1, w2, r1, r2

MCWriter == {w1, w2}
MCSymmetry == Permutations(MCWriter)
MCRequest == {r1, r2}
MCCost == [r \in {r1, r2} |-> IF r = r1 THEN 1 ELSE 2]
MCCap == {2, 3}
===============================================================================
