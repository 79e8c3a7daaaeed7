---------------------------- MODULE MCModelGateway ----------------------------
(* Three handlers of one gateway, and nobody else, over a ledger that has  *)
(* room for one of two requests.                                           *)
EXTENDS ModelGateway, TLC

CONSTANTS h1, h2, h3, r1, r2

MCHandler == {h1, h2, h3}
MCTwo == {h1, h2}
MCRequest == {r1, r2}
MCCost == [r \in {r1, r2} |-> IF r = r1 THEN 1 ELSE 2]
MCCap == {2}
MCSymmetry == Permutations(MCHandler)
===============================================================================
