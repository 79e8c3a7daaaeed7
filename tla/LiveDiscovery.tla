----------------------------- MODULE LiveDiscovery -----------------------------
(***************************************************************************)
(* The discovery policy of src/src/live/dream.ts: which recorded nodes a   *)
(* round expands, and what an alternative policy would have revealed of a  *)
(* recorded tree.  A tree is a sequence of nodes [parent, round, score];   *)
(* node 1 is the root and has parent 0.  A plan allows at most eight       *)
(* candidates, so the ids node-0 .. node-7 order as the positions do.      *)
(***************************************************************************)
EXTENDS Naturals, Sequences, FiniteSets, SequencesExt

Strategies == {"breadth_first", "development_first"}

(* Childless nodes, and the root, which may open sibling branches. *)
Available(tree, seen) ==
  {i \in seen : i = 1 \/ \A j \in seen : tree[j].parent # i}

Precedes(tree, strategy, i, j) ==
  IF strategy = "breadth_first"
  THEN \/ i = 1 /\ j # 1
       \/ /\ i # 1 /\ j # 1
          /\ \/ tree[i].round < tree[j].round
             \/ tree[i].round = tree[j].round /\ i < j
  ELSE \/ i # 1 /\ j = 1
       \/ /\ i # 1 /\ j # 1
          /\ \/ tree[i].score > tree[j].score
             \/ tree[i].score = tree[j].score /\ i < j

FirstOf(seq, n) == SubSeq(seq, 1, IF n < Len(seq) THEN n ELSE Len(seq))

(* selectDiscoveryBatch: the parents of the next round, in expansion order; *)
(* a node's place is given by how many others precede it.                   *)
SelectBatch(tree, seen, strategy, width) ==
  LET available == Available(tree, seen)
      before(i) == {j \in available : Precedes(tree, strategy, j, i)}
      place(k)  == CHOOSE i \in available : Cardinality(before(i)) = k - 1
  IN  FirstOf([k \in 1..Cardinality(available) |-> place(k)], width)

(* Mutant: the latest child is revealed first. *)
NextChildLast(tree, seen, parent) ==
  LET hidden == {j \in DOMAIN tree \ seen : tree[j].parent = parent}
  IN  {j \in hidden : \A k \in hidden : k <= j}

(* childrenFor: the first recorded child that is not revealed yet. *)
NextChild(tree, seen, parent) ==
  LET hidden == {j \in DOMAIN tree \ seen : tree[j].parent = parent}
  IN  {j \in hidden : \A k \in hidden : j <= k}

(* The nodes revealed after `rounds` rounds of a policy. *)
Revealed(tree, strategy, width, rounds) ==
  LET after[n \in 0..rounds] ==
        IF n = 0 THEN {1}
        ELSE LET batch == SelectBatch(tree, after[n-1], strategy, width)
             IN  after[n-1] \cup
                 UNION {NextChild(tree, after[n-1], batch[k]) : k \in DOMAIN batch}
  IN  after[rounds]

(* Rounds that revealed something: the loop stops at the first that does not. *)
UsefulRounds(tree, strategy, width, rounds) ==
  Cardinality({n \in 1..rounds : Revealed(tree, strategy, width, n)
                                   # Revealed(tree, strategy, width, n-1)})

(* The trees an online exploration can record: every one of its rounds     *)
(* expands exactly the batch its prefix selects, cut at the candidate      *)
(* limit, and no node is of a later round.                                 *)
Explored(tree, rounds, strategy, width, limit) ==
  LET upTo(r) == {i \in DOMAIN tree : tree[i].round <= r}
  IN  /\ upTo(rounds) = DOMAIN tree
      /\ \A r \in 1..rounds :
           LET seen  == upTo(r - 1)
               batch == FirstOf(SelectBatch(tree, seen, strategy, width),
                                limit + 1 - Cardinality(seen))
               next(k) == Cardinality(seen) + k
           IN  /\ batch # <<>>
               /\ upTo(r) \ seen = {next(k) : k \in DOMAIN batch}
               /\ \A k \in DOMAIN batch : tree[next(k)].parent = batch[k]
===============================================================================
