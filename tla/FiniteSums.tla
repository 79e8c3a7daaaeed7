------------------------------ MODULE FiniteSums ------------------------------
(***************************************************************************)
(* Induction over numbers, and sums over finite sets as the folds of the   *)
(* community modules compute them.  The library states induction for an    *)
(* operator; here it is stated for a set of numbers, and follows from the  *)
(* well-foundedness of inclusion between finite sets.                      *)
(***************************************************************************)
EXTENDS Naturals, FiniteSets, FiniteSetTheorems, WellFoundedInduction, TLAPS

(* A set of numbers that is not empty has a least one.                     *)
LEMMA LeastNumber ==
  ASSUME NEW S \in SUBSET Nat, S # {}
  PROVE  \E n \in S : \A m \in S : n <= m
<1> DEFINE R == StrictSubsetOrdering(Nat)
           T == {0..n : n \in S}
<1>1. IsWellFoundedOn(R, FiniteSubsetsOf(Nat))
  BY FS_StrictSubsetOrderingWellFounded
<1>2. T \subseteq FiniteSubsetsOf(Nat) /\ T # {}
  <2>1. \A n \in S : 0..n \in SUBSET Nat /\ IsFiniteSet(0..n)
    BY FS_Interval
  <2> QED BY <2>1 DEF FiniteSubsetsOf
<1> HIDE DEF R, T
<1>3. PICK x \in T : \A y \in T : ~ (<<y, x>> \in R)
  BY WFMin, <1>1, <1>2
<1>4. PICK n \in S : x = 0..n
  BY <1>3 DEF T
<1>5. ASSUME NEW m \in S, m < n
      PROVE  FALSE
  <2>1. 0..m \in T /\ 0..m \in SUBSET Nat /\ 0..n \in SUBSET Nat /\ 0..m \subseteq 0..n
    BY <1>5 DEF T
  <2>2. n \in 0..n /\ n \notin 0..m
    BY <1>5
  <2> QED BY <1>3, <1>4, <2>1, <2>2 DEF R, StrictSubsetOrdering
<1> QED BY <1>5

(* A set of natural numbers up to some bound has a greatest element. *)
LEMMA GreatestNumber ==
  ASSUME NEW b \in Nat, NEW S \in SUBSET (0..b), S # {}
  PROVE  \E n \in S : \A m \in S : m <= n
<1> DEFINE U == {b - m : m \in S}
<1>1. U \in SUBSET Nat /\ U # {}
  <2>1. \A m \in S : m \in Nat /\ b - m \in Nat
    OBVIOUS
  <2> QED BY <2>1
<1>2. PICK u \in U : \A v \in U : u <= v
  <2> HIDE DEF U
  <2> QED BY <1>1, LeastNumber
<1>3. PICK n \in S : u = b - n
  BY <1>2
<1>4. ASSUME NEW m \in S
      PROVE  m <= n
  <2>1. b - m \in U
    OBVIOUS
  <2>2. u <= b - m
    BY <1>2, <2>1
  <2> QED BY <1>3, <2>2
<1> QED BY <1>3, <1>4

(* Induction, for sets of numbers: a number that is missing would have a   *)
(* least one before which none is.                                         *)
LEMMA NumbersInduct ==
  ASSUME NEW S \in SUBSET Nat, 0 \in S, \A n \in S : n + 1 \in S
  PROVE  S = Nat
<1>1. SUFFICES ASSUME Nat \ S # {}
               PROVE  FALSE
  OBVIOUS
<1>2. PICK n \in Nat \ S : \A m \in Nat \ S : n <= m
  BY <1>1, LeastNumber
<1>3. n # 0 /\ n - 1 \in Nat /\ n - 1 \in S
  BY <1>2
<1> QED BY <1>2, <1>3

-------------------------------------------------------------------------------
Some(s) == CHOOSE x \in s : TRUE
ButSome(s) == s \ {Some(s)}
UpTo(S, n) == {s \in SUBSET S : Cardinality(s) <= n}

(* f adds the values v up over every set of D, as the folds do.            *)
Sums(f, v, D) == f = [s \in D |-> IF s = {} THEN 0 ELSE v[Some(s)] + f[ButSome(s)]]

(* A sum over a finite set of numbers, what it says, and values that agree.*)
Adds(f, v, S) == IsFiniteSet(S) /\ Sums(f, v, SUBSET S) /\ \A x \in S : v[x] \in Nat
Splits(f, v, S) == f[S] \in Nat /\ \A x \in S : f[S] = v[x] + f[S \ {x}]
SameOn(v, u, S) == \A x \in S : v[x] = u[x]

(* What is left when one element is taken out. *)
LEMMA OthersAre ==
  ASSUME NEW s, IsFiniteSet(s), s # {}
  PROVE  /\ Some(s) \in s /\ ButSome(s) \subseteq s /\ IsFiniteSet(ButSome(s))
         /\ Cardinality(s) \in Nat /\ Cardinality(s) > 0
         /\ Cardinality(ButSome(s)) = Cardinality(s) - 1
<1>1. Some(s) \in s
  BY DEF Some
<1>2. /\ IsFiniteSet(ButSome(s)) /\ Cardinality(ButSome(s)) = Cardinality(s) - 1
  BY <1>1, FS_RemoveElement DEF ButSome
<1>3. Cardinality(s) \in Nat /\ Cardinality(s) # 0
  BY FS_CardinalityType, FS_EmptySet
<1> QED BY <1>1, <1>2, <1>3 DEF ButSome

(* There is such a function over the subsets of a finite set: it is built  *)
(* up by their size.                                                       *)
LEMMA SumsExist ==
  ASSUME NEW v, NEW S, IsFiniteSet(S)
  PROVE  \E f : Sums(f, v, SUBSET S)
<1> DEFINE N == {n \in Nat : \E f : Sums(f, v, UpTo(S, n))}
<1>0. \A s \in SUBSET S : IsFiniteSet(s) /\ Cardinality(s) \in Nat /\ Cardinality(s) <= Cardinality(S)
  BY FS_Subset, FS_CardinalityType
<1>1. 0 \in N
  <2> DEFINE f == [s \in UpTo(S, 0) |-> 0]
  <2>1. \A s \in UpTo(S, 0) : s = {}
    BY <1>0, FS_EmptySet DEF UpTo
  <2>2. Sums(f, v, UpTo(S, 0))
    BY <2>1 DEF Sums
  <2> HIDE DEF f
  <2> QED BY <2>2
<1>2. ASSUME NEW n \in N
      PROVE  n + 1 \in N
  <2>1. n \in Nat /\ \E f : Sums(f, v, UpTo(S, n))
    OBVIOUS
  <2>2. PICK f : Sums(f, v, UpTo(S, n))
    BY <2>1
  <2> DEFINE g == [s \in UpTo(S, n + 1) |->
                     IF s = {} THEN 0 ELSE v[Some(s)] + f[ButSome(s)]]
  <2>3. ASSUME NEW s \in UpTo(S, n + 1), s # {}
        PROVE  g[ButSome(s)] = f[ButSome(s)]
    <3>1. ButSome(s) \in UpTo(S, n) /\ ButSome(s) \in UpTo(S, n + 1)
      <4>1. s \in SUBSET S /\ Cardinality(s) <= n + 1
        BY DEF UpTo
      <4>2. /\ ButSome(s) \in SUBSET S /\ Cardinality(ButSome(s)) \in Nat
            /\ Cardinality(ButSome(s)) = Cardinality(s) - 1 /\ Cardinality(s) \in Nat
        BY <1>0, <2>3, <4>1, OthersAre
      <4> QED BY <2>1, <4>1, <4>2 DEF UpTo
    <3>2. f[ButSome(s)] = IF ButSome(s) = {} THEN 0 ELSE v[Some(ButSome(s))] + f[ButSome(ButSome(s))]
      BY <2>2, <3>1 DEF Sums
    <3> QED BY <3>1, <3>2
  <2>4. Sums(g, v, UpTo(S, n + 1))
    BY <2>3 DEF Sums
  <2> HIDE DEF g
  <2> QED BY <2>1, <2>4
<1> HIDE DEF N
<1>3. N = Nat
  BY <1>1, <1>2, NumbersInduct DEF N
<1>4. UpTo(S, Cardinality(S)) = SUBSET S
  BY <1>0 DEF UpTo
<1>5. Cardinality(S) \in N
  BY <1>3, FS_CardinalityType
<1> QED BY <1>4, <1>5 DEF N

(* The sum of a set does not depend on the larger set it is taken from.    *)
LEMMA SumsAgree ==
  ASSUME NEW f, NEW v, NEW S, Adds(f, v, S), NEW g, NEW u, NEW T \in SUBSET S, Adds(g, u, T),
         SameOn(v, u, T)
  PROVE  f[T] = g[T]
<1> USE DEF Adds, SameOn
<1> DEFINE N == {n \in Nat : \A s \in SUBSET T : Cardinality(s) = n => f[s] = g[s]}
<1>0. \A s \in SUBSET T : s \in SUBSET S /\ IsFiniteSet(s) /\ Cardinality(s) \in Nat
  BY FS_Subset, FS_CardinalityType
<1>1. 0 \in N
  <2>1. \A s \in SUBSET T : Cardinality(s) = 0 => s = {}
    BY <1>0, FS_EmptySet
  <2>2. f[{}] = 0 /\ g[{}] = 0
    BY DEF Sums
  <2> QED BY <2>1, <2>2
<1>2. ASSUME NEW n \in N
      PROVE  n + 1 \in N
  <2>1. n \in Nat /\ \A s \in SUBSET T : Cardinality(s) = n => f[s] = g[s]
    OBVIOUS
  <2>2. ASSUME NEW s \in SUBSET T, Cardinality(s) = n + 1
        PROVE  f[s] = g[s]
    <3>1. s # {} /\ IsFiniteSet(s)
      BY <1>0, <2>1, <2>2, FS_EmptySet
    <3>2. Some(s) \in T /\ ButSome(s) \in SUBSET T /\ Cardinality(ButSome(s)) = n
      BY <2>1, <2>2, <3>1, OthersAre
    <3>3. f[ButSome(s)] = g[ButSome(s)]
      BY <2>1, <3>2
    <3>4. f[s] = v[Some(s)] + f[ButSome(s)] /\ g[s] = u[Some(s)] + g[ButSome(s)]
      BY <1>0, <3>1 DEF Sums
    <3> QED BY <3>2, <3>3, <3>4
  <2> QED BY <2>1, <2>2
<1> HIDE DEF N
<1>3. N = Nat
  BY <1>1, <1>2, NumbersInduct DEF N
<1>4. Cardinality(T) \in N /\ T \in SUBSET T
  BY <1>0, <1>3
<1> QED BY <1>4 DEF N

(* Whichever element is taken out of a set, its sum is that element's      *)
(* value and the sum of the others.                                        *)
LEMMA SumsSplit ==
  ASSUME NEW f, NEW v, NEW S, Adds(f, v, S)
  PROVE  Splits(f, v, S)
<1> USE DEF Adds
<1> DEFINE Fine(s) == f[s] \in Nat /\ \A x \in s : f[s] = v[x] + f[s \ {x}]
           N == {n \in Nat : \A s \in SUBSET S : Cardinality(s) <= n => Fine(s)}
<1>0. \A s \in SUBSET S : IsFiniteSet(s) /\ Cardinality(s) \in Nat
  BY FS_Subset, FS_CardinalityType
<1>1. 0 \in N
  <2>1. \A s \in SUBSET S : Cardinality(s) <= 0 => s = {}
    BY <1>0, FS_EmptySet
  <2>2. f[{}] = 0
    BY DEF Sums
  <2>3. Fine({})
    BY <2>2
  <2> HIDE DEF Fine
  <2> QED BY <2>1, <2>3
<1>2. ASSUME NEW n \in N
      PROVE  n + 1 \in N
  <2>1. n \in Nat /\ \A s \in SUBSET S : Cardinality(s) <= n => Fine(s)
    OBVIOUS
  <2>2. ASSUME NEW s \in SUBSET S, Cardinality(s) = n + 1
        PROVE  Fine(s)
    <3>1. s # {} /\ IsFiniteSet(s)
      BY <1>0, <2>1, <2>2, FS_EmptySet
    <3> HIDE DEF Fine, N
    <3>0. ASSUME NEW x \in s
          PROVE  s \ {x} \in SUBSET S /\ Cardinality(s \ {x}) = n
      <4>1. Cardinality(s \ {x}) = Cardinality(s) - 1
        BY <3>1, FS_RemoveElement
      <4> QED BY <2>1, <2>2, <4>1
    <3>2. PICK y \in s : y = Some(s) /\ ButSome(s) = s \ {y}
      BY <3>1, OthersAre DEF ButSome
    <3>3. s \ {y} \in SUBSET S /\ Fine(s \ {y})
      <4>1. s \ {y} \in SUBSET S /\ Cardinality(s \ {y}) <= n
        BY <2>1, <3>0
      <4> QED BY <2>1, <4>1
    <3> USE DEF Fine
    <3>4. f[s] = v[y] + f[s \ {y}]
      BY <1>0, <3>1, <3>2 DEF Sums
    <3>5. f[s] \in Nat
      BY <3>2, <3>3, <3>4
    <3>6. ASSUME NEW x \in s, x # y
          PROVE  f[s] = v[x] + f[s \ {x}]
      <4>1. PICK t \in SUBSET S : t = s \ {x}
        OBVIOUS
      <4>2. y \in t /\ Cardinality(t) <= n
        <5>1. Cardinality(t) = n
          BY <3>0, <4>1
        <5> QED BY <2>1, <3>6, <4>1, <5>1
      <4>3. PICK b \in SUBSET S : b = t \ {y} /\ b = (s \ {y}) \ {x}
        BY <4>1
      <4>4. Fine(t)
        BY <2>1, <4>2
      <4>5. Cardinality(b) <= n
        BY <1>0, <2>1, <4>2, <4>3, FS_RemoveElement
      <4>6. f[b] \in Nat
        BY <2>1, <4>5
      <4>7. f[t] = v[y] + f[b] /\ f[s \ {y}] = v[x] + f[b]
        BY <3>3, <3>6, <4>2, <4>3, <4>4
      <4>8. v[x] \in Nat /\ v[y] \in Nat
        OBVIOUS
      <4>9. f[s] = v[x] + f[t]
        BY <3>4, <4>6, <4>7, <4>8
      <4> QED BY <4>1, <4>9
    <3> QED BY <3>4, <3>5, <3>6
  <2> HIDE DEF Fine
  <2>3. \A s \in SUBSET S : Cardinality(s) <= n + 1 => Fine(s)
    BY <1>0, <2>1, <2>2
  <2> QED BY <2>1, <2>3
<1> HIDE DEF N
<1>3. N = Nat
  BY <1>1, <1>2, NumbersInduct DEF N
<1> HIDE DEF Fine
<1>4. \A s \in SUBSET S : Fine(s)
  BY <1>0, <1>3 DEF N
<1> QED BY <1>4 DEF Fine, Splits
===============================================================================
