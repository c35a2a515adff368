-------------------------- MODULE Recursion_proofs --------------------------
(***************************************************************************)
(* Induction up to a bound, and what it says of recursive functions.       *)
(***************************************************************************)
EXTENDS Integers, FiniteSetTheorems, WellFoundedInduction, TLAPS

\* The natural numbers up to N, one after the other.
LEMMA Stepwise ==
    ASSUME NEW N \in Nat, NEW S,
           0 \in S, \A k \in 0 .. N : k \in S /\ k < N => k + 1 \in S
    PROVE  \A k \in 0 .. N : k \in S
<1> DEFINE Missing == {0 .. k : k \in (0 .. N) \ S}
<1> SUFFICES ASSUME Missing # {} PROVE FALSE
  OBVIOUS
<1>1. Missing \subseteq FiniteSubsetsOf(Nat)
  <2> SUFFICES ASSUME NEW k \in 0 .. N
               PROVE  0 .. k \in FiniteSubsetsOf(Nat)
    OBVIOUS
  <2>1. IsFiniteSet(0 .. k)
    BY FS_Interval
  <2> QED
    BY <2>1 DEF FiniteSubsetsOf
<1>2. PICK x \in Missing : \A y \in Missing : <<y, x>> \notin StrictSubsetOrdering(Nat)
  <2>1. IsWellFoundedOn(StrictSubsetOrdering(Nat), FiniteSubsetsOf(Nat))
    BY FS_StrictSubsetOrderingWellFounded
  <2> HIDE DEF Missing
  <2> QED
    BY <1>1, <2>1, WFMin
<1>3. PICK k \in (0 .. N) \ S : x = 0 .. k
  BY <1>2
<1>4. k - 1 \in (0 .. N) \ S
  BY <1>3
<1>5. 0 .. k - 1 \in Missing
  BY <1>4
<1>6. <<0 .. k - 1, 0 .. k>> \in StrictSubsetOrdering(Nat)
  BY <1>3 DEF StrictSubsetOrdering
<1> QED
  BY <1>2, <1>3, <1>5, <1>6

\* The values of f are in V, and step leads from each to the next.
Runs(f, N, V, first, step) ==
    /\ f \in [0 .. N -> V]
    /\ f[0] = first
    /\ \A i \in 1 .. N : f[i] = step[i][f[i - 1]]

Steps(step, N, V) == step \in [1 .. N -> [V -> V]]

\* A function whose value at i depends on its value at i - 1 exists.
LEMMA Recursion ==
    ASSUME NEW N \in Nat, NEW V, NEW first \in V, NEW step, Steps(step, N, V)
    PROVE  \E f : Runs(f, N, V, first, step)
<1> USE DEF Steps, Runs
<1> DEFINE Defines(f, n) == Runs(f, n, V, first, step)
           Defined == {n \in 0 .. N : \E f : Defines(f, n)}
<1>1. 0 \in Defined
  <2>1. Defines([i \in 0 .. 0 |-> first], 0)
    OBVIOUS
  <2> HIDE DEF Defines
  <2> QED
    BY <2>1
<1>2. ASSUME NEW n \in 0 .. N, n \in Defined, n < N
      PROVE  n + 1 \in Defined
  <2>1. PICK f : Defines(f, n)
    BY <1>2
  <2> DEFINE g == [i \in 0 .. n + 1 |-> IF i = n + 1 THEN step[i][f[n]] ELSE f[i]]
  <2>2. step[n + 1] \in [V -> V] /\ f[n] \in V
    BY <1>2, <2>1
  <2>3. g \in [0 .. n + 1 -> V]
    BY <2>1, <2>2
  <2>4. g[0] = first
    BY <2>1
  <2>5. ASSUME NEW i \in 1 .. n + 1
        PROVE  g[i] = step[i][g[i - 1]]
    BY <2>1
  <2>6. Defines(g, n + 1)
    BY <2>3, <2>4, <2>5
  <2> HIDE DEF Defines
  <2> QED
    BY <1>2, <2>6
<1>3. PICK f : Defines(f, N)
  <2> HIDE DEF Defined
  <2>1. \A n \in 0 .. N : n \in Defined
    BY <1>1, <1>2, Stepwise
  <2> QED
    BY <2>1 DEF Defined
<1> QED
  BY <1>3

LEMMA RunsOn ==
    ASSUME NEW N \in Nat, NEW V, NEW first, NEW step, NEW f, Runs(f, N, V, first, step),
           NEW k \in 0 .. N
    PROVE  /\ f[0] = first
           /\ f[k] \in V
           /\ k < N => f[k + 1] = step[k + 1][f[k]]
<1>1. k < N => k + 1 \in 1 .. N /\ (k + 1) - 1 = k
  OBVIOUS
<1> QED
  BY <1>1 DEF Runs

\* Two functions that make the same steps from the same start end alike.
LEMMA Agreement ==
    ASSUME NEW N \in Nat, NEW f, NEW g, f[0] = g[0],
           \A k \in 0 .. N : k < N /\ f[k] = g[k] => f[k + 1] = g[k + 1]
    PROVE  f[N] = g[N]
<1> DEFINE Good == {k \in 0 .. N : f[k] = g[k]}
<1>1. 0 \in Good
  OBVIOUS
<1>2. ASSUME NEW k \in 0 .. N, k \in Good, k < N
      PROVE  k + 1 \in Good
  BY <1>2
<1> HIDE DEF Good
<1>3. \A k \in 0 .. N : k \in Good
  BY <1>1, <1>2, Stepwise
<1> QED
  BY <1>3 DEF Good
=============================================================================
