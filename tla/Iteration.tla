------------------------------- MODULE Iteration ------------------------------
(***************************************************************************)
(* Facts about the natural numbers that the proofs of several components   *)
(* use: the least element of a set, induction with the predicate given as  *)
(* a set, and functions that are defined by repeating a step.              *)
(***************************************************************************)
EXTENDS Integers, FiniteSetTheorems, TLAPS

\* A set of numbers that is not empty has a least element, which the searches
\* for a first match (First) choose.
LEMMA LeastElement ==
  ASSUME NEW S, S \subseteq Nat, S # {}
  PROVE  \E i \in S : \A j \in S : i <= j
<1> DEFINE R == StrictSubsetOrdering(Nat)
           T == {0 .. i - 1 : i \in S}
<1>1. T \subseteq FiniteSubsetsOf(Nat)
  <2> SUFFICES ASSUME NEW i \in S PROVE 0 .. i - 1 \in FiniteSubsetsOf(Nat)
    OBVIOUS
  <2>1. IsFiniteSet(0 .. i - 1)
    BY FS_Interval
  <2> QED BY <2>1 DEF FiniteSubsetsOf
<1>2. \E u \in T : \A v \in T : ~ (<<v, u>> \in R)
  <2>1. T # {}
    OBVIOUS
  <2> QED BY <1>1, <2>1, FS_StrictSubsetOrderingWellFounded, WFMin
<1>3. PICK i \in S : \A j \in S : ~ (<<0 .. j - 1, 0 .. i - 1>> \in R)
  BY <1>2
<1>4. ASSUME NEW j \in S, j < i PROVE FALSE
  <2>1. 0 .. j - 1 \in SUBSET Nat /\ 0 .. i - 1 \in SUBSET Nat
    OBVIOUS
  <2>2. 0 .. j - 1 \subseteq 0 .. i - 1
    BY <1>4
  <2>3. 0 .. j - 1 # 0 .. i - 1
    <3>1. j \in 0 .. i - 1 /\ j \notin 0 .. j - 1
      BY <1>4
    <3> QED BY <3>1
  <2> QED BY <1>3, <2>1, <2>2, <2>3 DEF StrictSubsetOrdering
<1> QED BY <1>4

\* Induction, with the set of the numbers that have the property.
LEMMA SetInduction ==
  ASSUME NEW S, 0 \in S, \A n \in Nat : n \in S => n + 1 \in S
  PROVE  \A n \in Nat : n \in S
<1> SUFFICES ASSUME Nat \ S # {} PROVE FALSE
  OBVIOUS
<1>1. PICK i \in Nat \ S : \A j \in Nat \ S : i <= j
  BY LeastElement
<1>2. i # 0 /\ i - 1 \in Nat /\ i - 1 \in S
  BY <1>1
<1> QED BY <1>2

\* f gives the states of a loop that repeats step, started in x, for n turns.
IsLoop(f, D, step, x, n) ==
  /\ f \in [0 .. n -> D]
  /\ f[0] = x
  /\ \A k \in 1 .. n : f[k] = step[f[k - 1]]

\* A loop that repeats step, started in x, has a state after every number of
\* turns.
LEMMA Iterates ==
  ASSUME NEW D, NEW step \in [D -> D], NEW x \in D, NEW n \in Nat
  PROVE  \E f : IsLoop(f, D, step, x, n)
<1> USE DEF IsLoop
<1> DEFINE P(m) == \E f : IsLoop(f, D, step, x, m)
           S == {m \in Nat : P(m)}
<1>1. 0 \in S
  <2> DEFINE f == [k \in 0 .. 0 |-> x]
  <2>1. IsLoop(f, D, step, x, 0)
    OBVIOUS
  <2> QED BY <2>1
<1>2. ASSUME NEW m \in Nat, P(m) PROVE P(m + 1)
  <2> PICK f : IsLoop(f, D, step, x, m)
    BY <1>2
  <2> DEFINE g == [k \in 0 .. m + 1 |-> IF k = m + 1 THEN step[f[m]] ELSE f[k]]
  <2>1. g \in [0 .. m + 1 -> D]
    OBVIOUS
  <2>2. g[0] = x
    OBVIOUS
  <2>3. ASSUME NEW k \in 1 .. m + 1 PROVE g[k] = step[g[k - 1]]
    OBVIOUS
  <2> HIDE DEF g
  <2> QED BY <2>1, <2>2, <2>3
<1>3. n \in S
  <2> HIDE DEF P
  <2>1. \A m \in Nat : m \in S => m + 1 \in S
    BY <1>2
  <2> HIDE DEF S
  <2> QED BY <1>1, <2>1, SetInduction
<1> QED BY <1>3

\* g does so as long as its states are in D.
Repeats(g, D, step, x, n) ==
  /\ g[0] = x
  /\ \A k \in 1 .. n : g[k - 1] \in D => g[k] = step[g[k - 1]]

\* There is one such loop.
LEMMA LoopUnique ==
  ASSUME NEW D, NEW step \in [D -> D], NEW x \in D, NEW n \in Nat,
         NEW f, NEW g, IsLoop(f, D, step, x, n), Repeats(g, D, step, x, n)
  PROVE  \A k \in 0 .. n : g[k] = f[k]
<1> DEFINE S == {k \in Nat : k <= n => g[k] = f[k]}
<1>1. 0 \in S
  BY DEF IsLoop, Repeats
<1>2. ASSUME NEW k \in Nat, k \in S PROVE k + 1 \in S
  <2> SUFFICES ASSUME k + 1 <= n PROVE g[k + 1] = f[k + 1]
    OBVIOUS
  <2>1. k + 1 \in 1 .. n /\ g[k] = f[k] /\ f[k] \in D
    BY <1>2 DEF IsLoop, Repeats
  <2>2. f[k + 1] = step[f[k]] /\ g[k + 1] = step[g[k]]
    BY <2>1 DEF IsLoop, Repeats
  <2> QED BY <2>1, <2>2
<1> HIDE DEF S
<1>3. \A k \in Nat : k \in S
  BY <1>1, <1>2, SetInduction
<1> QED BY <1>3 DEF S

\* A loop that ends within n turns ends in the same state when it is started
\* one turn later.
LEMMA LoopShift ==
  ASSUME NEW D, NEW step \in [D -> D], NEW x \in D, NEW n \in Nat \ {0},
         NEW f, IsLoop(f, D, step, x, n), step[f[n]] = f[n],
         NEW g, IsLoop(g, D, step, step[x], n)
  PROVE  g[n] = f[n]
<1> DEFINE S == {k \in Nat : k < n => g[k] = f[k + 1]}
<1>1. 0 \in S
  BY DEF IsLoop
<1>2. ASSUME NEW k \in Nat, k \in S PROVE k + 1 \in S
  <2> SUFFICES ASSUME k + 1 < n PROVE g[k + 1] = f[k + 2]
    OBVIOUS
  <2>1. k + 1 \in 1 .. n /\ k + 2 \in 1 .. n /\ g[k] = f[k + 1]
    BY <1>2
  <2>2. f[k + 2] = step[f[k + 1]] /\ g[k + 1] = step[g[k]]
    BY <2>1 DEF IsLoop
  <2> QED BY <2>1, <2>2
<1> HIDE DEF S
<1>3. \A k \in Nat : k \in S
  BY <1>1, <1>2, SetInduction
<1>4. g[n - 1] = f[n] /\ n - 1 \in Nat
  BY <1>3 DEF S
<1>5. g[n] = step[g[n - 1]]
  BY DEF IsLoop
<1> QED BY <1>4, <1>5
===============================================================================
