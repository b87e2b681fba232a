----------------------------- MODULE NatRecursion -----------------------------
(***************************************************************************)
(* Induction and recursion on the natural numbers in the form in which the *)
(* proofs about loops need them: with sets and functions as parameters.    *)
(***************************************************************************)
EXTENDS Integers, WellFoundedInduction, TLAPS

\* A set of natural numbers has a least element.  An induction is an
\* application of this to the set of the numbers its claim fails for.
LEMMA NatLeast ==
  ASSUME NEW T \in SUBSET Nat, T # {}
  PROVE  \E x \in T : \A y \in T : x <= y
  <1> DEFINE R == OpToRel(<, Nat)
  <1>1. IsWellFoundedOn(R, Nat)
    BY NatLessThanWellFounded
  <1>2. \A y, z \in Nat : y < z => <<y, z>> \in R
    BY DEF OpToRel
  <1> HIDE DEF R
  <1>3. PICK x \in T : \A y \in T : ~ (<<y, x>> \in R)
    BY <1>1, WFMin
  <1>4. \A y \in T : x <= y
    <2> TAKE y \in T
    <2>1. x \in Nat /\ y \in Nat
      OBVIOUS
    <2>2. ~ (y < x)
      BY <1>2, <1>3, <2>1
    <2>. QED
      BY <2>1, <2>2
  <1>. QED
    BY <1>4

\* A value that is computed from the values for smaller numbers: step[n][g] is
\* the value for n when g holds the values below n, the only ones of g that it
\* looks at; a solution is a function that holds the value for every number.
IsStep(step, S) ==
  /\ step \in [Nat -> [[Nat -> S] -> S]]
  /\ \A n \in Nat : \A g, h \in [Nat -> S] :
       (\A i \in 0 .. n - 1 : g[i] = h[i]) => step[n][g] = step[n][h]

IsSolution(f, step, S) ==
  /\ f \in [Nat -> S]
  /\ \A n \in Nat : f[n] = step[n][f]

\* Every such recursion has a solution.
LEMMA RecursionExists ==
  ASSUME NEW S, S # {}, NEW step, IsStep(step, S)
  PROVE  \E f : IsSolution(f, step, S)
  <1>0. /\ step \in [Nat -> [[Nat -> S] -> S]]
        /\ \A n \in Nat : \A g, h \in [Nat -> S] :
             (\A i \in 0 .. n - 1 : g[i] = h[i]) => step[n][g] = step[n][h]
    BY DEF IsStep
  <1> USE <1>0
  <1> DEFINE Below(n) == {g \in [Nat -> S] : \A i \in 0 .. n - 1 : g[i] = step[i][g]}
             Missing == {n \in Nat : Below(n) = {}}
  <1>1. Below(0) # {}
    <2>1. PICK s \in S : TRUE
      OBVIOUS
    <2>2. [n \in Nat |-> s] \in Below(0)
      BY <2>1
    <2>. QED
      BY <2>2
  <1>2. ASSUME NEW n \in Nat, Below(n) # {}
        PROVE  Below(n + 1) # {}
    <2>1. PICK g \in [Nat -> S] : \A i \in 0 .. n - 1 : g[i] = step[i][g]
      BY <1>2
    <2> DEFINE h == [g EXCEPT ![n] = step[n][g]]
    <2>2. step[n][g] \in S
      OBVIOUS
    <2>3. h \in [Nat -> S] /\ h[n] = step[n][g] /\ \A i \in Nat \ {n} : h[i] = g[i]
      BY <2>2
    <2> HIDE DEF h
    <2>4. ASSUME NEW i \in 0 .. n
          PROVE  h[i] = step[i][h]
      <3>1. i \in Nat /\ \A j \in 0 .. i - 1 : g[j] = h[j]
        BY <2>3
      <3>2. step[i][g] = step[i][h]
        BY <2>3, <3>1
      <3>. QED
        BY <2>1, <2>3, <3>1, <3>2
    <2>5. h \in Below(n + 1)
      BY <2>3, <2>4
    <2>. QED
      BY <2>5
  <1>3. \A n \in Nat : Below(n) # {}
    <2> SUFFICES ASSUME Missing # {} PROVE FALSE
      OBVIOUS
    <2>1. PICK n \in Missing : \A m \in Missing : n <= m
      BY NatLeast
    <2>2. n \in Nat /\ Below(n) = {}
      BY <2>1
    <2> HIDE DEF Below
    <2>3. n - 1 \in Nat
      BY <1>1, <2>2
    <2>4. n - 1 \notin Missing
      <3> HIDE DEF Missing
      <3>. QED
        BY <2>1, <2>2
    <2>5. Below(n - 1) # {}
      BY <2>3, <2>4
    <2>6. Below((n - 1) + 1) # {}
      BY <1>2, <2>3, <2>5
    <2>7. (n - 1) + 1 = n
      BY <2>2
    <2>. QED
      BY <2>2, <2>6, <2>7
  <1>4. ASSUME NEW n \in Nat, NEW m \in Nat, NEW g \in Below(n), NEW h \in Below(m)
        PROVE  \A i \in 0 .. n - 1 : i \in 0 .. m - 1 => g[i] = h[i]
    <2> DEFINE Differ == {i \in 0 .. n - 1 : i \in 0 .. m - 1 /\ g[i] # h[i]}
    <2>1. ASSUME Differ # {} PROVE FALSE
      <3>1. PICK i \in Differ : \A j \in Differ : i <= j
        <4>1. Differ \in SUBSET Nat
          OBVIOUS
        <4> HIDE DEF Differ
        <4>. QED
          BY <2>1, <4>1, NatLeast
      <3>2. i \in Nat /\ i \in 0 .. n - 1 /\ i \in 0 .. m - 1 /\ g[i] # h[i]
        OBVIOUS
      <3>3. \A j \in 0 .. i - 1 : j \in 0 .. n - 1 /\ j \in 0 .. m - 1 /\ ~ (i <= j)
        BY <3>2
      <3>4. \A j \in 0 .. i - 1 : g[j] = h[j]
        BY <3>1, <3>3
      <3>5. g \in [Nat -> S] /\ h \in [Nat -> S] /\ g[i] = step[i][g] /\ h[i] = step[i][h]
        BY <3>2
      <3> HIDE DEF Below, Differ
      <3>6. step[i][g] = step[i][h]
        BY <3>2, <3>4, <3>5
      <3>. QED
        BY <3>2, <3>5, <3>6
    <2>. QED
      BY <2>1
  <1> DEFINE G == [n \in Nat |-> CHOOSE g \in Below(n) : TRUE]
  <1>5. \A n \in Nat : G[n] \in Below(n)
    BY <1>3
  <1> DEFINE f == [n \in Nat |-> step[n][G[n]]]
  <1>6. \A n \in Nat : G[n] \in [Nat -> S]
    <2>1. \A n \in Nat : \A g \in Below(n) : g \in [Nat -> S]
      OBVIOUS
    <2> HIDE DEF Below, G
    <2>. QED
      BY <1>5, <2>1
  <1>7. f \in [Nat -> S]
    <2> HIDE DEF G
    <2>1. \A n \in Nat : step[n][G[n]] \in S
      BY <1>6
    <2>. QED
      BY <2>1
  <1>8. ASSUME NEW n \in Nat, NEW i \in 0 .. n - 1
        PROVE  f[i] = G[n][i]
    <2>1. i \in Nat /\ i \in 0 .. n - 1 /\ i + 1 \in Nat
      OBVIOUS
    <2>2. G[n][i] = step[i][G[n]]
      BY <1>5, <2>1
    <2>3. \A j \in 0 .. i - 1 : j \in 0 .. n - 1
      BY <2>1
    <2> HIDE DEF G, Below
    <2>4. \A j \in 0 .. i - 1 : G[i][j] = G[n][j]
      BY <1>4, <1>5, <2>1, <2>3
    <2>5. step[i][G[i]] = step[i][G[n]]
      BY <1>6, <2>1, <2>4
    <2>. QED
      BY <2>1, <2>2, <2>5
  <1>9. ASSUME NEW n \in Nat
        PROVE  f[n] = step[n][f]
    <2>1. f[n] = step[n][G[n]]
      OBVIOUS
    <2> HIDE DEF f, G
    <2>2. \A i \in 0 .. n - 1 : f[i] = G[n][i]
      BY <1>8
    <2>. QED
      BY <1>6, <1>7, <2>1, <2>2
  <1>. QED
    BY <1>7, <1>9 DEF IsSolution
\* Induction over a range: P is the set of the numbers the claim holds for.
Climbs(P, n) == 0 \in P /\ \A i \in 0 .. n - 1 : i \in P => i + 1 \in P

LEMMA RangeInduction ==
  ASSUME NEW n \in Nat, NEW P, Climbs(P, n)
  PROVE  0 .. n \subseteq P
  <1> USE DEF Climbs
  <1> DEFINE Missing == {i \in 0 .. n : i \notin P}
  <1> SUFFICES ASSUME Missing # {} PROVE FALSE
    OBVIOUS
  <1>1. PICK i \in Missing : \A j \in Missing : i <= j
    <2>1. Missing \in SUBSET Nat
      OBVIOUS
    <2> HIDE DEF Missing
    <2>. QED
      BY <2>1, NatLeast
  <1>2. i \in 0 .. n /\ i \notin P /\ i # 0
    BY <1>1
  <1>3. i - 1 \in 0 .. n - 1 /\ i - 1 \notin Missing /\ (i - 1) + 1 = i
    BY <1>1, <1>2
  <1>4. i - 1 \in P
    BY <1>3
  <1>. QED
    BY <1>2, <1>3, <1>4

\* A loop of n rounds, each a function on the states S; f are the states that
\* it goes through.
IsLoop(f, S, n, start, round) ==
  /\ f \in [0 .. n -> S]
  /\ f[0] = start
  /\ \A i \in 1 .. n : f[i] = round[i][f[i - 1]]

LEMMA LoopExists ==
  ASSUME NEW S, NEW n \in Nat, NEW start \in S, NEW round \in [1 .. n -> [S -> S]]
  PROVE  \E f : IsLoop(f, S, n, start, round)
  <1> DEFINE Value(m, g) == IF m \in 1 .. n THEN round[m][g[m - 1]] ELSE start
             step == [m \in Nat |-> [g \in [Nat -> S] |-> Value(m, g)]]
  <1>1. ASSUME NEW m \in Nat, NEW g \in [Nat -> S] PROVE Value(m, g) \in S
    <2>1. CASE m \in 1 .. n
      <3>1. g[m - 1] \in S
        BY <2>1
      <3>. QED
        BY <2>1, <3>1
    <2>2. CASE m \notin 1 .. n
      BY <2>2
    <2>. QED
      BY <2>1, <2>2
  <1>2. ASSUME NEW m \in Nat, NEW g \in [Nat -> S], NEW h \in [Nat -> S],
               \A i \in 0 .. m - 1 : g[i] = h[i]
        PROVE  Value(m, g) = Value(m, h)
    <2>1. m \in 1 .. n => m - 1 \in 0 .. m - 1
      OBVIOUS
    <2>. QED
      BY <1>2, <2>1
  <1> HIDE DEF Value
  <1>3. step \in [Nat -> [[Nat -> S] -> S]]
    BY <1>1
  <1>4. IsStep(step, S)
    BY <1>2, <1>3 DEF IsStep
  <1>5. PICK g : IsSolution(g, step, S)
    BY <1>4, RecursionExists
  <1>6. g \in [Nat -> S] /\ \A m \in Nat : g[m] = Value(m, g)
    BY <1>5 DEF IsSolution
  <1> DEFINE f == [i \in 0 .. n |-> g[i]]
  <1>7. f \in [0 .. n -> S]
    BY <1>6
  <1>8. f[0] = start
    BY <1>6 DEF Value
  <1>9. ASSUME NEW i \in 1 .. n
        PROVE  f[i] = round[i][f[i - 1]]
    <2>1. f[i] = Value(i, g)
      BY <1>6
    <2>2. i - 1 \in 0 .. n /\ f[i - 1] = g[i - 1]
      OBVIOUS
    <2>. QED
      BY <2>1, <2>2 DEF Value
  <1>. QED
    BY <1>7, <1>8, <1>9 DEF IsLoop
=============================================================================
