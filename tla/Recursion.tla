------------------------------- MODULE Recursion -------------------------------
(***************************************************************************)
(* Induction over the numbers and recursion over them, stated of sets and   *)
(* of functions rather than of predicates and operators, so that a proof    *)
(* can cite them. They serve the recursive functions that read digits.      *)
(***************************************************************************)
EXTENDS Integers, NaturalsInduction, WellFoundedInduction, TLAPS

\* A set of numbers that is not empty has a least one.
LEMMA LeastNumber ==
    ASSUME NEW U \in SUBSET Nat, U # {}
    PROVE  \E i \in U : \A j \in U : i <= j
  <1>1. PICK x \in U : \A y \in U : ~(<<y, x>> \in OpToRel(<, Nat))
    BY NatLessThanWellFounded, WFMin
  <1>2. ASSUME NEW y \in U
        PROVE  x <= y
    <2>1. x \in Nat /\ y \in Nat
      OBVIOUS
    <2>2. ~(<<y, x>> \in {ss \in Nat \X Nat : ss[1] < ss[2]})
      BY <1>1 DEF OpToRel
    <2> QED
      BY <2>1, <2>2
  <1> QED
    BY <1>2

\* A set that holds 0, and with each number the next, holds every number.
LEMMA SetInduction ==
    ASSUME NEW T, 0 \in T, \A i \in Nat : i \in T => i + 1 \in T
    PROVE  Nat \subseteq T
  <1> DEFINE U == Nat \ T
  <1> SUFFICES ASSUME U # {}
               PROVE  FALSE
    OBVIOUS
  <1>1. PICK m \in U : \A j \in U : m <= j
    <2>1. U \in SUBSET Nat
      OBVIOUS
    <2> HIDE DEF U
    <2> QED
      BY <2>1, LeastNumber
  <1>2. m \in Nat /\ m # 0
    OBVIOUS
  <1>3. m - 1 \in Nat /\ ~(m <= m - 1)
    BY <1>2
  <1>4. m - 1 \in T
    BY <1>1, <1>3
  <1> QED
    BY <1>3, <1>4

\* h starts at v and goes from each value to the next by step; f does so up to n.
Steps(h, v, step) == h[0] = v /\ \A i \in Nat : h[i + 1] = step[i][h[i]]
StepsUpTo(f, n, v, step) == f[0] = v /\ \A i \in 1..n : f[i] = step[i - 1][f[i - 1]]

\* A value and a step from each value to the next make a function of the numbers.
LEMMA RecursiveFunction ==
    ASSUME NEW V, NEW v \in V, NEW step \in [Nat -> [V -> V]]
    PROVE  \E h \in [Nat -> V] : Steps(h, v, step)
  <1> DEFINE P(f, n) == f[0] = v /\ \A i \in Nat : i < n => f[i + 1] = step[i][f[i]]
             T == {n \in Nat : \E f \in [Nat -> V] : P(f, n)}
  <1>1. 0 \in T
    <2>1. [i \in Nat |-> v] \in [Nat -> V] /\ P([i \in Nat |-> v], 0)
      OBVIOUS
    <2> HIDE DEF P
    <2> QED
      BY <2>1
  <1>2. ASSUME NEW n \in Nat, n \in T
        PROVE  n + 1 \in T
    <2>1. PICK f \in [Nat -> V] : P(f, n)
      BY <1>2, Zenon
    <2> DEFINE g == [i \in Nat |-> IF i = n + 1 THEN step[n][f[n]] ELSE f[i]]
    <2>2. g \in [Nat -> V]
      OBVIOUS
    <2>3. P(g, n + 1)
      <3>1. g[0] = v
        BY <2>1
      <3>2. ASSUME NEW i \in Nat, i < n + 1
            PROVE  g[i + 1] = step[i][g[i]]
        <4>1. g[i] = f[i]
          BY <3>2
        <4>2. CASE i = n
          BY <4>1, <4>2
        <4>3. CASE i # n
          <5>1. i < n /\ g[i + 1] = f[i + 1]
            BY <3>2, <4>3
          <5> QED
            BY <2>1, <4>1, <5>1
        <4> QED
          BY <4>2, <4>3
      <3> HIDE DEF g
      <3> QED
        BY <3>1, <3>2
    <2> HIDE DEF P, g
    <2> QED
      BY <2>2, <2>3
  <1>3. \A n \in Nat : \E f \in [Nat -> V] : P(f, n)
    <2> HIDE DEF P
    <2>1. Nat \subseteq T
      <3> HIDE DEF T
      <3> QED
        BY <1>1, <1>2, SetInduction
    <2> QED
      BY <2>1, Zenon
  <1> DEFINE F(n) == CHOOSE f \in [Nat -> V] : P(f, n)
  <1>4. \A n \in Nat : F(n) \in [Nat -> V] /\ P(F(n), n)
    <2> HIDE DEF P
    <2> QED
      BY <1>3, Zenon
  <1>5. ASSUME NEW m \in Nat, NEW n \in Nat, m <= n
        PROVE  F(n)[m] = F(m)[m]
    <2> DEFINE S == {i \in Nat : i <= m => F(n)[i] = F(m)[i]}
    <2> HIDE DEF F
    <2>1. 0 \in S
      BY <1>4
    <2>2. ASSUME NEW i \in Nat, i \in S
          PROVE  i + 1 \in S
      <3> SUFFICES ASSUME i + 1 <= m
                   PROVE  F(n)[i + 1] = F(m)[i + 1]
        OBVIOUS
      <3>1. i < m /\ i < n /\ F(n)[i] = F(m)[i]
        BY <1>5, <2>2
      <3>2. F(n)[i + 1] = step[i][F(n)[i]] /\ F(m)[i + 1] = step[i][F(m)[i]]
        BY <1>4, <3>1
      <3> QED
        BY <3>1, <3>2
    <2>3. m \in S
      <3> HIDE DEF S
      <3> QED
        BY <2>1, <2>2, SetInduction
    <2> QED
      BY <2>3
  <1> DEFINE h == [n \in Nat |-> F(n)[n]]
  <1>6. h \in [Nat -> V]
    <2> HIDE DEF F
    <2> QED
      BY <1>4
  <1>7. h[0] = v
    <2> HIDE DEF F
    <2> QED
      BY <1>4
  <1>8. ASSUME NEW i \in Nat
        PROVE  h[i + 1] = step[i][h[i]]
    <2> HIDE DEF F
    <2>1. F(i + 1)[i + 1] = step[i][F(i + 1)[i]]
      BY <1>4
    <2>2. F(i + 1)[i] = F(i)[i]
      BY <1>5
    <2> QED
      BY <2>1, <2>2
  <1> HIDE DEF h
  <1> QED
    BY <1>6, <1>7, <1>8 DEF Steps

\* The same for the numbers up to a bound.
LEMMA BoundedRecursion ==
    ASSUME NEW n \in Nat, NEW V, NEW v \in V, NEW step \in [Nat -> [V -> V]]
    PROVE  \E f \in [0..n -> V] : StepsUpTo(f, n, v, step)
  <1>1. PICK h \in [Nat -> V] : Steps(h, v, step)
    BY RecursiveFunction, Zenon
  <1> DEFINE f == [i \in 0..n |-> h[i]]
  <1>2. f \in [0..n -> V] /\ f[0] = v
    BY <1>1 DEF Steps
  <1>3. ASSUME NEW i \in 1..n
        PROVE  f[i] = step[i - 1][f[i - 1]]
    <2>1. i - 1 \in Nat /\ (i - 1) + 1 = i /\ f[i] = h[i] /\ f[i - 1] = h[i - 1]
      OBVIOUS
    <2>2. h[(i - 1) + 1] = step[i - 1][h[i - 1]]
      BY <1>1, <2>1 DEF Steps
    <2> QED
      BY <2>1, <2>2
  <1> HIDE DEF f
  <1> QED
    BY <1>2, <1>3 DEF StepsUpTo

\* Two functions that start alike and step alike up to a bound agree up to it.
StepAlike(f, g, n) ==
    /\ f[0] = g[0]
    /\ \A i \in Nat : i < n /\ f[i] = g[i] => f[i + 1] = g[i + 1]

\* So they do, by induction on the place.
LEMMA SameUpTo ==
    ASSUME NEW n \in Nat, NEW f, NEW g, StepAlike(f, g, n)
    PROVE  \A i \in 0..n : f[i] = g[i]
  <1> DEFINE T == {i \in Nat : i <= n => f[i] = g[i]}
  <1>1. 0 \in T
    BY DEF StepAlike
  <1>2. ASSUME NEW i \in Nat, i \in T
        PROVE  i + 1 \in T
    BY <1>2 DEF StepAlike
  <1>3. Nat \subseteq T
    <2> HIDE DEF T
    <2> QED
      BY <1>1, <1>2, SetInduction
  <1> QED
    BY <1>3
================================================================================
