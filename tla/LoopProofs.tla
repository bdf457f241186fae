----------------------------- MODULE LoopProofs -----------------------------
(***************************************************************************)
(* Loops that are written as recursive functions: the value before the     *)
(* first pass, and after pass i the step of pass i applied to the value    *)
(* after pass i - 1.  The induction theorems of the library take an        *)
(* operator, which the provers cannot instantiate; here the predicate is a *)
(* set, and the body of a loop a function.                                 *)
(***************************************************************************)
EXTENDS Integers, WellFoundedInduction, TLAPS

\* A set with 0 that is closed under successor has all natural numbers.
LEMMA SetInduction ==
    ASSUME NEW T, 0 \in T, \A n \in Nat : n \in T => n + 1 \in T
    PROVE  Nat \subseteq T
  <1> DEFINE Rest == {n \in Nat : n \notin T}
             Less == OpToRel(<, Nat)
  <1> SUFFICES ASSUME Rest # {}
               PROVE  FALSE
    OBVIOUS
  <1>1. \E x \in Rest : \A y \in Rest : ~ (<<y, x>> \in Less)
    <2>1. IsWellFoundedOn(Less, Nat)
      BY NatLessThanWellFounded
    <2>2. Rest \subseteq Nat /\ Rest # {}
      OBVIOUS
    <2> HIDE DEF Rest, Less
    <2> QED  BY <2>1, <2>2, WFMin
  <1>2. PICK x \in Rest : \A y \in Rest : ~ (<<y, x>> \in Less)
    BY <1>1
  <1>3. x \in Nat /\ x # 0 /\ x - 1 \in Nat /\ (x - 1) + 1 = x /\ x - 1 < x
    OBVIOUS
  <1>4. x - 1 \in Rest
    BY <1>3
  <1>5. <<x - 1, x>> \in Less
    BY <1>3 DEF OpToRel
  <1> QED  BY <1>2, <1>4, <1>5

\* What holds before the first pass and is kept by every pass holds after
\* every pass.
LEMMA LoopInvariant ==
    ASSUME NEW n \in Nat, NEW g, NEW Q, g[0] \in Q,
           \A i \in 1..n : g[i - 1] \in Q => g[i] \in Q
    PROVE  \A i \in 0..n : g[i] \in Q
  <1> DEFINE T == {i \in Nat : i <= n => g[i] \in Q}
  <1>1. 0 \in T
    OBVIOUS
  <1>2. ASSUME NEW i \in Nat, i \in T
        PROVE  i + 1 \in T
    <2>1. CASE i + 1 <= n
      <3>1. i + 1 \in 1..n /\ (i + 1) - 1 = i /\ i <= n
        BY <2>1
      <3>2. g[i] \in Q
        BY <1>2, <3>1
      <3> QED  BY <3>1, <3>2
    <2>2. CASE ~(i + 1 <= n)
      BY <2>2
    <2> QED  BY <2>1, <2>2
  <1> HIDE DEF T
  <1>3. Nat \subseteq T
    BY <1>1, <1>2, SetInduction
  <1> QED  BY <1>3 DEF T

\* The same for what holds after pass i, a set for every pass.
LEMMA LoopAssertions ==
    ASSUME NEW n \in Nat, NEW g, NEW Q, g[0] \in Q[0],
           \A i \in 1..n : g[i - 1] \in Q[i - 1] => g[i] \in Q[i]
    PROVE  \A i \in 0..n : g[i] \in Q[i]
  <1> DEFINE T == {i \in Nat : i <= n => g[i] \in Q[i]}
  <1>1. 0 \in T
    OBVIOUS
  <1>2. ASSUME NEW i \in Nat, i \in T
        PROVE  i + 1 \in T
    <2>1. CASE i + 1 <= n
      <3>1. i + 1 \in 1..n /\ (i + 1) - 1 = i /\ i <= n
        BY <2>1
      <3>2. g[i] \in Q[i]
        BY <1>2, <3>1
      <3> QED  BY <3>1, <3>2
    <2>2. CASE ~(i + 1 <= n)
      BY <2>2
    <2> QED  BY <2>1, <2>2
  <1> HIDE DEF T
  <1>3. Nat \subseteq T
    BY <1>1, <1>2, SetInduction
  <1> QED  BY <1>3 DEF T

\* The values that a loop of n passes goes through.
IsLoop(g, n, a, step) ==
    /\ g[0] = a
    /\ \A i \in 1..n : g[i] = step[i][g[i - 1]]

\* Every loop whose passes stay in S has a run.
LEMMA LoopExists ==
    ASSUME NEW n \in Nat, NEW S, NEW a \in S, NEW step \in [1..n -> [S -> S]]
    PROVE  \E g \in [0..n -> S] : IsLoop(g, n, a, step)
  <1> DEFINE T == {k \in Nat : k <= n => \E g \in [0..k -> S] : IsLoop(g, k, a, step)}
  <1>1. 0 \in T
    <2> DEFINE g == [i \in 0..0 |-> a]
    <2>1. g \in [0..0 -> S] /\ IsLoop(g, 0, a, step)
      BY DEF IsLoop
    <2> QED  BY <2>1
  <1>2. ASSUME NEW k \in Nat, k \in T
        PROVE  k + 1 \in T
    <2>1. CASE k + 1 <= n
      <3>1. PICK g \in [0..k -> S] : IsLoop(g, k, a, step)
        BY <1>2, <2>1
      <3> DEFINE last == step[k + 1][g[k]]
                 h    == [i \in 0..(k + 1) |-> IF i = k + 1 THEN last ELSE g[i]]
      <3>2. last \in S
        BY <2>1
      <3> HIDE DEF last
      <3>3. \A i \in 0..(k + 1) : i # k + 1 => i \in 0..k
        OBVIOUS
      <3>4. h \in [0..(k + 1) -> S]
        BY <3>2, <3>3
      <3>5. h[0] = a
        BY <3>1 DEF IsLoop
      <3>6. ASSUME NEW i \in 1..(k + 1)
            PROVE  h[i] = step[i][h[i - 1]]
        <4>1. CASE i = k + 1
          BY <4>1 DEF last
        <4>2. CASE i # k + 1
          <5>1. i \in 1..k /\ i - 1 \in 0..(k + 1) /\ i - 1 # k + 1
            BY <4>2
          <5>2. h[i] = g[i] /\ h[i - 1] = g[i - 1]
            BY <4>2, <5>1
          <5> HIDE DEF h
          <5> QED  BY <3>1, <5>1, <5>2 DEF IsLoop
        <4> QED  BY <4>1, <4>2
      <3> HIDE DEF h
      <3>7. IsLoop(h, k + 1, a, step)
        BY <3>5, <3>6 DEF IsLoop
      <3> QED  BY <3>4, <3>7
    <2>2. CASE ~(k + 1 <= n)
      BY <2>2
    <2> QED  BY <2>1, <2>2
  <1> HIDE DEF T
  <1>3. Nat \subseteq T
    BY <1>1, <1>2, SetInduction
  <1>4. n \in T /\ n <= n
    BY <1>3
  <1> QED  BY <1>4 DEF T
=============================================================================
