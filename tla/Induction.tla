------------------------------ MODULE Induction ------------------------------
(***************************************************************************)
(* Induction over the natural numbers with sets in place of predicates,    *)
(* and the functions that are defined by recursion over them.  Both follow *)
(* from the least element of a set of natural numbers.                     *)
(***************************************************************************)
EXTENDS Integers, TLAPS, WellFoundedInduction

\* A set of natural numbers has a least element.
LEMMA LeastElement ==
    ASSUME NEW S, S \subseteq Nat, S # {}
    PROVE  \E n \in S : \A m \in S : n <= m
<1>1. IsWellFoundedOn(OpToRel(<, Nat), Nat)
  BY NatLessThanWellFounded
<1>2. PICK R : R = OpToRel(<, Nat)
  OBVIOUS
<1>3. \A m, n \in Nat : m < n => <<m, n>> \in R
  BY <1>2 DEF OpToRel
<1>4. PICK n \in S : \A m \in S : ~ (<<m, n>> \in R)
  BY <1>1, <1>2, WFMin, Zenon
<1>5. \A m \in S : ~ (m < n)
  BY <1>3, <1>4, Zenon
<1>6. \A m \in S : n <= m
  BY <1>5, SMT
<1> QED
  BY <1>6, Zenon

\* What holds of 0 and of n + 1 whenever it holds of n, holds of every number.
LEMMA Inductive ==
    ASSUME NEW S, 0 \in S, \A n \in Nat : n \in S => n + 1 \in S
    PROVE  Nat \subseteq S
<1> SUFFICES ASSUME Nat \ S # {} PROVE FALSE
  OBVIOUS
<1>1. PICK n \in Nat \ S : \A m \in Nat \ S : n <= m
  BY LeastElement
<1>2. n # 0 /\ n - 1 \in Nat
  OBVIOUS
<1>3. n - 1 \in S
  BY <1>1, <1>2
<1>4. (n - 1) + 1 \in S
  BY <1>2, <1>3
<1> QED
  BY <1>1, <1>4

\* The values of f are first, and what step makes of each index and value.
Recurs(f, first, step) == f[0] = first /\ \A n \in Nat : f[n + 1] = step[<<n, f[n]>>]

\* A first value and a step determine a sequence of values.
LEMMA Recursion ==
    ASSUME NEW X, NEW first \in X, NEW step \in [Nat \X X -> X]
    PROVE  \E f \in [Nat -> X] : Recurs(f, first, step)
<1> DEFINE Start(n) == {g \in [0..n -> X] :
                          g[0] = first /\ \A k \in 0..(n - 1) : g[k + 1] = step[<<k, g[k]>>]}
<1>1. \A n \in Nat : Start(n) # {}
  <2> DEFINE S == {n \in Nat : Start(n) # {}}
  <2>1. 0 \in S
    <3>1. [k \in 0..0 |-> first] \in Start(0)
      OBVIOUS
    <3> QED
      BY <3>1
  <2>2. ASSUME NEW n \in Nat, n \in S
        PROVE  n + 1 \in S
    <3>1. PICK g : g \in Start(n)
      BY <2>2
    <3>2. g \in [0..n -> X] /\ g[0] = first /\ \A k \in 0..(n - 1) : g[k + 1] = step[<<k, g[k]>>]
      BY <3>1
    <3> DEFINE h == [k \in 0..(n + 1) |-> IF k = n + 1 THEN step[<<n, g[n]>>] ELSE g[k]]
    <3>3. step[<<n, g[n]>>] \in X
      BY <3>2
    <3>4. h \in [0..(n + 1) -> X]
      BY <3>2, <3>3
    <3>5. h[0] = first
      BY <3>2
    <3>6. ASSUME NEW k \in 0..((n + 1) - 1)
          PROVE  h[k + 1] = step[<<k, h[k]>>]
      <4>1. h[k] = g[k] /\ k \in 0..n
        OBVIOUS
      <4>2. CASE k = n
        <5>1. h[n + 1] = step[<<n, g[n]>>]
          OBVIOUS
        <5> QED
          BY <4>1, <4>2, <5>1
      <4>3. CASE k # n
        <5>1. k \in 0..(n - 1) /\ k + 1 \in 0..n
          BY <4>3
        <5>2. h[k + 1] = g[k + 1]
          BY <5>1
        <5> QED
          BY <3>2, <4>1, <5>1, <5>2
      <4> QED
        BY <4>2, <4>3
    <3> HIDE DEF h
    <3>7. h \in Start(n + 1)
      BY <3>4, <3>5, <3>6
    <3> QED
      BY <3>7
  <2> HIDE DEF S
  <2>3. Nat \subseteq S
    BY <2>1, <2>2, Inductive
  <2> QED
    BY <2>3 DEF S
<1>2. ASSUME NEW m \in Nat, NEW n \in Nat, NEW g \in Start(m), NEW h \in Start(n),
             NEW k \in Nat, k <= m, k <= n
      PROVE  g[k] = h[k]
  <2> DEFINE S == {j \in Nat : j <= m /\ j <= n => g[j] = h[j]}
  <2>1. 0 \in S
    OBVIOUS
  <2>2. ASSUME NEW j \in Nat, j \in S
        PROVE  j + 1 \in S
    <3> SUFFICES ASSUME j + 1 <= m, j + 1 <= n PROVE g[j + 1] = h[j + 1]
      OBVIOUS
    <3>1. g[j] = h[j] /\ j \in 0..(m - 1) /\ j \in 0..(n - 1)
      BY <2>2
    <3>2. g[j + 1] = step[<<j, g[j]>>] /\ h[j + 1] = step[<<j, h[j]>>]
      BY <3>1
    <3> QED
      BY <3>1, <3>2
  <2> HIDE DEF S
  <2>3. k \in S
    BY <2>1, <2>2, Inductive
  <2> QED
    BY <1>2, <2>3 DEF S
<1> DEFINE f == [n \in Nat |-> (CHOOSE g \in Start(n) : TRUE)[n]]
<1>3. ASSUME NEW n \in Nat
      PROVE  (CHOOSE g \in Start(n) : TRUE) \in Start(n)
  BY <1>1
<1>4. ASSUME NEW n \in Nat, NEW g \in Start(n)
      PROVE  f[n] = g[n]
  <2> DEFINE h == CHOOSE h \in Start(n) : TRUE
  <2>1. h \in Start(n) /\ f[n] = h[n]
    BY <1>3
  <2> HIDE DEF h
  <2>2. h[n] = g[n]
    <3> HIDE DEF Start
    <3> QED
      BY <1>2, <2>1
  <2> QED
    BY <2>1, <2>2
<1>5. f \in [Nat -> X]
  <2> SUFFICES ASSUME NEW n \in Nat PROVE (CHOOSE g \in Start(n) : TRUE)[n] \in X
    OBVIOUS
  <2>1. (CHOOSE g \in Start(n) : TRUE) \in [0..n -> X]
    BY <1>3
  <2> QED
    BY <2>1
<1>6. f[0] = first
  <2>1. PICK g : g \in Start(0)
    BY <1>1
  <2> QED
    BY <1>4, <2>1
<1>7. ASSUME NEW n \in Nat
      PROVE  f[n + 1] = step[<<n, f[n]>>]
  <2>1. PICK g : g \in Start(n + 1)
    BY <1>1
  <2>2. f[n + 1] = g[n + 1] /\ g[n + 1] = step[<<n, g[n]>>] /\ n \in 0..(n + 1)
    <3>1. f[n + 1] = g[n + 1]
      <4> HIDE DEF Start, f
      <4> QED
        BY <1>4, <2>1
    <3>2. n \in 0..((n + 1) - 1) /\ n \in 0..(n + 1)
      OBVIOUS
    <3> QED
      BY <2>1, <3>1, <3>2
  <2>3. f[n] = g[n]
    <3>1. PICK h : h \in Start(n)
      BY <1>1
    <3>2. f[n] = h[n]
      BY <1>4, <3>1
    <3>3. n + 1 \in Nat /\ n <= n + 1 /\ n <= n
      OBVIOUS
    <3>4. h[n] = g[n]
      <4> HIDE DEF Start
      <4> QED
        BY <1>2, <2>1, <3>1, <3>3
    <3> QED
      BY <3>2, <3>4
  <2> HIDE DEF f
  <2> QED
    BY <2>2, <2>3
<1> HIDE DEF f
<1> QED
  BY <1>5, <1>6, <1>7 DEF Recurs
=============================================================================
