------------------------------- MODULE Numbers -------------------------------
(* What stands in for induction over numbers. A set of numbers has a least    *)
(* element, so what holds of the first step, and of each step if of the one   *)
(* before, holds of all; and what is defined step by step has its values.     *)
EXTENDS Integers, FiniteSetsExt, WellFoundedInduction, TLAPS

\* A set of naturals has a least element.
LEMMA Least ==
    ASSUME NEW S \in SUBSET Nat, S # {}
    PROVE  Min(S) \in S /\ \A y \in S : Min(S) <= y
<1> DEFINE R == {pair \in Nat \X Nat : pair[1] < pair[2]}
<1>1. R = OpToRel(<, Nat)
  BY DEF OpToRel
<1>2. IsWellFoundedOn(R, Nat)
  BY <1>1, NatLessThanWellFounded
<1>3. \A x, y \in Nat : y < x => <<y, x>> \in R
  OBVIOUS
<1>4. PICK x \in S : \A y \in S : <<y, x>> \notin R
  <2> HIDE DEF R
  <2>1. QED
    BY <1>2, WFMin
<1>5. \A y \in S : ~(y < x)
  <2> HIDE DEF R
  <2>1. QED
    BY <1>3, <1>4
<1>6. \A y \in S : x <= y
  BY <1>5
<1>7. QED
  BY <1>6 DEF Min

\* A set of naturals below some number has a greatest one.
LEMMA Greatest ==
    ASSUME NEW N \in Nat, NEW S \in SUBSET (0..N), S # {}
    PROVE  Max(S) \in S /\ \A y \in S : y <= Max(S)
<1> DEFINE T == {N - x : x \in S}
<1>1. T \in SUBSET Nat /\ T # {}
  <2>1. \A x \in S : x \in 0..N
    OBVIOUS
  <2>2. \A x \in S : N - x \in Nat
    BY <2>1
  <2>3. QED
    BY <2>2
<1>2. Min(T) \in T /\ \A y \in T : Min(T) <= y
  <2> HIDE DEF T
  <2>1. QED
    BY <1>1, Least
<1>3. PICK x \in S : Min(T) = N - x
  BY <1>2
<1>4. \A y \in S : y <= x
  <2>1. ASSUME NEW y \in S
        PROVE  y <= x
    <3>1. N - x <= N - y
      BY <1>2, <1>3
    <3>2. x \in Int /\ y \in Int
      OBVIOUS
    <3>3. QED
      BY <3>1, <3>2
  <2>2. QED
    BY <2>1
<1>5. QED
  BY <1>4 DEF Max

\* What is built step by step from a value of a set, with steps that stay in it.
Steps(f, base, N, step) == f = [n \in 0..N |-> IF n = 0 THEN base ELSE step[<<f[n - 1], n>>]]
LEMMA StepByStep ==
    ASSUME NEW S, NEW base \in S, NEW N \in Nat, NEW step \in [S \X (1..N) -> S]
    PROVE  \E f : Steps(f, base, N, step)
<1> DEFINE Goes(f, m) == f \in [0..m -> S] /\ f[0] = base /\ \A n \in 1..m : f[n] = step[<<f[n - 1], n>>]
           stuck == {m \in 0..N : ~\E f : Goes(f, m)}
<1>1. stuck = {}
  <2>1. SUFFICES ASSUME stuck # {}
                 PROVE  FALSE
    OBVIOUS
  <2> DEFINE m == Min(stuck)
  <2>2. m \in stuck /\ \A k \in stuck : m <= k
    <3>1. stuck \in SUBSET Nat
      OBVIOUS
    <3> HIDE DEF stuck
    <3>2. QED
      BY <2>1, <3>1, Least
  <2> HIDE DEF m
  <2>3. m \in 0..N /\ ~\E f : Goes(f, m)
    BY <2>2
  <2>4. m # 0
    <3>1. Goes([n \in 0..0 |-> base], 0)
      OBVIOUS
    <3> HIDE DEF Goes
    <3>2. QED
      BY <2>3, <3>1
  <2>5. m - 1 \in 0..N /\ m - 1 \notin stuck
    BY <2>2, <2>3, <2>4
  <2>6. PICK f : Goes(f, m - 1)
    BY <2>5
  <2> DEFINE g == [n \in 0..m |-> IF n = m THEN step[<<f[m - 1], m>>] ELSE f[n]]
  <2>7. Goes(g, m)
    <3>1. f[m - 1] \in S /\ m \in 1..N /\ f \in [0..(m - 1) -> S] /\ f[0] = base
      BY <2>3, <2>4, <2>6
    <3>2. step[<<f[m - 1], m>>] \in S
      BY <3>1
    <3>3. \A n \in 0..m : n # m => n \in 0..(m - 1)
      BY <2>3
    <3>4. g \in [0..m -> S]
      BY <3>1, <3>2, <3>3
    <3>5. g[0] = base
      BY <2>3, <2>4, <3>1
    <3>6. ASSUME NEW n \in 1..m
          PROVE  g[n] = step[<<g[n - 1], n>>]
      <4>1. g[n - 1] = f[n - 1]
        BY <2>3
      <4>2. CASE n = m
        <5>1. g[m] = step[<<f[m - 1], m>>]
          BY <2>3
        <5>2. QED
          BY <4>1, <4>2, <5>1
      <4>3. CASE n # m
        <5>1. n \in 1..(m - 1) /\ g[n] = f[n]
          BY <2>3, <4>3
        <5>2. QED
          BY <2>6, <4>1, <5>1
      <4>4. QED
        BY <4>2, <4>3
    <3>7. QED
      BY <3>4, <3>5, <3>6
  <2> HIDE DEF g, Goes
  <2>8. QED
    BY <2>3, <2>7
<1>2. PICK f : Goes(f, N)
  BY <1>1
<1>3. f = [n \in 0..N |-> IF n = 0 THEN base ELSE step[<<f[n - 1], n>>]]
  <2>1. \A n \in 0..N : f[n] = IF n = 0 THEN base ELSE step[<<f[n - 1], n>>]
    BY <1>2
  <2>2. f = [n \in 0..N |-> f[n]]
    BY <1>2
  <2>3. QED
    BY <2>1, <2>2
<1>4. QED
  BY <1>3 DEF Steps

\* What holds of the first step, and of each step if of the one before, holds of all.
LEMMA AllSteps ==
    ASSUME NEW N \in Nat, NEW holds, 0 \in holds, \A n \in 1..N : n - 1 \in holds => n \in holds
    PROVE  \A n \in 0..N : n \in holds
<1> DEFINE fails == {n \in 0..N : n \notin holds}
<1>1. SUFFICES ASSUME fails # {}
               PROVE  FALSE
  OBVIOUS
<1>2. fails \in SUBSET Nat
  OBVIOUS
<1>3. Min(fails) \in fails /\ \A n \in fails : Min(fails) <= n
  <2> HIDE DEF fails
  <2>1. QED
    BY <1>1, <1>2, Least
<1> DEFINE m == Min(fails)
<1> HIDE DEF m
<1>4. m \in 0..N /\ m \notin holds /\ \A n \in 0..N : n < m => n \in holds
  BY <1>3 DEF m
<1>5. m # 0
  BY <1>4
<1>6. m \in 1..N /\ m - 1 \in 0..N /\ m - 1 < m
  BY <1>4, <1>5
<1>7. QED
  BY <1>4, <1>6
===============================================================================
