--------------------------- MODULE InductionLemmas ---------------------------
(***************************************************************************)
(* Induction over the natural numbers with sets in the place of            *)
(* predicates, so that it can be used by first-order provers: to prove     *)
(* P(n) for every n, show that {n \in Nat : P(n)} contains Nat.  And what  *)
(* a recursive definition defines: a function that satisfies its equation. *)
(***************************************************************************)
EXTENDS Integers, WellFoundedInduction, TLAPS

LEMMA LeastElement ==
  ASSUME NEW T \in SUBSET Nat, T # {}
  PROVE  \E m \in T : \A k \in T : m <= k
<1> DEFINE R == OpToRel(<, Nat)
<1>1. IsWellFoundedOn(R, Nat)
  BY NatLessThanWellFounded
<1>2. \A m, k \in Nat : k < m => <<k, m>> \in R
  BY DEF OpToRel
<1> HIDE DEF R
<1>3. PICK m \in T : \A k \in T : ~ (<<k, m>> \in R)
  BY <1>1, WFMin
<1>4. ASSUME NEW k \in T PROVE m <= k
  <2>1. m \in Nat /\ k \in Nat /\ ~ (<<k, m>> \in R)
    BY <1>3
  <2>2. ~ (k < m)
    BY <2>1, <1>2
  <2> QED
    BY <2>1, <2>2
<1> QED
  BY <1>4

LEMMA NatInd ==
  ASSUME NEW S, 0 \in S, \A n \in Nat : n \in S => n + 1 \in S
  PROVE  Nat \subseteq S
<1> SUFFICES ASSUME Nat \ S # {} PROVE FALSE
  OBVIOUS
<1>1. PICK m \in Nat \ S : \A k \in Nat \ S : m <= k
  BY LeastElement
<1>2. m # 0 /\ m - 1 \in Nat
  BY <1>1
<1>3. m - 1 \in S
  BY <1>1, <1>2
<1>4. (m - 1) + 1 \in S
  BY <1>2, <1>3
<1> QED
  BY <1>4, <1>1

\* The recursions on S: what the value of i is made of that of i - 1
Recursions(S) == [Nat -> [S -> S]]

\* The functions on 0 .. n that follow the recursion G from x
Runs(n, S, x, G) ==
  {g \in [0 .. n -> S] : g[0] = x /\ \A i \in 1 .. n : g[i] = G[i][g[i - 1]]}

LEMMA RunsExist ==
  ASSUME NEW S, NEW x \in S, NEW G \in Recursions(S)
  PROVE  \A n \in Nat : Runs(n, S, x, G) # {}
<1> USE DEF Recursions
<1> DEFINE T == {n \in Nat : Runs(n, S, x, G) # {}}
<1>1. 0 \in T
  <2>1. [i \in 0 .. 0 |-> x] \in Runs(0, S, x, G)
    BY DEF Runs
  <2> QED
    BY <2>1
<1>2. ASSUME NEW n \in Nat, n \in T PROVE n + 1 \in T
  <2>1. PICK g \in [0 .. n -> S] : g[0] = x /\ \A i \in 1 .. n : g[i] = G[i][g[i - 1]]
    BY <1>2 DEF Runs
  <2> DEFINE h == [i \in 0 .. n + 1 |-> IF i <= n THEN g[i] ELSE G[i][g[n]]]
  <2>2. \A i \in 0 .. n : i \in 0 .. n + 1 /\ h[i] = g[i]
    OBVIOUS
  <2>3. n + 1 \in 0 .. n + 1 /\ h[n + 1] = G[n + 1][g[n]] /\ G[n + 1][g[n]] \in S
    OBVIOUS
  <2>4. h \in [0 .. n + 1 -> S]
    OBVIOUS
  <2> HIDE DEF h
  <2>5. ASSUME NEW i \in 1 .. n + 1 PROVE h[i] = G[i][h[i - 1]]
    <3>1. i - 1 \in 0 .. n /\ h[i - 1] = g[i - 1]
      BY <2>2
    <3>2. CASE i \in 1 .. n
      BY <3>1, <3>2, <2>1, <2>2
    <3>3. CASE i = n + 1
      BY <3>1, <3>3, <2>3
    <3> QED
      BY <3>2, <3>3
  <2>6. h[0] = x
    BY <2>1, <2>2
  <2>7. h \in Runs(n + 1, S, x, G)
    BY <2>4, <2>5, <2>6 DEF Runs
  <2> QED
    BY <2>7
<1> HIDE DEF T
<1>3. Nat \subseteq T
  BY <1>1, <1>2, NatInd
<1> QED
  BY <1>3 DEF T

\* Two runs agree as far as the shorter one goes.
LEMMA RunsAgree ==
  ASSUME NEW S, NEW x, NEW G, NEW m \in Nat, NEW n \in Nat, m <= n,
         NEW g \in Runs(m, S, x, G), NEW h \in Runs(n, S, x, G)
  PROVE  \A i \in 0 .. m : g[i] = h[i]
<1> DEFINE T == {i \in Nat : i <= m => g[i] = h[i]}
<1>1. 0 \in T
  BY DEF Runs
<1>2. ASSUME NEW i \in Nat, i \in T PROVE i + 1 \in T
  <2> SUFFICES ASSUME i + 1 <= m PROVE g[i + 1] = h[i + 1]
    OBVIOUS
  <2>1. i + 1 \in 1 .. m /\ i + 1 \in 1 .. n /\ (i + 1) - 1 = i
    OBVIOUS
  <2>2. g[i + 1] = G[i + 1][g[i]] /\ h[i + 1] = G[i + 1][h[i]]
    BY <2>1 DEF Runs
  <2>3. g[i] = h[i]
    BY <1>2
  <2> QED
    BY <2>2, <2>3
<1> HIDE DEF T
<1>3. Nat \subseteq T
  BY <1>1, <1>2, NatInd
<1> QED
  BY <1>3 DEF T

\* The functions on Nat that do
Solutions(S, x, G) ==
  {g \in [Nat -> S] : g[0] = x /\ \A i \in Nat : g[i + 1] = G[i + 1][g[i]]}

LEMMA RecursionOnNat ==
  ASSUME NEW S, NEW x \in S, NEW G \in Recursions(S)
  PROVE  Solutions(S, x, G) # {}
<1> USE DEF Recursions
<1> DEFINE run(n) == CHOOSE g \in Runs(n, S, x, G) : TRUE
           f == [n \in Nat |-> run(n)[n]]
<1>1. \A n \in Nat : run(n) \in Runs(n, S, x, G)
  BY RunsExist
<1> HIDE DEF run
<1>2. \A n \in Nat : f[n] = run(n)[n]
  OBVIOUS
<1>3. f \in [Nat -> S]
  BY <1>1 DEF Runs
<1> HIDE DEF f
<1>4. f[0] = x
  BY <1>1, <1>2 DEF Runs
<1>5. ASSUME NEW i \in Nat PROVE f[i + 1] = G[i + 1][f[i]]
  <2>1. run(i)[i] = run(i + 1)[i]
    BY <1>1, RunsAgree
  <2>2. run(i + 1)[i + 1] = G[i + 1][run(i + 1)[i]]
    <3>1. i + 1 \in 1 .. i + 1 /\ (i + 1) - 1 = i
      OBVIOUS
    <3>2. run(i + 1) \in Runs(i + 1, S, x, G)
      BY <1>1
    <3> QED
      BY <3>1, <3>2 DEF Runs
  <2> QED
    BY <2>1, <2>2, <1>2
<1> QED
  BY <1>3, <1>4, <1>5 DEF Solutions
=============================================================================
