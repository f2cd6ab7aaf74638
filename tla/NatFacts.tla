------------------------------ MODULE NatFacts ------------------------------
(***************************************************************************)
(* Induction and recursion on the natural numbers, stated with sets and    *)
(* functions so that they can be cited with any of them.                   *)
(***************************************************************************)
EXTENDS Naturals, WellFoundedInduction, TLAPS

\* A set of natural numbers that is not empty has a least element.
LEMMA Least ==
  ASSUME NEW T \in SUBSET Nat, T # {}
  PROVE  \E m \in T : \A n \in T : m <= n
<1> DEFINE R == OpToRel(<, Nat)
<1>1. IsWellFoundedOn(R, Nat)
  BY NatLessThanWellFounded
<1>2. \A n, m \in T : n < m => <<n, m>> \in R
  BY DEF OpToRel
<1> HIDE DEF R
<1>3. PICK m \in T : \A n \in T : ~ (<<n, m>> \in R)
  BY <1>1, WFMin
<1>4. \A n \in T : ~(n < m)
  BY <1>2, <1>3
<1> QED
  BY <1>4

\* Induction: a set that has 0 and, with n, n + 1 has every natural number.
LEMMA SetInduction ==
  ASSUME NEW S, 0 \in S, \A n \in Nat : n \in S => n + 1 \in S
  PROVE  Nat \subseteq S
<1> SUFFICES ASSUME Nat \ S # {} PROVE FALSE
  OBVIOUS
<1>1. PICK m \in Nat \ S : \A n \in Nat \ S : m <= n
  BY Least
<1>2. m # 0 /\ m - 1 \in Nat
  BY <1>1
<1>3. m - 1 \in S
  BY <1>1, <1>2
<1>4. m - 1 + 1 \in S
  BY <1>2, <1>3
<1> QED
  BY <1>1, <1>4

\* The first n + 1 values of an iteration of g from s.
IsStart(f, S, s, g, n) ==
  f \in [0 .. n -> S] /\ f[0] = s /\ \A i \in 0 .. n - 1 : f[i + 1] = g[i + 1][f[i]]

\* An iteration can be carried on for any number of steps ...
LEMMA StartsExist ==
  ASSUME NEW S, NEW s \in S, NEW g \in [Nat -> [S -> S]]
  PROVE  \A n \in Nat : \E f : IsStart(f, S, s, g, n)
<1> DEFINE Have == {n \in Nat : \E f : IsStart(f, S, s, g, n)}
<1>1. 0 \in Have
  <2>1. IsStart([i \in 0 .. 0 |-> s], S, s, g, 0)
    BY DEF IsStart
  <2> QED
    BY <2>1
<1>2. ASSUME NEW n \in Nat, n \in Have PROVE n + 1 \in Have
  <2>1. PICK f : IsStart(f, S, s, g, n)
    BY <1>2
  <2> DEFINE f1 == [i \in 0 .. n + 1 |-> IF i <= n THEN f[i] ELSE g[n + 1][f[n]]]
  <2>2. f \in [0 .. n -> S] /\ f[0] = s /\ f[n] \in S
    BY <2>1 DEF IsStart
  <2>3. g[n + 1][f[n]] \in S
    BY <2>2
  <2>4. f1 \in [0 .. n + 1 -> S] /\ f1[0] = s
    BY <2>2, <2>3
  <2>5. ASSUME NEW i \in 0 .. n PROVE f1[i + 1] = g[i + 1][f1[i]]
    <3>1. CASE i = n
      <4>1. f1[n] = f[n] /\ f1[n + 1] = g[n + 1][f[n]]
        OBVIOUS
      <4> QED
        BY <3>1, <4>1
    <3>2. CASE i # n
      <4>1. i \in 0 .. n - 1 /\ i + 1 \in 0 .. n
        BY <3>2
      <4>2. f[i + 1] = g[i + 1][f[i]]
        BY <2>1, <4>1 DEF IsStart
      <4> QED
        BY <4>1, <4>2
    <3> QED
      BY <3>1, <3>2
  <2>6. n + 1 - 1 = n
    OBVIOUS
  <2>7. IsStart(f1, S, s, g, n + 1)
    <3> HIDE DEF f1
    <3> QED
      BY <2>4, <2>5, <2>6 DEF IsStart
  <2> HIDE DEF f1
  <2> QED
    BY <2>7
<1> HIDE DEF Have
<1>3. Nat \subseteq Have
  BY <1>1, <1>2, SetInduction
<1> QED
  BY <1>3 DEF Have

\* ... and the longer start goes through the end of the shorter one.
LEMMA StartsAgree ==
  ASSUME NEW S, NEW s, NEW g, NEW m \in Nat, NEW n \in Nat, m <= n,
         NEW e, IsStart(e, S, s, g, m), NEW f, IsStart(f, S, s, g, n)
  PROVE  e[m] = f[m]
<1> DEFINE Same == {i \in Nat : i <= m => e[i] = f[i]}
<1>1. 0 \in Same
  BY DEF IsStart
<1>2. ASSUME NEW i \in Nat, i \in Same PROVE i + 1 \in Same
  <2>1. CASE i + 1 <= m
    <3>1. i \in 0 .. m - 1 /\ i \in 0 .. n - 1
      BY <2>1
    <3>2. e[i] = f[i]
      BY <1>2, <2>1
    <3>3. e[i + 1] = g[i + 1][e[i]] /\ f[i + 1] = g[i + 1][f[i]]
      BY <3>1 DEF IsStart
    <3> QED
      BY <3>2, <3>3
  <2>2. CASE ~(i + 1 <= m)
    BY <2>2
  <2> QED
    BY <2>1, <2>2
<1> HIDE DEF Same
<1>3. m \in Same
  BY <1>1, <1>2, SetInduction
<1> QED
  BY <1>3 DEF Same

\* Recursion on the natural numbers: g iterated from s.
Iterates(f, S, s, g) ==
  f \in [Nat -> S] /\ f[0] = s /\ \A n \in Nat : f[n + 1] = g[n + 1][f[n]]

\* So a recursive definition on the natural numbers has a value everywhere.
LEMMA Iteration ==
  ASSUME NEW S, NEW s \in S, NEW g \in [Nat -> [S -> S]]
  PROVE  \E f : Iterates(f, S, s, g)
<1> DEFINE Start(n) == CHOOSE f : IsStart(f, S, s, g, n)
           F == [n \in Nat |-> Start(n)[n]]
<1>1. \A n \in Nat : IsStart(Start(n), S, s, g, n)
  BY StartsExist
<1> HIDE DEF Start
<1>2. F \in [Nat -> S]
  <2>1. \A n \in Nat : Start(n)[n] \in S
    BY <1>1 DEF IsStart
  <2> QED
    BY <2>1
<1>3. F[0] = s
  BY <1>1 DEF IsStart
<1>4. ASSUME NEW n \in Nat PROVE F[n + 1] = g[n + 1][F[n]]
  <2>1. Start(n)[n] = Start(n + 1)[n]
    BY <1>1, StartsAgree
  <2>2. n \in 0 .. n + 1 - 1
    OBVIOUS
  <2>3. Start(n + 1)[n + 1] = g[n + 1][Start(n + 1)[n]]
    BY <1>1, <2>2 DEF IsStart
  <2> QED
    BY <2>1, <2>3
<1> HIDE DEF F
<1> QED
  BY <1>2, <1>3, <1>4 DEF Iterates
=============================================================================
