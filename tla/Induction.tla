------------------------------- MODULE Induction -------------------------------
(***************************************************************************)
(* Induction over data.  The library's theorems about it take an operator, *)
(* which the provers cannot instantiate; these take a set, and follow from *)
(* the well-foundedness of the natural numbers.                            *)
(***************************************************************************)
EXTENDS Integers, WellFoundedInduction, TLAPS

\* Every set of natural numbers with an element has a least one.
LEMMA Least ==
  ASSUME NEW S, S \subseteq Nat, S # {}
  PROVE  \E m \in S : \A n \in S : m <= n
<1> DEFINE R == OpToRel(<, Nat)
<1>1. IsWellFoundedOn(R, Nat)
  BY NatLessThanWellFounded
<1>2. \E m \in S : \A n \in S : ~ (<<n, m>> \in R)
  <2> HIDE DEF R
  <2> QED BY <1>1, WFMin
<1>3. \A m, n \in S : <<n, m>> \in R <=> n < m
  BY DEF OpToRel
<1> HIDE DEF R
<1>4. PICK m \in S : \A n \in S : ~ (n < m)
  BY <1>2, <1>3
<1> QED BY <1>4

\* And a greatest one, if something bounds it.
LEMMA Greatest ==
  ASSUME NEW S, S \subseteq Nat, S # {}, NEW b \in Nat, \A n \in S : n <= b
  PROVE  \E m \in S : \A n \in S : n <= m
<1> DEFINE T == {k \in Nat : b - k \in S}
<1>1. \A n \in S : b - n \in T
  OBVIOUS
<1>2. T \subseteq Nat /\ T # {}
  BY <1>1
<1>3. PICK t \in T : \A u \in T : t <= u
  <2> HIDE DEF T
  <2> QED BY <1>2, Least
<1>4. b - t \in S /\ \A n \in S : n <= b - t
  BY <1>1, <1>3
<1> QED BY <1>4

\* What holds of 0 and of the successor of whatever it holds of holds of all.
LEMMA SetInduction ==
  ASSUME NEW S, 0 \in S, \A n \in Nat : n \in S => n + 1 \in S
  PROVE  Nat \subseteq S
<1> SUFFICES ASSUME Nat \ S # {} PROVE FALSE
  OBVIOUS
<1>1. PICK m \in Nat \ S : \A n \in Nat \ S : m <= n
  BY Least
<1>2. m # 0 /\ m - 1 \in Nat /\ m - 1 \notin Nat \ S
  BY <1>1
<1>3. m \in S
  BY <1>2
<1> QED BY <1>1, <1>3

\* The same up to a bound.
LEMMA InductionUpTo ==
  ASSUME NEW N \in Nat, NEW S, 0 \in S, \A n \in 0 .. N - 1 : n \in S => n + 1 \in S
  PROVE  0 .. N \subseteq S
<1> DEFINE T == {n \in Nat : n <= N => n \in S}
<1>1. 0 \in T /\ \A n \in Nat : n \in T => n + 1 \in T
  OBVIOUS
<1>2. Nat \subseteq T
  <2> HIDE DEF T
  <2> QED BY <1>1, SetInduction
<1> QED BY <1>2

\* g starts with base and takes every further value from the one before.
Computes(g, N, T, base, D) ==
  g \in [0 .. N -> T] /\ g[0] = base /\ \A i \in 1 .. N : g[i] = D[<<g[i - 1], i>>]

\* There is a function of every recursive definition over 0 .. N.
LEMMA Recursion ==
  ASSUME NEW N \in Nat, NEW T, NEW base \in T, NEW D \in [T \X (1 .. N) -> T]
  PROVE  \E g : Computes(g, N, T, base, D)
<1> DEFINE S == {n \in 0 .. N : \E g : Computes(g, n, T, base, D)}
<1>1. 0 \in S
  <2>1. Computes([i \in 0 .. 0 |-> base], 0, T, base, D)
    BY DEF Computes
  <2> QED BY <2>1
<1>2. \A n \in 0 .. N - 1 : n \in S => n + 1 \in S
  <2> SUFFICES ASSUME NEW n \in 0 .. N - 1, NEW g, Computes(g, n, T, base, D)
               PROVE  \E h : Computes(h, n + 1, T, base, D)
    OBVIOUS
  <2> USE DEF Computes
  <2> DEFINE next == D[<<g[n], n + 1>>]
             h == [i \in 0 .. n + 1 |-> IF i <= n THEN g[i] ELSE next]
  <2>1. g[n] \in T /\ next \in T
    OBVIOUS
  <2>2. h \in [0 .. n + 1 -> T] /\ h[0] = base
    <3> HIDE DEF next
    <3> QED BY <2>1
  <2>3. \A i \in 1 .. n + 1 : h[i] = D[<<h[i - 1], i>>]
    <3> TAKE i \in 1 .. n + 1
    <3>1. CASE i \in 1 .. n
      <4>1. h[i] = g[i] /\ h[i - 1] = g[i - 1] /\ g[i] = D[<<g[i - 1], i>>]
        BY <3>1
      <4> HIDE DEF h
      <4> QED BY <4>1
    <3>2. CASE i = n + 1
      <4>1. h[i] = next /\ h[i - 1] = g[n]
        <5> HIDE DEF next
        <5> QED BY <3>2
      <4> HIDE DEF h
      <4> QED BY <4>1, <3>2
    <3> QED BY <3>1, <3>2
  <2> HIDE DEF h
  <2> QED BY <2>2, <2>3
<1>3. N \in S
  <2> HIDE DEF S
  <2> QED BY <1>1, <1>2, InductionUpTo
<1> QED BY <1>3
================================================================================
