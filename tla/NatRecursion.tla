------------------------------ MODULE NatRecursion -----------------------------
(***************************************************************************)
(* Induction and recursion over the naturals, stated with sets and         *)
(* functions: what the proofs about the loops and the recursive functions  *)
(* of the modules rest on.                                                 *)
(***************************************************************************)
EXTENDS Integers, WellFoundedInduction, TLAPS

\* A set that holds 0 and with every natural the next one holds them all.
LEMMA NatSets ==
  ASSUME NEW S, 0 \in S, \A n \in Nat : n \in S => n + 1 \in S
  PROVE  Nat \subseteq S
<1> DEFINE L == OpToRel(<, Nat)
<1>1. IsWellFoundedOn(L, Nat)
  BY NatLessThanWellFounded
<1>2. \A m, n \in Nat : m < n => <<m, n>> \in L
  BY DEF OpToRel
<1> HIDE DEF L
<1> SUFFICES ASSUME Nat \ S # {} PROVE FALSE
  OBVIOUS
<1>3. PICK x \in Nat \ S : \A y \in Nat \ S : ~(<<y, x>> \in L)
  BY <1>1, WFMin
<1>4. x - 1 \in Nat /\ x - 1 < x
  BY <1>3
<1>5. x - 1 \in S
  BY <1>2, <1>3, <1>4
<1> QED
  BY <1>3, <1>4, <1>5

\* g starts with s0 and goes on by the step F.
Recurs(g, S, s0, F) ==
  /\ g \in [Nat -> S]
  /\ g[0] = s0
  /\ \A n \in Nat : g[n + 1] = F[<<n, g[n]>>]

\* A start and a step on S define a function of the naturals: the one every
\* definition f[n \in Nat] == IF n = 0 THEN start ELSE step(n - 1, f[n - 1]) means.
LEMMA Recursion ==
  ASSUME NEW S, NEW s0 \in S, NEW F \in [Nat \X S -> S]
  PROVE  \E g : Recurs(g, S, s0, F)
<1> DEFINE Upto(n) == {h \in [0..n -> S] : /\ h[0] = s0
                                           /\ \A i \in 0..(n - 1) : h[i + 1] = F[<<i, h[i]>>]}
           Some    == {n \in Nat : Upto(n) # {}}
           Agree   == {i \in Nat : \A m, n \in Nat : i <= m /\ i <= n =>
                         \A h \in Upto(m), k \in Upto(n) : h[i] = k[i]}
<1>1. 0 \in Some
  <2>1. [i \in 0..0 |-> s0] \in Upto(0)
    OBVIOUS
  <2> QED
    BY <2>1
<1>2. ASSUME NEW n \in Nat, n \in Some PROVE n + 1 \in Some
  <2>1. PICK h \in [0..n -> S] : /\ h[0] = s0
                                 /\ \A i \in 0..(n - 1) : h[i + 1] = F[<<i, h[i]>>]
    BY <1>2
  <2> DEFINE k == [i \in 0..(n + 1) |-> IF i = n + 1 THEN F[<<n, h[n]>>] ELSE h[i]]
  <2>2. k \in [0..(n + 1) -> S]
    BY <2>1
  <2>3. k[0] = s0
    BY <2>1
  <2>4. ASSUME NEW i \in 0..n PROVE k[i + 1] = F[<<i, k[i]>>]
    <3>1. i \in 0..(n + 1) /\ i + 1 \in 0..(n + 1) /\ i # n + 1
      OBVIOUS
    <3>2. k[i] = h[i]
      BY <3>1
    <3>3. CASE i = n
      BY <3>1, <3>2, <3>3
    <3>4. CASE i # n
      <4>1. i \in 0..(n - 1) /\ i + 1 # n + 1
        BY <3>4
      <4> QED
        BY <2>1, <3>1, <3>2, <4>1
    <3> QED
      BY <3>3, <3>4
  <2>5. k \in Upto(n + 1)
    <3> HIDE DEF k
    <3>1. \A i \in 0..((n + 1) - 1) : k[i + 1] = F[<<i, k[i]>>]
      <4>1. (n + 1) - 1 = n
        OBVIOUS
      <4> QED
        BY <2>4, <4>1
    <3> QED BY <2>2, <2>3, <3>1
  <2>6. Upto(n + 1) # {}
    BY <2>5
  <2> QED
    <3> HIDE DEF Upto
    <3> QED BY <2>6
<1>3. Nat \subseteq Some
  <2> HIDE DEF Some
  <2> QED BY <1>1, <1>2, NatSets
<1>4. 0 \in Agree
  OBVIOUS
<1>5. ASSUME NEW i \in Nat, i \in Agree PROVE i + 1 \in Agree
  <2> SUFFICES ASSUME NEW m \in Nat, NEW n \in Nat, i + 1 <= m, i + 1 <= n,
                      NEW h \in Upto(m), NEW k \in Upto(n)
               PROVE  h[i + 1] = k[i + 1]
    <3>1. i + 1 \in Nat
      OBVIOUS
    <3> HIDE DEF Upto
    <3> QED BY <3>1
  <2>1. h[i] = k[i]
    <3>1. i <= m /\ i <= n
      OBVIOUS
    <3> HIDE DEF Upto
    <3> QED BY <1>5, <3>1
  <2>2. h[i + 1] = F[<<i, h[i]>>] /\ k[i + 1] = F[<<i, k[i]>>]
    OBVIOUS
  <2> QED
    BY <2>1, <2>2
<1>6. Nat \subseteq Agree
  <2> HIDE DEF Agree
  <2> QED BY <1>4, <1>5, NatSets
<1> DEFINE one == [n \in Nat |-> CHOOSE h \in Upto(n) : TRUE]
<1>7. \A n \in Nat : one[n] \in Upto(n)
  BY <1>3
<1> HIDE DEF one
<1> DEFINE g == [n \in Nat |-> one[n][n]]
<1>8. g \in [Nat -> S]
  BY <1>7
<1>9. g[0] = s0
  BY <1>7
<1>10. ASSUME NEW n \in Nat PROVE g[n + 1] = F[<<n, g[n]>>]
  <2>1. one[n + 1] \in Upto(n + 1) /\ one[n] \in Upto(n)
    BY <1>7
  <2>2. one[n + 1][n + 1] = F[<<n, one[n + 1][n]>>]
    BY <2>1
  <2>3. one[n + 1][n] = one[n][n]
    <3>1. n \in Agree
      BY <1>6
    <3> HIDE DEF Upto
    <3> QED BY <2>1, <3>1
  <2> QED
    BY <2>2, <2>3
<1> QED
  BY <1>8, <1>9, <1>10 DEF Recurs
=============================================================================
