--------------------------- MODULE RecursionTheorems ---------------------------
(***************************************************************************)
(* Recursive functions on 0 .. B and induction over 0 .. B, with a set     *)
(* where the usual theorems have an operator.                              *)
(***************************************************************************)
EXTENDS Integers, WellFoundedInduction, TLAPS

\* A function of k \in 0 .. B that is a at 0 and goes on with h.
Recursion(B, S, a, h) ==
  \E f \in [0 .. B -> S] : f[0] = a /\ \A k \in 1 .. B : f[k] = h[<<k, f[k - 1]>>]

(***************************************************************************)
(* Recursion up to a bound has a solution, whatever the step h is.         *)
(***************************************************************************)
LEMMA RecursionIs ==
  ASSUME NEW B \in Nat, NEW S, NEW a \in S, NEW h \in [Nat \X S -> S]
  PROVE  Recursion(B, S, a, h)
<1> DEFINE Solves(f, n) == f[0] = a /\ \A k \in 1 .. n : f[k] = h[<<k, f[k - 1]>>]
           open == {n \in Nat : ~\E f \in [0 .. n -> S] : Solves(f, n)}
<1>1. ASSUME open # {}
      PROVE  FALSE
  <2>1. PICK n \in open : \A j \in open : ~(<<j, n>> \in OpToRel(<, Nat))
    <3>1. open \subseteq Nat
      OBVIOUS
    <3> HIDE DEF open
    <3> QED BY <1>1, <3>1, NatLessThanWellFounded, WFMin
  <2>2. n \in Nat /\ ~\E f \in [0 .. n -> S] : Solves(f, n)
    BY <2>1
  <2>3. n # 0
    <3> DEFINE f == [k \in 0 .. 0 |-> a]
    <3>1. f \in [0 .. 0 -> S] /\ Solves(f, 0)
      OBVIOUS
    <3> HIDE DEF f, Solves
    <3> QED BY <2>2, <3>1
  <2>4. n - 1 \in Nat /\ n - 1 < n
    BY <2>2, <2>3
  <2>5. n - 1 \notin open
    <3>1. <<n - 1, n>> \in OpToRel(<, Nat)
      BY <2>2, <2>4 DEF OpToRel
    <3> QED BY <2>1, <3>1
  <2>6. PICK g \in [0 .. n - 1 -> S] : Solves(g, n - 1)
    BY <2>4, <2>5
  <2> DEFINE f == [k \in 0 .. n |-> IF k = n THEN h[<<n, g[n - 1]>>] ELSE g[k]]
  <2>7. h[<<n, g[n - 1]>>] \in S
    BY <2>2, <2>4, <2>6
  <2>8. \A k \in 0 .. n : k = n \/ k \in 0 .. n - 1
    BY <2>2
  <2>9. f \in [0 .. n -> S]
    BY <2>6, <2>7, <2>8
  <2>10. f[n] = h[<<n, g[n - 1]>>] /\ \A k \in 0 .. n - 1 : f[k] = g[k]
    BY <2>2
  <2> HIDE DEF f
  <2>11. \A k \in 1 .. n : k = n \/ k \in 1 .. n - 1
    BY <2>2
  <2>12. \A k \in 1 .. n - 1 : k \in 0 .. n - 1 /\ k - 1 \in 0 .. n - 1
    BY <2>2
  <2>13. n - 1 \in 0 .. n - 1 /\ 0 \in 0 .. n - 1
    BY <2>4
  <2>14. ASSUME NEW k \in 1 .. n
         PROVE  f[k] = h[<<k, f[k - 1]>>]
    <3>1. CASE k = n
      BY <2>10, <2>13, <3>1
    <3>2. CASE k \in 1 .. n - 1
      BY <2>6, <2>10, <2>12, <3>2
    <3> QED BY <2>11, <3>1, <3>2
  <2>15. f[0] = a
    BY <2>6, <2>10, <2>13
  <2> QED BY <2>2, <2>9, <2>14, <2>15
<1>2. PICK f \in [0 .. B -> S] : Solves(f, B)
  BY <1>1
<1> QED BY <1>2 DEF Recursion

(***************************************************************************)
(* A set that has 0, and with a number the next one, has all numbers.      *)
(***************************************************************************)
LEMMA UpTo ==
  ASSUME NEW B \in Nat, NEW P, 0 \in P,
         \A k \in 0 .. B : k # B /\ k \in P => k + 1 \in P
  PROVE  \A k \in 0 .. B : k \in P
<1> DEFINE open == {k \in Nat : k \in 0 .. B /\ k \notin P}
<1> SUFFICES ASSUME open # {} PROVE FALSE
  OBVIOUS
<1>1. PICK k \in open : \A j \in open : ~(<<j, k>> \in OpToRel(<, Nat))
  <2>1. open \subseteq Nat
    OBVIOUS
  <2> HIDE DEF open
  <2> QED BY <2>1, NatLessThanWellFounded, WFMin
<1>2. k \in Nat /\ k \in 0 .. B /\ k \notin P /\ k # 0
  BY <1>1
<1>3. k - 1 \in Nat /\ k - 1 \in 0 .. B /\ k - 1 # B /\ k - 1 < k /\ (k - 1) + 1 = k
  BY <1>2
<1>4. <<k - 1, k>> \in OpToRel(<, Nat)
  BY <1>2, <1>3 DEF OpToRel
<1>5. k - 1 \in P
  BY <1>1, <1>3, <1>4
<1> QED BY <1>2, <1>3, <1>5
=============================================================================
