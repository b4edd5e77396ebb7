--------------------------- MODULE Iteration_proofs ---------------------------
(***************************************************************************)
(* Lemmas for recursive functions over 0 .. N, which the symbol cache and  *)
(* the websocket are modelled with.                                        *)
(***************************************************************************)
EXTENDS Integers, WellFoundedInduction, TLAPS

-----------------------------------------------------------------------------
(***************************************************************************)
(* Recursive functions: that there is one, and what it keeps.              *)
(***************************************************************************)
LEMMA Induction ==
  ASSUME NEW P, 0 \in P, \A n \in Nat : n \in P => n + 1 \in P
  PROVE  Nat \subseteq P
<1> DEFINE T == Nat \ P
<1> SUFFICES ASSUME T # {} PROVE FALSE
  OBVIOUS
<1>1. PICK x \in T : \A y \in T : <<y, x>> \notin OpToRel(<, Nat)
  <2> HIDE DEF T
  <2>1. T \subseteq Nat BY DEF T
  <2> QED BY <2>1, NatLessThanWellFounded, WFMin
<1>2. x # 0 /\ x - 1 \in Nat /\ x - 1 \notin P
  BY Z3
<1>3. <<x - 1, x>> \in OpToRel(<, Nat)
  BY <1>2 DEF OpToRel
<1> QED
  BY <1>1, <1>2, <1>3

(* The same up to a bound.                                                 *)
LEMMA InductionTo ==
  ASSUME NEW N \in Nat, NEW P, 0 \in P, \A n \in 1 .. N : n - 1 \in P => n \in P
  PROVE  0 .. N \subseteq P
<1> DEFINE Q == {n \in Nat : n <= N => n \in P}
<1>1. 0 \in Q /\ \A n \in Nat : n \in Q => n + 1 \in Q
  <2>1. 0 \in Q OBVIOUS
  <2>2. ASSUME NEW n \in Nat, n \in Q PROVE n + 1 \in Q
    <3>1. CASE n + 1 <= N
      <4>1. n \in P /\ n + 1 \in 1 .. N /\ (n + 1) - 1 = n BY <2>2, <3>1
      <4> QED BY <4>1
    <3>2. CASE ~(n + 1 <= N) BY <3>2
    <3> QED BY <3>1, <3>2
  <2> QED BY <2>1, <2>2
<1> HIDE DEF Q
<1>2. Nat \subseteq Q
  BY <1>1, Induction
<1> QED
  BY <1>2 DEF Q

(* F[<<x, i>>] is the i-th value after x; the i-th value is in G[i].       *)
Iterated(f, N, a, F) ==
  f[0] = a /\ \A i \in 1 .. N : f[i] = F[<<f[i - 1], i>>]

(* A function that is defined step by step exists, and is in each step's   *)
(* set.                                                                    *)
LEMMA IterationExists ==
  ASSUME NEW N \in Nat, NEW U, NEW G \in [0 .. N -> SUBSET U], NEW a \in G[0], NEW F,
         \A i \in 1 .. N : \A x \in G[i - 1] : F[<<x, i>>] \in G[i]
  PROVE  \E f \in [0 .. N -> U] : Iterated(f, N, a, F) /\ \A i \in 0 .. N : f[i] \in G[i]
<1> DEFINE Up(f, n) == /\ f \in [0 .. n -> U] /\ Iterated(f, n, a, F)
                       /\ \A i \in 0 .. n : f[i] \in G[i]
           P == {n \in 0 .. N : \E f : Up(f, n)}
<1>1. 0 \in P
  <2> DEFINE f == [i \in 0 .. 0 |-> a]
  <2>1. Up(f, 0) BY DEF Iterated
  <2> QED BY <2>1
<1>2. ASSUME NEW n \in 1 .. N, n - 1 \in P
      PROVE  n \in P
  <2>1. PICK g : Up(g, n - 1) BY <1>2
  <2> DEFINE f == [i \in 0 .. n |-> IF i = n THEN F[<<g[n - 1], n>>] ELSE g[i]]
  <2>2. n - 1 \in 0 .. (n - 1) /\ g[n - 1] \in G[n - 1] BY <2>1
  <2>3. F[<<g[n - 1], n>>] \in G[n] BY <2>2
  <2>4. G[n] \subseteq U OBVIOUS
  <2>5. \A i \in 0 .. n : f[i] \in G[i]
    <3> TAKE i \in 0 .. n
    <3>1. CASE i = n BY <3>1, <2>3
    <3>2. CASE i # n
      <4>1. i \in 0 .. (n - 1) BY <3>2
      <4> QED BY <4>1, <3>2, <2>1
    <3> QED BY <3>1, <3>2
  <2>6. f \in [0 .. n -> U]
    <3>1. \A i \in 0 .. n : G[i] \subseteq U OBVIOUS
    <3> QED BY <3>1, <2>5
  <2>7. f[0] = a
    BY <2>1 DEF Iterated
  <2>8. ASSUME NEW i \in 1 .. n PROVE f[i] = F[<<f[i - 1], i>>]
    <3>0. i - 1 \in 0 .. n /\ i - 1 # n /\ f[i - 1] = g[i - 1] OBVIOUS
    <3>1. CASE i = n BY <3>1, <3>0
    <3>2. CASE i # n
      <4>1. i \in 1 .. (n - 1) BY <3>2
      <4> QED BY <4>1, <3>2, <3>0, <2>1 DEF Iterated
    <3> QED BY <3>1, <3>2
  <2>9. Up(f, n)
    <3> HIDE DEF f
    <3> QED BY <2>5, <2>6, <2>7, <2>8 DEF Iterated
  <2> HIDE DEF Up, f
  <2> QED BY <2>9
<1>3. 0 .. N \subseteq P
  <2> HIDE DEF P
  <2> QED BY <1>1, <1>2, InductionTo
<1>4. \E f : Up(f, N)
  BY <1>3
<1> QED
  BY <1>4
==============================================================================
