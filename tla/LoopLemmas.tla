------------------------------ MODULE LoopLemmas ------------------------------
(* What the proofs about loops over a slice rest on: induction on the      *)
(* turns of a loop, and the accumulator of a loop as a function of them.   *)
(* Both are stated of sets and functions, so that they can be cited.       *)
EXTENDS Integers, TLAPS, WellFoundedInduction

(* Every nonempty set of numbers has a least one.                          *)
LEMMA LeastNumber ==
  ASSUME NEW T, T \subseteq Nat, T # {}
  PROVE  \E n \in T : \A m \in T : n <= m
<1>1. PICK n \in T : \A m \in T : ~(<<m, n>> \in OpToRel(<, Nat))
  BY NatLessThanWellFounded, WFMin
<1>2. \A m \in T : ~(m < n)
  BY <1>1 DEF OpToRel
<1> QED
  BY <1>2

(* What holds before the first turn of a loop and is kept by every turn    *)
(* holds after each of its turns.                                          *)
LEMMA TurnInduction ==
  ASSUME NEW N \in Nat, NEW T, 0 \in T, \A n \in 1..N : n - 1 \in T => n \in T
  PROVE  \A n \in 0..N : n \in T
<1> DEFINE Bad == {n \in 0..N : n \notin T}
<1> SUFFICES ASSUME Bad # {} PROVE FALSE
  OBVIOUS
<1>1. PICK n \in Bad : \A m \in Bad : n <= m
  <2>1. Bad \subseteq Nat
    OBVIOUS
  <2> HIDE DEF Bad
  <2> QED
    BY <2>1, LeastNumber
<1>2. n \in 1..N /\ n - 1 \in 0..N
  BY <1>1
<1>3. n - 1 \in T
  BY <1>1, <1>2
<1> QED
  BY <1>1, <1>2, <1>3

(* f[n] is what a loop has accumulated after n of its N turns.             *)
Accumulates(f, N, D, start, turn) ==
  /\ f \in [0..N -> D]
  /\ f[0] = start
  /\ \A n \in 1..N : f[n] = turn[<<n, f[n - 1]>>]

(* Every loop has such a function.                                         *)
LEMMA Accumulator ==
  ASSUME NEW N \in Nat, NEW D, NEW start \in D, NEW turn \in [(1..N) \X D -> D]
  PROVE  \E f : Accumulates(f, N, D, start, turn)
<1> DEFINE T == {n \in 0..N : \E f \in [0..n -> D] :
                   f[0] = start /\ \A i \in 1..n : f[i] = turn[<<i, f[i - 1]>>]}
<1>1. 0 \in T
  <2> DEFINE f == [i \in 0..0 |-> start]
  <2>1. f \in [0..0 -> D] /\ f[0] = start /\ \A i \in 1..0 : f[i] = turn[<<i, f[i - 1]>>]
    OBVIOUS
  <2> HIDE DEF f
  <2>2. \E h \in [0..0 -> D] : h[0] = start /\ \A i \in 1..0 : h[i] = turn[<<i, h[i - 1]>>]
    BY <2>1
  <2> QED
    BY <2>2
<1>2. ASSUME NEW n \in 1..N, n - 1 \in T PROVE n \in T
  <2>1. PICK f \in [0..(n - 1) -> D] :
             f[0] = start /\ \A i \in 1..(n - 1) : f[i] = turn[<<i, f[i - 1]>>]
    BY <1>2
  <2> DEFINE v == turn[<<n, f[n - 1]>>]
             g == [i \in 0..n |-> IF i = n THEN v ELSE f[i]]
  <2>2. v \in D
    BY <2>1
  <2>3. g \in [0..n -> D] /\ g[0] = start
    BY <2>1, <2>2
  <2>4. ASSUME NEW i \in 1..n PROVE g[i] = turn[<<i, g[i - 1]>>]
    <3>1. CASE i = n
      <4>1. g[i] = v /\ g[i - 1] = f[n - 1]
        BY <3>1
      <4> QED
        BY <3>1, <4>1
    <3>2. CASE i # n
      <4>1. i \in 1..(n - 1) /\ g[i] = f[i] /\ g[i - 1] = f[i - 1]
        BY <3>2
      <4> HIDE DEF g
      <4> QED
        BY <2>1, <4>1
    <3> QED
      BY <3>1, <3>2
  <2> HIDE DEF g
  <2> QED
    BY <2>3, <2>4
<1>3. N \in T
  <2> HIDE DEF T
  <2>1. \A n \in 0..N : n \in T
    BY <1>1, <1>2, TurnInduction
  <2> QED
    BY <2>1
<1> QED
  BY <1>3 DEF Accumulates
=============================================================================
