---------------------------- MODULE LoopInduction ----------------------------
(* The loops of the code run over the slots 1 .. N of a table. The modules    *)
(* write them as functions of the number of slots done. The lemmas here say   *)
(* that there is such a function, and that what each round preserves holds at *)
(* the end. Sets take the place of predicates in these inductions.            *)
EXTENDS Integers, WellFoundedInduction, TLAPS

\* A set of numbers that is not empty has a least member.
LEMMA LeastNat ==
    ASSUME NEW T \in SUBSET Nat, T # {}
    PROVE  \E n \in T : \A m \in T : n <= m
<1> DEFINE R == OpToRel(<, Nat)
<1>1. IsWellFoundedOn(R, Nat)
  BY NatLessThanWellFounded
<1>2. \A x, y \in Nat : y < x => <<y, x>> \in R
  BY DEF OpToRel
<1> HIDE DEF R
<1>3. PICK n \in T : \A m \in T : ~(<<m, n>> \in R)
  BY <1>1, WFMin
<1>4. ASSUME NEW m \in T PROVE n <= m
  <2>1. n \in Nat /\ m \in Nat
    OBVIOUS
  <2>2. ~(m < n)
    BY <2>1, <1>2, <1>3
  <2> QED
    BY <2>1, <2>2
<1> QED
  BY <1>4

\* Induction up to a bound.
LEMMA BoundedInduction ==
    ASSUME NEW N \in Nat, NEW T, 0 \in T, \A n \in 1 .. N : n - 1 \in T => n \in T
    PROVE  0 .. N \subseteq T
<1> SUFFICES ASSUME (0 .. N) \ T # {} PROVE FALSE
  OBVIOUS
<1>1. PICK n \in (0 .. N) \ T : \A m \in (0 .. N) \ T : n <= m
  <2>1. (0 .. N) \ T \in SUBSET Nat
    OBVIOUS
  <2> QED
    BY <2>1, LeastNat
<1>2. n \in 1 .. N /\ n - 1 \in 0 .. N
  BY <1>1
<1>3. n - 1 \in T
  BY <1>1, <1>2
<1> QED
  BY <1>1, <1>2, <1>3

\* g[n] is the state of a loop after n rounds, each of which stays in S.
IsLoop(g, N, S, s, round) ==
    g \in [0 .. N -> S] /\ g[0] = s /\ \A n \in 1 .. N : g[n] = round[n][g[n - 1]]

\* A loop whose rounds stay in S has a function of the rounds done.
LEMMA LoopExists ==
    ASSUME NEW N \in Nat, NEW S, NEW s \in S, NEW round \in [1 .. N -> [S -> S]]
    PROVE  \E g : IsLoop(g, N, S, s, round)
<1> DEFINE Ok(k) == \E g \in [0 .. k -> S] : g[0] = s /\ \A n \in 1 .. k : g[n] = round[n][g[n - 1]]
           T == {k \in 0 .. N : Ok(k)}
<1>1. Ok(0)
  <2> DEFINE g == [i \in 0 .. 0 |-> s]
  <2>1. g \in [0 .. 0 -> S] /\ g[0] = s
    OBVIOUS
  <2>2. \A n \in 1 .. 0 : g[n] = round[n][g[n - 1]]
    OBVIOUS
  <2> HIDE DEF g
  <2> QED
    BY <2>1, <2>2
<1>2. ASSUME NEW k \in 1 .. N, Ok(k - 1) PROVE Ok(k)
  <2>1. PICK g \in [0 .. k - 1 -> S] :
          g[0] = s /\ \A n \in 1 .. k - 1 : g[n] = round[n][g[n - 1]]
    BY <1>2
  <2>2. round[k] \in [S -> S] /\ g[k - 1] \in S
    BY <1>2
  <2> DEFINE h == [n \in 0 .. k |-> IF n = k THEN round[k][g[k - 1]] ELSE g[n]]
  <2>3. h \in [0 .. k -> S]
    BY <2>2
  <2>4. h[0] = s
    BY <2>1
  <2>5. \A n \in 1 .. k : h[n] = round[n][h[n - 1]]
    BY <2>1
  <2> HIDE DEF h
  <2> QED
    BY <2>3, <2>4, <2>5
<1> HIDE DEF Ok
<1>3. 0 .. N \subseteq T
  <2>1. 0 \in T
    BY <1>1
  <2>2. \A k \in 1 .. N : k - 1 \in T => k \in T
    BY <1>2
  <2> QED
    BY <2>1, <2>2, BoundedInduction
<1>4. Ok(N)
  BY <1>3
<1> QED
  BY <1>4 DEF Ok, IsLoop

\* What holds before a loop and is preserved by every round, Inv[n] after n
\* rounds, holds after it.
LEMMA LoopInvariant ==
    ASSUME NEW N \in Nat, NEW g, NEW Inv, g[0] \in Inv[0],
           \A n \in 1 .. N : g[n - 1] \in Inv[n - 1] => g[n] \in Inv[n]
    PROVE  g[N] \in Inv[N]
<1> DEFINE T == {k \in 0 .. N : g[k] \in Inv[k]}
<1>1. 0 \in T
  OBVIOUS
<1>2. \A n \in 1 .. N : n - 1 \in T => n \in T
  OBVIOUS
<1> HIDE DEF T
<1>3. 0 .. N \subseteq T
  BY <1>1, <1>2, BoundedInduction
<1> QED
  BY <1>3 DEF T
=============================================================================
