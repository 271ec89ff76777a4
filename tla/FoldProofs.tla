----------------------------- MODULE FoldProofs -----------------------------
(***************************************************************************)
(* What a fold over a sequence goes through, from its first element to its *)
(* last, and what a sum adds up to.                                        *)
(*                                                                         *)
(* The library's induction theorems take an operator, and so do its folds. *)
(* Here induction is taken from the well-foundedness of the naturals,      *)
(* which speaks of sets, and a step of a fold is a function F of the index *)
(* and the value so far.                                                   *)
(***************************************************************************)
EXTENDS Integers, FiniteSets, Sequences, SequencesExt, FiniteSetTheorems,
        WellFoundedInduction, TLAPS

(* A set of naturals that holds 0 and every successor holds them all.      *)
LEMMA Induction ==
    ASSUME NEW S, 0 \in S, \A n \in Nat : n \in S => n + 1 \in S
    PROVE  Nat \subseteq S
<1> DEFINE R == OpToRel(<, Nat)
           T == Nat \ S
<1> SUFFICES ASSUME T # {} PROVE FALSE
  OBVIOUS
<1>1. PICK n \in T : \A m \in T : <<m, n>> \notin R
  <2>1. IsWellFoundedOn(R, Nat)
    BY NatLessThanWellFounded
  <2>2. T \subseteq Nat
    OBVIOUS
  <2> HIDE DEF R, T
  <2> QED
    BY <2>1, <2>2, WFMin
<1>2. n # 0 /\ n - 1 \in Nat /\ n - 1 \notin S
  OBVIOUS
<1>3. <<n - 1, n>> \in R
  BY <1>2 DEF OpToRel
<1> HIDE DEF R
<1> QED
  BY <1>1, <1>2, <1>3

(* The same up to a bound.                                                 *)
LEMMA StepUp ==
    ASSUME NEW N \in Nat, NEW S, 0 \in S, \A i \in 1 .. N : i - 1 \in S => i \in S
    PROVE  0 .. N \subseteq S
<1> DEFINE T == {i \in Nat : i <= N => i \in S}
<1>1. 0 \in T
  OBVIOUS
<1>2. ASSUME NEW i \in Nat, i \in T PROVE i + 1 \in T
  <2> DEFINE j == i + 1
  <2>1. j \in Nat /\ j - 1 = i /\ (j <= N => j \in 1 .. N /\ i \in S)
    BY <1>2
  <2> HIDE DEF j
  <2>2. j \in T
    BY <2>1
  <2> QED
    BY <2>2 DEF j
<1>3. Nat \subseteq T
  <2> HIDE DEF T
  <2> QED
    BY <1>1, <1>2, Induction
<1> QED
  BY <1>3

-----------------------------------------------------------------------------
(* Folds.  FoldLeft goes from the greatest index down, over sets of        *)
(* indices; the sets it comes by are those of the first indices.           *)
LEMMA MaxOf ==
    ASSUME NEW n \in Nat, NEW t, t \subseteq 1 .. n, t # {}
    PROVE  Max(t) \in t /\ \A y \in t : Max(t) >= y
<1> DEFINE Has(u) == \E x \in u : \A y \in u : x >= y
           S == {m \in Nat : \A u \in SUBSET (1 .. m) : u # {} => Has(u)}
<1>1. 0 \in S
  <2>1. ASSUME NEW u \in SUBSET (1 .. 0), u # {} PROVE FALSE
    <3>1. PICK x : x \in u
      BY <2>1
    <3>2. x \in 1 .. 0
      BY <3>1
    <3> QED
      BY <3>2
  <2> QED
    BY <2>1
<1>2. ASSUME NEW m \in Nat, m \in S PROVE m + 1 \in S
  <2>1. ASSUME NEW u \in SUBSET (1 .. m + 1), u # {} PROVE Has(u)
    <3>0. \A x \in u : x \in 1 .. m + 1
      OBVIOUS
    <3>1. CASE m + 1 \in u
      BY <3>0, <3>1
    <3>2. CASE m + 1 \notin u
      <4>1. \A x \in u : x \in 1 .. m
        BY <3>0, <3>2
      <4>2. u \in SUBSET (1 .. m)
        BY <4>1
      <4> QED
        BY <1>2, <2>1, <4>2
    <3> QED
      BY <3>1, <3>2
  <2> HIDE DEF Has
  <2> QED
    BY <2>1
<1>3. n \in S
  <2> HIDE DEF S
  <2> QED
    BY <1>1, <1>2, Induction
<1> QED
  BY <1>3 DEF Max

(* The greatest of the first indices is the last, and without it the set   *)
(* is that of the indices before.                                          *)
LEMMA MaxOfFirst ==
    ASSUME NEW i \in Nat \ {0}
    PROVE  Max(1 .. i) = i /\ (1 .. i) \ {Max(1 .. i)} = 1 .. i - 1
<1>0. i \in 1 .. i /\ i \in Nat
  OBVIOUS
<1>1. Max(1 .. i) \in 1 .. i /\ \A y \in 1 .. i : Max(1 .. i) >= y
  <2>1. 1 .. i # {} /\ 1 .. i \subseteq 1 .. i
    BY <1>0
  <2> QED
    BY <1>0, <2>1, MaxOf
<1>2. Max(1 .. i) = i
  BY <1>0, <1>1
<1> QED
  BY <1>2

Folds(it, N, base, F) ==
    \A t \in SUBSET (1 .. N) : it[t] = IF t = {} THEN base ELSE F[<<Max(t), it[t \ {Max(t)}]>>]

FoldsIn(it, N, V, base, F) ==
    /\ it[{}] = base
    /\ \A t \in SUBSET (1 .. N) :
          t # {} /\ it[t \ {Max(t)}] \in V => it[t] = F[<<Max(t), it[t \ {Max(t)}]>>]

Climbs(g, N, base, F) == g[0] = base /\ \A i \in 1 .. N : g[i] = F[<<i, g[i - 1]>>]

(* There is a function that folds every set of indices, so that the one    *)
(* that FoldLeft chooses has the property it is chosen for.                *)
LEMMA FoldExists ==
    ASSUME NEW N \in Nat, NEW V, NEW base \in V, NEW F \in [(1 .. N) \X V -> V]
    PROVE  \E it \in [SUBSET (1 .. N) -> V] : Folds(it, N, base, F)
<1> USE DEF Folds
<1> DEFINE Ok(n, it) == it \in [SUBSET (1 .. n) -> V] /\ Folds(it, n, base, F)
           S == {n \in Nat : n <= N => \E it : Ok(n, it)}
<1>1. 0 \in S
  <2> DEFINE it == [t \in SUBSET (1 .. 0) |-> base]
  <2>1. \A t \in SUBSET (1 .. 0) : t = {}
    OBVIOUS
  <2>2. Ok(0, it)
    BY <2>1
  <2> HIDE DEF Ok, it
  <2> QED
    BY <2>2
<1>2. ASSUME NEW n \in Nat, n \in S PROVE n + 1 \in S
  <2> HIDE DEF Ok
  <2> SUFFICES ASSUME n + 1 <= N PROVE \E it : Ok(n + 1, it)
    OBVIOUS
  <2>1. PICK it : Ok(n, it)
    BY <1>2
  <2> USE DEF Ok
  <2> DEFINE new == [t \in SUBSET (1 .. n + 1) |->
                        IF n + 1 \in t THEN F[<<n + 1, it[t \ {n + 1}]>>] ELSE it[t]]
  <2>2. ASSUME NEW t \in SUBSET (1 .. n + 1), n + 1 \in t
        PROVE  Max(t) = n + 1 /\ t \ {n + 1} \in SUBSET (1 .. n)
    <3>1. Max(t) \in t /\ Max(t) >= n + 1
      <4>1. n + 1 \in Nat /\ t \subseteq 1 .. n + 1 /\ t # {}
        BY <2>2
      <4> QED
        BY <2>2, <4>1, MaxOf
    <3>2. \A x \in t : x \in 1 .. n + 1
      OBVIOUS
    <3>3. Max(t) = n + 1
      <4>1. Max(t) \in 1 .. n + 1
        BY <3>1, <3>2
      <4> QED
        BY <3>1, <4>1
    <3>4. \A x \in t \ {n + 1} : x \in 1 .. n
      BY <3>2
    <3> QED
      BY <3>3, <3>4
  <2>3. ASSUME NEW t \in SUBSET (1 .. n + 1), n + 1 \notin t
        PROVE  t \in SUBSET (1 .. n) /\ t \ {Max(t)} \in SUBSET (1 .. n)
    <3>1. \A x \in t : x \in 1 .. n + 1
      OBVIOUS
    <3>2. \A x \in t : x \in 1 .. n
      BY <2>3, <3>1
    <3> QED
      BY <3>2
  <2>4. new \in [SUBSET (1 .. n + 1) -> V]
    <3> SUFFICES ASSUME NEW t \in SUBSET (1 .. n + 1)
                 PROVE  (IF n + 1 \in t THEN F[<<n + 1, it[t \ {n + 1}]>>] ELSE it[t]) \in V
      OBVIOUS
    <3>1. CASE n + 1 \in t
      <4>1. it[t \ {n + 1}] \in V
        BY <2>1, <2>2, <3>1
      <4>2. n + 1 \in 1 .. N
        OBVIOUS
      <4>3. <<n + 1, it[t \ {n + 1}]>> \in (1 .. N) \X V
        BY <4>1, <4>2
      <4> QED
        BY <3>1, <4>3
    <3>2. CASE n + 1 \notin t
      BY <2>1, <2>3, <3>2
    <3> QED
      BY <3>1, <3>2
  <2>5. ASSUME NEW t \in SUBSET (1 .. n + 1)
        PROVE  new[t] = IF t = {} THEN base ELSE F[<<Max(t), new[t \ {Max(t)}]>>]
    <3>0. ASSUME NEW u \in SUBSET (1 .. n) PROVE u \in SUBSET (1 .. n + 1) /\ n + 1 \notin u
      OBVIOUS
    <3>1. CASE n + 1 \in t
      <4>1. Max(t) = n + 1 /\ t \ {n + 1} \in SUBSET (1 .. n)
        BY <2>2, <3>1
      <4>2. new[t \ {n + 1}] = it[t \ {n + 1}] /\ new[t] = F[<<n + 1, it[t \ {n + 1}]>>]
        BY <3>0, <3>1, <4>1
      <4> HIDE DEF new
      <4> QED
        BY <3>1, <4>1, <4>2
    <3>2. CASE n + 1 \notin t
      <4>1. t \in SUBSET (1 .. n) /\ t \ {Max(t)} \in SUBSET (1 .. n)
        BY <2>3, <3>2
      <4>2. new[t] = it[t]
        BY <3>2
      <4>3. new[t \ {Max(t)}] = it[t \ {Max(t)}]
        BY <3>0, <4>1
      <4> HIDE DEF new
      <4> QED
        BY <2>1, <4>1, <4>2, <4>3
    <3> QED
      BY <3>1, <3>2
  <2>6. Ok(n + 1, new)
    <3> HIDE DEF new
    <3> QED
      BY <2>4, <2>5
  <2> HIDE DEF Ok, new
  <2> QED
    BY <2>6
<1>3. N \in S
  <2> HIDE DEF S
  <2> QED
    BY <1>1, <1>2, Induction
<1>4. PICK it : Ok(N, it)
  <2> HIDE DEF Ok
  <2> QED
    BY <1>3
<1> QED
  BY <1>4

(* What a fold that exists comes by, from the first index to the last.     *)
LEMMA FoldClimbs ==
    ASSUME NEW N \in Nat, NEW V, NEW base \in V, NEW F \in [(1 .. N) \X V -> V], NEW it,
           FoldsIn(it, N, V, base, F)
    PROVE  \E g \in [0 .. N -> V] : g[N] = it[1 .. N] /\ Climbs(g, N, base, F)
<1> USE DEF FoldsIn
<1> DEFINE S == {i \in 0 .. N : it[1 .. i] \in V}
           g == [i \in 0 .. N |-> it[1 .. i]]
<1>1. 1 .. 0 = {}
  OBVIOUS
<1>2. ASSUME NEW i \in 1 .. N, it[1 .. i - 1] \in V
      PROVE  it[1 .. i] = F[<<i, it[1 .. i - 1]>>] /\ it[1 .. i] \in V
  <2>1. i \in Nat \ {0} /\ 1 .. i \in SUBSET (1 .. N) /\ 1 .. i # {}
    OBVIOUS
  <2>2. Max(1 .. i) = i /\ (1 .. i) \ {Max(1 .. i)} = 1 .. i - 1
    BY <2>1, MaxOfFirst
  <2>3. it[1 .. i] = F[<<i, it[1 .. i - 1]>>]
    BY <1>2, <2>1, <2>2
  <2>4. <<i, it[1 .. i - 1]>> \in (1 .. N) \X V
    BY <1>2
  <2> QED
    BY <2>3, <2>4
<1>3. 0 \in S
  BY <1>1
<1>4. ASSUME NEW i \in 1 .. N, i - 1 \in S PROVE i \in S
  <2>1. it[1 .. i - 1] \in V /\ i \in 0 .. N
    BY <1>4
  <2>2. it[1 .. i] \in V
    BY <1>2, <2>1
  <2> QED
    BY <2>1, <2>2
<1>5. \A i \in 0 .. N : it[1 .. i] \in V
  <2> HIDE DEF S
  <2>1. 0 .. N \subseteq S
    BY <1>3, <1>4, StepUp
  <2> USE DEF S
  <2> QED
    BY <2>1
<1>6. g \in [0 .. N -> V] /\ g[0] = base /\ g[N] = it[1 .. N]
  BY <1>1, <1>5
<1>7. ASSUME NEW i \in 1 .. N PROVE g[i] = F[<<i, g[i - 1]>>]
  <2>1. i - 1 \in 0 .. N /\ i \in 0 .. N
    OBVIOUS
  <2> QED
    BY <1>2, <1>5, <2>1
<1> HIDE DEF g
<1> QED
  BY <1>6, <1>7 DEF Climbs

-----------------------------------------------------------------------------
(* Sums of numbers.                                                        *)
Adds(it, N, w) ==
    it = [t \in SUBSET (1 .. N) |-> IF t = {} THEN 0 ELSE it[t \ {Max(t)}] + w[Max(t)]]

Sums(g, N, w) == g[0] = 0 /\ \A i \in 1 .. N : g[i] = g[i - 1] + w[i]

(* The same for the sums, whose step need not be a function of two         *)
(* arguments.                                                              *)
LEMMA AddsExists ==
    ASSUME NEW N \in Nat, NEW w \in [1 .. N -> Nat]
    PROVE  \E it : Adds(it, N, w)
<1> DEFINE F == [p \in (1 .. N) \X Nat |-> p[2] + w[p[1]]]
<1>1. F \in [(1 .. N) \X Nat -> Nat]
  OBVIOUS
<1>2. PICK f \in [SUBSET (1 .. N) -> Nat] : Folds(f, N, 0, F)
  <2> HIDE DEF F
  <2> QED
    BY <1>1, FoldExists
<1>3. ASSUME NEW t \in SUBSET (1 .. N), t # {}
      PROVE  F[<<Max(t), f[t \ {Max(t)}]>>] = f[t \ {Max(t)}] + w[Max(t)]
  <2>1. Max(t) \in 1 .. N /\ t \ {Max(t)} \in SUBSET (1 .. N)
    BY <1>3, MaxOf
  <2>2. <<Max(t), f[t \ {Max(t)}]>> \in (1 .. N) \X Nat
    BY <1>2, <2>1
  <2> QED
    BY <2>2
<1> HIDE DEF F
<1>4. Adds(f, N, w)
  BY <1>2, <1>3 DEF Folds, Adds
<1> QED
  BY <1>4

(* A fold that adds goes through the partial sums.                         *)
LEMMA AddsSums ==
    ASSUME NEW N \in Nat, NEW w \in [1 .. N -> Nat], NEW it, Adds(it, N, w)
    PROVE  \E g \in [0 .. N -> Nat] : g[N] = it[1 .. N] /\ Sums(g, N, w)
<1> DEFINE F == [p \in (1 .. N) \X Nat |-> p[2] + w[p[1]]]
<1>1. F \in [(1 .. N) \X Nat -> Nat]
  OBVIOUS
<1>2. FoldsIn(it, N, Nat, 0, F)
  <2>1. it[{}] = 0
    BY DEF Adds
  <2>2. ASSUME NEW t \in SUBSET (1 .. N), t # {}, it[t \ {Max(t)}] \in Nat
        PROVE  it[t] = F[<<Max(t), it[t \ {Max(t)}]>>]
    <3>1. Max(t) \in 1 .. N
      BY <2>2, MaxOf
    <3>2. it[t] = it[t \ {Max(t)}] + w[Max(t)]
      BY <2>2 DEF Adds
    <3>3. <<Max(t), it[t \ {Max(t)}]>> \in (1 .. N) \X Nat
      BY <2>2, <3>1
    <3> QED
      BY <3>2, <3>3
  <2> HIDE DEF F
  <2> QED
    BY <2>1, <2>2 DEF FoldsIn
<1>3. PICK g \in [0 .. N -> Nat] : g[N] = it[1 .. N] /\ Climbs(g, N, 0, F)
  <2> HIDE DEF F
  <2> QED
    BY <1>1, <1>2, FoldClimbs
<1>4. ASSUME NEW i \in 1 .. N PROVE g[i] = g[i - 1] + w[i]
  <2>1. i - 1 \in 0 .. N
    OBVIOUS
  <2>2. <<i, g[i - 1]>> \in (1 .. N) \X Nat
    BY <2>1
  <2>3. F[<<i, g[i - 1]>>] = g[i - 1] + w[i]
    BY <2>2
  <2> HIDE DEF F
  <2> QED
    BY <1>3, <2>3 DEF Climbs
<1> HIDE DEF F
<1> QED
  BY <1>3, <1>4 DEF Climbs, Sums

Agree(w, v, N) == \A i \in 1 .. N : w[i] = v[i]

SumBoth(g, h, N, w, v) == Sums(g, N, w) /\ Sums(h, N, v) /\ Agree(w, v, N)

(* Two sequences of the same numbers have the same sum.                    *)
LEMMA SameSums ==
    ASSUME NEW N \in Nat, NEW w, NEW v, NEW g, NEW h, SumBoth(g, h, N, w, v)
    PROVE  g[N] = h[N]
<1> USE DEF SumBoth, Sums, Agree
<1> DEFINE S == {i \in 0 .. N : g[i] = h[i]}
<1>1. 0 \in S
  OBVIOUS
<1>2. ASSUME NEW i \in 1 .. N, i - 1 \in S PROVE i \in S
  <2>1. g[i - 1] = h[i - 1] /\ i \in 0 .. N
    BY <1>2
  <2>2. g[i] = h[i]
    BY <2>1
  <2> QED
    BY <2>1, <2>2
<1>3. 0 .. N \subseteq S
  <2> HIDE DEF S
  <2> QED
    BY <1>1, <1>2, StepUp
<1> QED
  BY <1>3

(* No summand is more than the sum.                                        *)
LEMMA SumBounds ==
    ASSUME NEW N \in Nat, NEW w, \A i \in 1 .. N : w[i] \in Nat,
           NEW g, g \in [0 .. N -> Nat], Sums(g, N, w)
    PROVE  \A i \in 1 .. N : w[i] <= g[N]
<1> DEFINE S == {n \in 0 .. N : \A i \in 1 .. n : w[i] <= g[n]}
<1>1. 0 \in S
  OBVIOUS
<1>2. ASSUME NEW n \in 1 .. N, n - 1 \in S PROVE n \in S
  <2>1. /\ n - 1 \in 0 .. N /\ n \in 0 .. N /\ g[n - 1] \in Nat /\ g[n] = g[n - 1] + w[n] /\ w[n] \in Nat
        /\ \A i \in 1 .. n - 1 : w[i] <= g[n - 1]
    BY <1>2 DEF Sums
  <2>2. ASSUME NEW i \in 1 .. n PROVE w[i] <= g[n]
    <3>1. i \in 1 .. n - 1 \/ i = n
      OBVIOUS
    <3>2. w[i] \in Nat
      OBVIOUS
    <3> QED
      BY <2>1, <3>1, <3>2
  <2> QED
    BY <2>1, <2>2
<1>3. 0 .. N \subseteq S
  <2> HIDE DEF S
  <2> QED
    BY <1>1, <1>2, StepUp
<1>4. N \in S
  <2>1. N \in 0 .. N
    OBVIOUS
  <2> HIDE DEF S
  <2> QED
    BY <1>3, <2>1
<1> QED
  BY <1>4

-----------------------------------------------------------------------------
(* Ranks.  N ranks below N that differ are all the numbers below N.        *)
LEMMA RanksOnto ==
    ASSUME NEW N \in Nat, NEW r \in [1 .. N -> 0 .. N - 1],
           \A i, j \in 1 .. N : r[i] = r[j] => i = j
    PROVE  \A k \in 0 .. N - 1 : \E i \in 1 .. N : r[i] = k
<1>1. IsFiniteSet(1 .. N) /\ IsFiniteSet(0 .. N - 1) /\ Cardinality(1 .. N) = Cardinality(0 .. N - 1)
  <2>1. IsFiniteSet(1 .. N) /\ Cardinality(1 .. N) = IF 1 > N THEN 0 ELSE N - 1 + 1
    BY FS_Interval
  <2>2. IsFiniteSet(0 .. N - 1) /\ Cardinality(0 .. N - 1) = IF 0 > N - 1 THEN 0 ELSE N - 1 - 0 + 1
    <3>1. 0 \in Int /\ N - 1 \in Int
      OBVIOUS
    <3> QED
      BY <3>1, FS_Interval
  <2> QED
    BY <2>1, <2>2
<1>2. r \in Injection(1 .. N, 0 .. N - 1)
  BY DEF Injection, IsInjective
<1>3. r \in Surjection(1 .. N, 0 .. N - 1)
  BY <1>1, <1>2, FS_Injection
<1> QED
  BY <1>3 DEF Surjection
=============================================================================
