--------------------------- MODULE RoutingProofs ---------------------------
(***************************************************************************)
(* What the searches return, for every network: paths that start at a      *)
(* master and on which a ride is boarded before it goes on.  The first     *)
(* search returns one of least weight, which keeps clear of incidents.     *)
(***************************************************************************)
EXTENDS Routing, PathsProofs

(* Sets of images are finite.                                              *)
LEMMA ImageFinite ==
    ASSUME NEW S, IsFiniteSet(S), NEW f, DOMAIN f = S
    PROVE  IsFiniteSet({f[x] : x \in S})
<1> DEFINE T == {f[x] : x \in S}
           g == [x \in S |-> f[x]]
<1>1. g \in Surjection(S, T)
  BY DEF Surjection
<1> HIDE DEF T, g
<1>2. IsFiniteSet(T)
  BY <1>1, FS_Surjection
<1> QED
  BY <1>2 DEF T

(* A set is listed: the fold takes its elements one by one.                *)
LEMMA ListedAll ==
    ASSUME NEW S, IsFiniteSet(S)
    PROVE  Listed(S) \in Seq(S) /\ \A x \in S : \E i \in DOMAIN Listed(S) : Listed(S)[i] = x
<1> DEFINE Pick(t) == CHOOSE x \in t : TRUE
           Take(it, t) == IF t = {} THEN <<>> ELSE Append(it[t \ {Pick(t)}], Pick(t))
           E(it) == it = [t \in SUBSET S |-> Take(it, t)]
           it == CHOOSE it : E(it)
           C == Cardinality(S)
<1>1. Listed(S) = it[S]
  BY DEF Listed, FoldSet, MapThenFoldSet
<1>2. C \in Nat
  BY FS_CardinalityType
<1>3. ASSUME NEW t \in SUBSET S
      PROVE  Cardinality(t) \in Nat /\ Cardinality(t) <= C /\ (Cardinality(t) = 0 => t = {})
  <2>1. IsFiniteSet(t) /\ Cardinality(t) <= C
    BY FS_Subset
  <2>2. Cardinality(t) \in Nat
    BY <2>1, FS_CardinalityType
  <2>3. Cardinality(t) = 0 => t = {}
    BY <2>1, FS_EmptySet
  <2> HIDE DEF C
  <2> QED
    BY <2>1, <2>2, <2>3
<1>0. ASSUME NEW t \in SUBSET S, t # {}
      PROVE  /\ Pick(t) \in t /\ Pick(t) \in S /\ t \ {Pick(t)} \in SUBSET S
             /\ Cardinality(t \ {Pick(t)}) = Cardinality(t) - 1
  <2>1. IsFiniteSet(t)
    BY FS_Subset
  <2>2. Pick(t) \in t
    BY <1>0
  <2> HIDE DEF Pick
  <2>3. Cardinality(t \ {Pick(t)}) = Cardinality(t) - 1
    BY <2>1, <2>2, FS_RemoveElement
  <2> QED
    BY <2>2, <2>3
<1> HIDE DEF C, Pick
<1> DEFINE Lists(f, n) == /\ f \in [SUBSET S -> Seq(S)]
                          /\ \A t \in SUBSET S : Cardinality(t) <= n => f[t] = Take(f, t)
           T == {n \in Nat : \E f : Lists(f, n)}
<1>4. 0 \in T
  <2> DEFINE f == [t \in SUBSET S |-> <<>>]
  <2>1. \A t \in SUBSET S : Cardinality(t) <= 0 => t = {}
    BY <1>3
  <2>2. Lists(f, 0)
    BY <2>1
  <2> HIDE DEF f, Lists
  <2> QED
    BY <2>2
<1>5. ASSUME NEW n \in Nat, n \in T PROVE n + 1 \in T
  <2>1. PICK f : Lists(f, n)
    BY <1>5
  <2> DEFINE g == [t \in SUBSET S |-> Take(f, t)]
  <2>2. ASSUME NEW t \in SUBSET S PROVE Take(f, t) \in Seq(S)
    <3>1. CASE t = {}
      BY <3>1
    <3>2. CASE t # {}
      <4> DEFINE u == t \ {Pick(t)}
      <4>1. u \in SUBSET S /\ Pick(t) \in S
        BY <1>0, <3>2
      <4>2. f[u] \in Seq(S)
        BY <2>1, <4>1
      <4> HIDE DEF u
      <4>3. Append(f[u], Pick(t)) \in Seq(S)
        BY <4>1, <4>2
      <4> QED
        BY <3>2, <4>3 DEF u
    <3> QED
      BY <3>1, <3>2
  <2>3. ASSUME NEW t \in SUBSET S, Cardinality(t) <= n + 1 PROVE g[t] = Take(g, t)
    <3>1. CASE t = {}
      BY <3>1
    <3>2. CASE t # {}
      <4> DEFINE u == t \ {Pick(t)}
      <4>1. u \in SUBSET S /\ Cardinality(u) <= n
        BY <1>0, <1>3, <2>3, <3>2
      <4>2. g[u] = f[u]
        BY <2>1, <4>1
      <4>3. g[t] = Append(f[u], Pick(t))
        BY <3>2
      <4> HIDE DEF g
      <4> QED
        BY <3>2, <4>2, <4>3
    <3> QED
      BY <3>1, <3>2
  <2>4. g \in [SUBSET S -> Seq(S)]
    <3> HIDE DEF Take
    <3> QED
      BY <2>2
  <2>5. Lists(g, n + 1)
    <3> HIDE DEF g, Take
    <3> QED
      BY <2>3, <2>4
  <2> HIDE DEF Lists, g
  <2> QED
    BY <2>5
<1>6. PICK f : Lists(f, C)
  <2>1. Nat \subseteq T
    <3> HIDE DEF T
    <3> QED
      BY <1>4, <1>5, Induction
  <2> HIDE DEF Lists
  <2> QED
    BY <1>2, <2>1
<1>7. E(f)
  <2>1. \A t \in SUBSET S : f[t] = Take(f, t)
    BY <1>3, <1>6
  <2> HIDE DEF Take
  <2> QED
    BY <1>6, <2>1
<1>8. E(it)
  <2> HIDE DEF E
  <2> QED
    BY <1>7
<1>9. \A t \in SUBSET S : it[t] = Take(it, t)
  <2> HIDE DEF it, Take
  <2> QED
    BY <1>8
<1> HIDE DEF it
<1> DEFINE All(t) == it[t] \in Seq(S) /\ \A x \in t : \E i \in DOMAIN it[t] : it[t][i] = x
           U == {n \in Nat : \A t \in SUBSET S : Cardinality(t) <= n => All(t)}
<1>10. 0 \in U
  <2>1. \A t \in SUBSET S : Cardinality(t) <= 0 => t = {}
    BY <1>3
  <2>2. All({})
    <3>1. {} \in SUBSET S
      OBVIOUS
    <3>2. it[{}] = <<>>
      BY <1>9, <3>1
    <3> QED
      BY <3>2
  <2> HIDE DEF All
  <2> QED
    BY <2>1, <2>2
<1>11. ASSUME NEW n \in Nat, n \in U PROVE n + 1 \in U
  <2>1. ASSUME NEW t \in SUBSET S, Cardinality(t) <= n + 1 PROVE All(t)
    <3>1. CASE t = {}
      <4>1. it[t] = <<>>
        BY <1>9, <3>1
      <4> QED
        BY <3>1, <4>1
    <3>2. CASE t # {}
      <4> DEFINE u == t \ {Pick(t)}
                 seq == it[u]
                 x == Pick(t)
      <4>1. u \in SUBSET S /\ Cardinality(u) <= n /\ x \in S /\ t = u \cup {x}
        BY <1>0, <1>3, <2>1, <3>2
      <4>2. seq \in Seq(S) /\ \A y \in u : \E i \in DOMAIN seq : seq[i] = y
        BY <1>11, <4>1
      <4>3. it[t] = Append(seq, x)
        BY <1>9, <3>2
      <4> HIDE DEF seq, x, u
      <4> DEFINE more == Append(seq, x)
                 m == Len(seq)
      <4>4. /\ more \in Seq(S) /\ m \in Nat /\ DOMAIN seq = 1 .. m /\ DOMAIN more = 1 .. m + 1
            /\ more[m + 1] = x /\ \A i \in 1 .. m : more[i] = seq[i]
        BY <4>1, <4>2
      <4> HIDE DEF more, m
      <4>5. \A y \in t : \E i \in DOMAIN more : more[i] = y
        <5>1. ASSUME NEW y \in u PROVE \E i \in DOMAIN more : more[i] = y
          <6>1. PICK i \in 1 .. m : seq[i] = y
            BY <4>2, <4>4
          <6> QED
            BY <4>4, <6>1
        <5>2. \E i \in DOMAIN more : more[i] = x
          <6>1. m + 1 \in DOMAIN more
            BY <4>4
          <6> QED
            BY <4>4, <6>1
        <5> QED
          BY <4>1, <5>1, <5>2
      <4> QED
        BY <4>3, <4>4, <4>5 DEF more
    <3> QED
      BY <3>1, <3>2
  <2> HIDE DEF All
  <2> QED
    BY <2>1
<1>12. All(S)
  <2>1. Nat \subseteq U
    <3> HIDE DEF U
    <3> QED
      BY <1>10, <1>11, Induction
  <2>2. C \in U /\ Cardinality(S) <= C /\ S \in SUBSET S
    BY <1>2, <2>1 DEF C
  <2> HIDE DEF All
  <2> QED
    BY <2>2
<1> QED
  BY <1>1, <1>12

-----------------------------------------------------------------------------
(* Paths: each link starts where the one before it ends.                   *)
Walks(s) == {p \in Seq(Links) : /\ Len(p) > 0 /\ p[1].src = s
                                /\ \A i \in 1 .. Len(p) : i > 1 => p[i].src = p[i - 1].dst}

(* One link more, over all paths of a set.                                 *)
Longer(k, X) == UNION {{Append(p, l) : l \in {l \in LinksOf(k) : l.src = Last(p).dst
                                                              /\ l.dst \notin Nodes(p)}} : p \in X}

(* The paths of one link are finitely many walks.                          *)
LEMMA FirstLinks ==
    ASSUME NEW k, NEW s
    PROVE  /\ {<<l>> : l \in {l \in LinksOf(k) : l.src = s}} \subseteq Walks(s)
           /\ IsFiniteSet({<<l>> : l \in {l \in LinksOf(k) : l.src = s}})
<1> DEFINE ls == {l \in LinksOf(k) : l.src = s}
           f == [l \in ls |-> <<l>>]
<1>1. ls \in SUBSET Links
  BY DEF LinksOf
<1>2. {f[l] : l \in ls} = {<<l>> : l \in ls}
  OBVIOUS
<1>3. IsFiniteSet(ls)
  <2> HIDE DEF ls
  <2> QED
    BY <1>1, FS_Subset, NetworkAssumption
<1>4. IsFiniteSet({f[l] : l \in ls})
  <2>1. DOMAIN f = ls
    OBVIOUS
  <2> HIDE DEF f, ls
  <2> QED
    BY <1>3, <2>1, ImageFinite
<1>5. ASSUME NEW l \in ls PROVE <<l>> \in Walks(s)
  <2>1. l \in Links /\ l.src = s
    BY DEF LinksOf
  <2>2. <<l>> \in Seq(Links) /\ Len(<<l>>) = 1 /\ <<l>>[1] = l
    BY <2>1
  <2> QED
    BY <2>1, <2>2 DEF Walks
<1> HIDE DEF ls, f
<1>6. IsFiniteSet({<<l>> : l \in ls}) /\ {<<l>> : l \in ls} \subseteq Walks(s)
  BY <1>2, <1>4, <1>5
<1> QED
  BY <1>6 DEF ls

(* So are those that are one link longer.                                  *)
LEMMA LongerWalks ==
    ASSUME NEW k, NEW s, NEW X \in SUBSET Walks(s), IsFiniteSet(X)
    PROVE  Longer(k, X) \in SUBSET Walks(s) /\ IsFiniteSet(Longer(k, X))
<1> DEFINE f == [q \in X \X Links |-> Append(q[1], q[2])]
           all == {f[q] : q \in X \X Links}
<1>1. ASSUME NEW x \in Longer(k, X)
      PROVE  \E p \in X : \E l \in Links : x = Append(p, l) /\ l.src = Last(p).dst
  BY DEF Longer, LinksOf
<1>2. IsFiniteSet(X \X Links)
  BY FS_Product, NetworkAssumption
<1>3. IsFiniteSet(all)
  <2>1. DOMAIN f = X \X Links
    OBVIOUS
  <2> HIDE DEF f
  <2> QED
    BY <1>2, <2>1, ImageFinite
<1>4. Longer(k, X) \in SUBSET all
  <2>1. ASSUME NEW x \in Longer(k, X) PROVE x \in all
    <3>1. PICK p \in X, l \in Links : x = Append(p, l)
      BY <1>1
    <3>2. <<p, l>> \in X \X Links /\ f[<<p, l>>] = x
      BY <3>1
    <3> HIDE DEF f
    <3> QED
      BY <3>2
  <2> QED
    BY <2>1
<1>5. ASSUME NEW x \in Longer(k, X) PROVE x \in Walks(s)
  <2>1. PICK p \in X, l \in Links : x = Append(p, l) /\ l.src = Last(p).dst
    BY <1>1
  <2> DEFINE n == Len(p)
  <2>2. /\ p \in Seq(Links) /\ n \in Nat /\ n > 0 /\ p[1].src = s
        /\ \A i \in 1 .. n : i > 1 => p[i].src = p[i - 1].dst
    BY DEF Walks
  <2>3. /\ x \in Seq(Links) /\ Len(x) = n + 1 /\ x[n + 1] = l /\ Last(p) = p[n]
        /\ \A i \in 1 .. n : x[i] = p[i]
    BY <2>1, <2>2 DEF Last
  <2> HIDE DEF n
  <2>4. ASSUME NEW i \in 1 .. n + 1, i > 1 PROVE x[i].src = x[i - 1].dst
    <3>1. i - 1 \in 1 .. n /\ x[i - 1] = p[i - 1]
      BY <2>2, <2>3, <2>4
    <3>2. CASE i \in 1 .. n
      BY <2>2, <2>3, <2>4, <3>1, <3>2
    <3>3. CASE i = n + 1
      BY <2>1, <2>2, <2>3, <3>1, <3>3
    <3> QED
      BY <2>2, <3>2, <3>3
  <2>5. x[1].src = s
    BY <2>2, <2>3
  <2> QED
    BY <2>2, <2>3, <2>4, <2>5 DEF Walks
<1> HIDE DEF all
<1>6. IsFiniteSet(Longer(k, X))
  BY <1>3, <1>4, FS_Subset
<1> QED
  BY <1>5, <1>6

(* So are all paths from a node.                                           *)
LEMMA PathsAreWalks ==
    ASSUME NEW k, NEW s
    PROVE  PathsFrom(k, s) \subseteq Walks(s) /\ IsFiniteSet(PathsFrom(k, s))
<1> DEFINE C == Cardinality(Master \cup Platform)
           A == {<<l>> : l \in {l \in LinksOf(k) : l.src = s}}
           Level(f, n) == IF n = 1 THEN A ELSE Longer(k, f[n - 1])
           E(f) == f = [n \in 1 .. C |-> Level(f, n)]
           longer == CHOOSE f : E(f)
           V == {X \in SUBSET Walks(s) : IsFiniteSet(X)}
           F == [q \in (1 .. C) \X V |-> Longer(k, q[2])]
<1>1. PathsFrom(k, s) = UNION {longer[n] : n \in DOMAIN longer}
  BY DEF PathsFrom, Longer
<1>2. C \in Nat
  <2>1. IsFiniteSet(Master \cup Platform)
    BY FS_Union, NetworkAssumption
  <2> QED
    BY <2>1, FS_CardinalityType
<1>3. A \in V
  BY FirstLinks
<1> HIDE DEF C, A
<1>4. F \in [(1 .. C) \X V -> V]
  BY LongerWalks
<1>5. \E f : E(f)
  <2>1. PICK it : it \in [SUBSET (1 .. C) -> V] /\ Folds(it, C, A, F)
    <3> HIDE DEF F, V
    <3> QED
      BY <1>2, <1>3, <1>4, FoldExists
  <2>2. FoldsIn(it, C, V, A, F)
    <3> HIDE DEF F, V
    <3> QED
      BY <2>1 DEF Folds, FoldsIn
  <2>3. PICK g \in [0 .. C -> V] : g[C] = it[1 .. C] /\ Climbs(g, C, A, F)
    <3> HIDE DEF F, V
    <3> QED
      BY <1>2, <1>3, <1>4, <2>2, FoldClimbs
  <2> DEFINE f == [n \in 1 .. C |-> g[n - 1]]
  <2>4. ASSUME NEW n \in 1 .. C PROVE f[n] = Level(f, n)
    <3>1. CASE n = 1
      <4>1. f[1] = g[0]
        BY <1>2, <3>1
      <4> HIDE DEF f
      <4> QED
        BY <2>3, <3>1, <4>1 DEF Climbs
    <3>2. CASE n # 1
      <4>1. n - 1 \in 1 .. C /\ n - 2 \in 0 .. C /\ n - 1 - 1 = n - 2
        BY <1>2, <3>2
      <4>2. g[n - 1] = F[<<n - 1, g[n - 2]>>] /\ g[n - 2] \in V
        BY <2>3, <4>1 DEF Climbs
      <4>3. F[<<n - 1, g[n - 2]>>] = Longer(k, g[n - 2])
        BY <4>1, <4>2
      <4>4. f[n] = g[n - 1] /\ f[n - 1] = g[n - 2]
        BY <4>1
      <4> HIDE DEF f, F
      <4> QED
        BY <3>2, <4>2, <4>3, <4>4
    <3> QED
      BY <3>1, <3>2
  <2>5. E(f)
    <3>1. f = [n \in 1 .. C |-> f[n]]
      OBVIOUS
    <3> HIDE DEF f, Level
    <3> QED
      BY <2>4, <3>1
  <2> HIDE DEF E, f
  <2> QED
    BY <2>5
<1>6. E(longer)
  <2> HIDE DEF E
  <2> QED
    BY <1>5
<1>7. DOMAIN longer = 1 .. C /\ \A n \in 1 .. C : longer[n] = Level(longer, n)
  <2> HIDE DEF longer, Level
  <2> QED
    BY <1>6
<1> HIDE DEF longer
<1>8. \A n \in 1 .. C : longer[n] \in V
  <2> DEFINE T == {n \in 0 .. C : n > 0 => longer[n] \in V}
  <2>1. 0 \in T
    BY <1>2
  <2>2. ASSUME NEW n \in 1 .. C, n - 1 \in T PROVE n \in T
    <3>1. CASE n = 1
      BY <1>3, <1>7, <3>1
    <3>2. CASE n # 1
      <4>1. n - 1 \in 1 .. C /\ longer[n - 1] \in V
        BY <1>2, <2>2, <3>2
      <4>2. Longer(k, longer[n - 1]) \in V
        BY <4>1, LongerWalks
      <4> QED
        BY <1>7, <3>2, <4>2
    <3> QED
      BY <3>1, <3>2
  <2>3. 0 .. C \subseteq T
    <3> HIDE DEF T
    <3> QED
      BY <1>2, <2>1, <2>2, StepUp
  <2> QED
    BY <1>2, <2>3
<1>9. IsFiniteSet({longer[n] : n \in 1 .. C})
  <2> DEFINE I == 1 .. C
  <2>1. IsFiniteSet(I) /\ DOMAIN longer = I
    BY <1>2, <1>7, FS_Interval
  <2> HIDE DEF I
  <2>2. IsFiniteSet({longer[n] : n \in I})
    BY <2>1, ImageFinite
  <2> QED
    BY <2>2 DEF I
<1>10. IsFiniteSet(UNION {longer[n] : n \in 1 .. C})
  <2>1. \A X \in {longer[n] : n \in 1 .. C} : IsFiniteSet(X)
    BY <1>8
  <2> QED
    BY <1>9, <2>1, FS_UNION
<1>11. PathsFrom(k, s) = UNION {longer[n] : n \in 1 .. C}
  BY <1>1, <1>7
<1>12. \A n \in 1 .. C : longer[n] \subseteq Walks(s)
  BY <1>8
<1> HIDE DEF V, E, F, Level
<1> QED
  BY <1>10, <1>11, <1>12

-----------------------------------------------------------------------------
(* Weights.                                                                *)
WeightsOf(k, p, aff, N) == [i \in 1 .. N |-> Weight(k, p[i], aff)]

(* The weight of a link is a natural number.                               *)
LEMMA WeightNat ==
    ASSUME NEW k \in Graph, NEW l \in Links, NEW aff
    PROVE  Weight(k, l, aff) \in Nat
<1>1. l.sec \in Nat
  BY NetworkAssumption
<1>2. WalkWeight(k, l.sec) \in Nat
  BY <1>1 DEF WalkWeight, Graph
<1>3. RideWeight(k, l) \in Nat
  BY <1>1 DEF RideWeight, Graph
<1> QED
  BY <1>2, <1>3 DEF Weight, Penalty

(* The weight of a path is the last of the partial sums of its links'      *)
(* weights.                                                                *)
LEMMA WeightSums ==
    ASSUME NEW k \in Graph, NEW aff, NEW N \in Nat, NEW p, DOMAIN p = 1 .. N,
           \A i \in 1 .. N : p[i] \in Links
    PROVE  \E g \in [0 .. N -> Nat] : /\ g[N] = PathWeight(k, p, aff)
                                      /\ Sums(g, N, WeightsOf(k, p, aff, N))
<1> DEFINE w == [i \in 1 .. N |-> Weight(k, p[i], aff)]
<1>1. w \in [1 .. N -> Nat] /\ PathWeight(k, p, aff) = Sum(w) /\ WeightsOf(k, p, aff, N) = w
  BY WeightNat DEF PathWeight, WeightsOf
<1> HIDE DEF w
<1> QED
  BY <1>1, SumSums

(* So it is a natural number.                                              *)
LEMMA PathWeightNat ==
    ASSUME NEW k \in Graph, NEW s, NEW aff, NEW p \in Walks(s)
    PROVE  PathWeight(k, p, aff) \in Nat
<1> DEFINE N == Len(p)
<1>1. N \in Nat /\ DOMAIN p = 1 .. N /\ (\A i \in 1 .. N : p[i] \in Links) /\ N \in 0 .. N
  BY DEF Walks
<1> HIDE DEF N
<1>2. PICK g : g \in [0 .. N -> Nat] /\ g[N] = PathWeight(k, p, aff) /\ Sums(g, N, WeightsOf(k, p, aff, N))
  BY <1>1, WeightSums
<1> QED
  BY <1>1, <1>2

-----------------------------------------------------------------------------
(* The paths from one stop to another, the lightest first.                 *)
Ways(k, s, t) == {p \in AllPaths[k][s] : Last(p).dst = t}

(* The ways are sorted: the first weighs no more than any other.           *)
LEMMA ShortestWays ==
    ASSUME NEW k \in Graph, NEW s \in Master, NEW t, NEW aff
    PROVE  /\ Shortest(k, s, t, aff) \in Seq(Ways(k, s, t))
           /\ \A p \in Ways(k, s, t) :
                 /\ Shortest(k, s, t, aff) # <<>>
                 /\ PathWeight(k, Shortest(k, s, t, aff)[1], aff) <= PathWeight(k, p, aff)
           /\ Ways(k, s, t) \subseteq Walks(s)
<1> DEFINE W == Ways(k, s, t)
           ways == Listed(W)
           N == Len(ways)
           w == [i \in DOMAIN ways |-> PathWeight(k, ways[i], aff)]
           best == Sorted(ways, w)
<1>1. W \subseteq Walks(s) /\ IsFiniteSet(W)
  <2>1. W \in SUBSET PathsFrom(k, s)
    BY DEF Ways, AllPaths
  <2> HIDE DEF W
  <2> QED
    BY <2>1, PathsAreWalks, FS_Subset
<1>2. Shortest(k, s, t, aff) = best
  BY DEF Shortest, Ways
<1> HIDE DEF W
<1>3. ways \in Seq(W) /\ \A p \in W : \E i \in DOMAIN ways : ways[i] = p
  BY <1>1, ListedAll
<1> HIDE DEF ways
<1>4. N \in Nat /\ DOMAIN ways = 1 .. N /\ \A i \in 1 .. N : ways[i] \in W
  BY <1>3
<1> HIDE DEF N
<1>5. \A i \in 1 .. N : w[i] = PathWeight(k, ways[i], aff) /\ w[i] \in Int
  <2>1. ASSUME NEW i \in 1 .. N PROVE PathWeight(k, ways[i], aff) \in Nat
    BY <1>1, <1>4, PathWeightNat
  <2> QED
    BY <1>4, <2>1
<1> HIDE DEF w
<1>6. PICK o : Order(o, ways, w, N)
  BY <1>4, <1>5, SortedOrder
<1>7. /\ o \in [1 .. N -> 1 .. N] /\ (\A i \in 1 .. N : \E j \in 1 .. N : o[j] = i)
      /\ best = [j \in 1 .. N |-> ways[o[j]]]
      /\ \A i, j \in 1 .. N : i < j => w[o[i]] <= w[o[j]]
  BY <1>6 DEF Order
<1> HIDE DEF best
<1>8. best \in Seq(W)
  <2>1. \A j \in 1 .. N : ways[o[j]] \in W
    BY <1>4, <1>7
  <2> QED
    BY <1>4, <1>7, <2>1
<1>9. ASSUME NEW p \in W PROVE best # <<>> /\ PathWeight(k, best[1], aff) <= PathWeight(k, p, aff)
  <2>1. PICK i \in 1 .. N : ways[i] = p
    BY <1>3, <1>4
  <2>2. PICK j \in 1 .. N : o[j] = i
    BY <1>7
  <2>3. 1 \in 1 .. N /\ o[1] \in 1 .. N /\ best[1] = ways[o[1]]
    <3>1. 1 \in 1 .. N
      BY <1>4, <2>1
    <3> QED
      BY <1>7, <3>1
  <2>5. best # <<>>
    <3>1. 1 \in DOMAIN best
      BY <1>7, <2>3
    <3> QED
      BY <3>1
  <2>4. w[o[1]] <= w[o[j]]
    <3>1. j = 1 \/ 1 < j
      BY <1>4
    <3>2. w[o[1]] \in Int
      BY <1>5, <2>3
    <3>3. CASE j = 1
      BY <3>2, <3>3
    <3>4. CASE 1 < j
      BY <1>7, <2>3, <3>4
    <3> QED
      BY <3>1, <3>3, <3>4
  <2> QED
    BY <1>5, <2>1, <2>2, <2>3, <2>4, <2>5
<1> QED
  BY <1>1, <1>2, <1>8, <1>9 DEF W

-----------------------------------------------------------------------------
(* The searches.  What they return is drawn from the links of the network, *)
(* and a formatter's path: whoever rides on or alights has boarded, and    *)
(* each row starts at the stop where the one before it ends.               *)
AllNames == {Name[n] : n \in Master \cup Platform}
AllLines == {Line[n] : n \in Platform} \cup {Unknown}
AllRows  == {Row(k, l) : k \in Graph, l \in Links}

Drawn(s, t) == {rows \in Seq(AllRows) : Proper(rows, AllNames, AllLines, Name[s], Name[t])}

(* A part of a sequence has elements of it only.                           *)
LEMMA UptoIn ==
    ASSUME NEW W, NEW seq \in Seq(W), NEW n \in Nat
    PROVE  Upto(seq, n) \in Seq(W)
BY DEF Upto

(* So has what is left when paths too much alike are dropped.              *)
LEMMA DiverseIn ==
    ASSUME NEW W, NEW paths \in Seq(W), NEW always, NEW percent
    PROVE  Diverse(paths, always, percent) \in Seq(W)
<1> DEFINE Keep(acc, p) ==
               LET common == Elems(p) \cap UNION {Elems(acc[i]) : i \in DOMAIN acc} IN
               IF Len(acc) < always \/ 100 * Cardinality(common) <= percent * Len(p)
               THEN Append(acc, p) ELSE acc
           N == Len(paths)
           V == Seq(W)
           F == [q \in (1 .. N) \X V |-> Keep(q[2], paths[q[1]])]
           E(it) == it = [t \in SUBSET (1 .. N) |->
                            IF t = {} THEN <<>> ELSE Keep(it[t \ {Max(t)}], paths[Max(t)])]
           it == CHOOSE it : E(it)
<1>1. N \in Nat /\ DOMAIN paths = 1 .. N /\ \A i \in 1 .. N : paths[i] \in W
  OBVIOUS
<1>2. Diverse(paths, always, percent) = it[1 .. N]
  <2> HIDE DEF N
  <2> QED
    BY <1>1 DEF Diverse, FoldLeft, MapThenFoldSet
<1>3. \A acc \in V : \A p \in W : Keep(acc, p) = acc \/ Keep(acc, p) = Append(acc, p)
  OBVIOUS
<1> HIDE DEF Keep, N
<1>4. F \in [(1 .. N) \X V -> V] /\ <<>> \in V
  <2>1. ASSUME NEW acc \in V, NEW p \in W PROVE Keep(acc, p) \in V
    <3>1. acc \in V /\ Append(acc, p) \in V
      OBVIOUS
    <3> HIDE DEF V
    <3> QED
      BY <1>3, <3>1
  <2>2. <<>> \in V
    OBVIOUS
  <2> HIDE DEF V
  <2> QED
    BY <1>1, <2>1, <2>2
<1> HIDE DEF V
<1>5. \E f : E(f)
  <2>1. PICK f \in [SUBSET (1 .. N) -> V] : Folds(f, N, <<>>, F)
    <3> HIDE DEF E, F
    <3> QED
      BY <1>1, <1>4, FoldExists
  <2>2. ASSUME NEW t \in SUBSET (1 .. N), t # {}
        PROVE  F[<<Max(t), f[t \ {Max(t)}]>>] = Keep(f[t \ {Max(t)}], paths[Max(t)])
    <3>1. Max(t) \in 1 .. N /\ t \ {Max(t)} \in SUBSET (1 .. N)
      BY <1>1, <2>2, MaxOf
    <3>2. <<Max(t), f[t \ {Max(t)}]>> \in (1 .. N) \X V
      BY <2>1, <3>1
    <3> QED
      BY <3>2
  <2> HIDE DEF F
  <2>3. E(f)
    BY <2>1, <2>2 DEF Folds
  <2> HIDE DEF E
  <2> QED
    BY <2>3
<1>6. E(it)
  <2> HIDE DEF E
  <2> QED
    BY <1>5
<1>7. FoldsIn(it, N, V, <<>>, F)
  <2> HIDE DEF it
  <2>1. it[{}] = <<>>
    BY <1>6
  <2>2. ASSUME NEW t \in SUBSET (1 .. N), t # {}, it[t \ {Max(t)}] \in V
        PROVE  it[t] = F[<<Max(t), it[t \ {Max(t)}]>>]
    <3>1. Max(t) \in 1 .. N
      BY <1>1, <2>2, MaxOf
    <3>2. it[t] = Keep(it[t \ {Max(t)}], paths[Max(t)])
      BY <1>6, <2>2
    <3>3. <<Max(t), it[t \ {Max(t)}]>> \in (1 .. N) \X V
      BY <2>2, <3>1
    <3> QED
      BY <3>2, <3>3
  <2> HIDE DEF F
  <2> QED
    BY <2>1, <2>2 DEF FoldsIn
<1>8. PICK g \in [0 .. N -> V] : g[N] = it[1 .. N] /\ Climbs(g, N, <<>>, F)
  <2> HIDE DEF E, F, it
  <2> QED
    BY <1>1, <1>4, <1>7, FoldClimbs
<1> HIDE DEF it
<1>9. N \in 0 .. N
  BY <1>1
<1> QED
  BY <1>2, <1>8, <1>9 DEF V

(* The row of a link has the type that the formatter reads, and its nodes. *)
LEMMA RowTyped ==
    ASSUME NEW k \in Graph, NEW l \in Links
    PROVE  /\ IsRow(Row(k, l), AllNames, AllLines)
           /\ Row(k, l).rel = l.rel /\ Row(k, l).from_id = l.src /\ Row(k, l).to_id = l.dst
           /\ Row(k, l).from = Name[l.src] /\ Row(k, l).to = Name[l.dst]
           /\ l.rel = "BOARD" => Row(k, l).lines = {Line[l.dst]}
           /\ l.rel = "NEXT_STOP" => Line[l.src] \in Row(k, l).lines
<1> DEFINE row == Row(k, l)
           lines == CASE l.rel = "BOARD" -> {Line[l.dst]}
                      [] l.rel = "NEXT_STOP" ->
                            {Line[l.src]} \cup (IF k = 3 THEN {} ELSE Sharing(l))
                      [] OTHER -> {}
<1>1. row = [rel |-> l.rel, from |-> Name[l.src], to |-> Name[l.dst], from_id |-> l.src, to_id |-> l.dst,
             sec |-> l.sec, dist |-> l.dist, lines |-> lines]
  BY DEF Row
<1>2. /\ l.rel \in {"BOARD", "NEXT_STOP", "ALIGHT", "TRANSFER"} /\ l.sec \in Nat /\ l.dist \in Nat
      /\ l.src \in Master \cup Platform /\ l.dst \in Master \cup Platform
      /\ l.rel = "BOARD" => l.dst \in Platform
      /\ l.rel = "NEXT_STOP" => l.src \in Platform
  BY NetworkAssumption
<1>3. Sharing(l) \subseteq AllLines
  <2>1. ASSUME NEW m \in Links, m.rel = "NEXT_STOP" PROVE Line[m.src] \in AllLines
    <3>1. m.src \in Platform
      BY <2>1, NetworkAssumption
    <3> QED
      BY <3>1 DEF AllLines
  <2> QED
    BY <2>1 DEF Sharing
<1>4. lines \subseteq AllLines
  <2>1. \A n \in Platform : Line[n] \in AllLines
    BY DEF AllLines
  <2>2. CASE l.rel = "BOARD"
    BY <1>2, <2>1, <2>2
  <2>3. CASE l.rel = "NEXT_STOP"
    BY <1>2, <1>3, <2>1, <2>3
  <2>4. CASE l.rel \notin {"BOARD", "NEXT_STOP"}
    BY <2>4
  <2> QED
    BY <2>2, <2>3, <2>4
<1>7. /\ l.rel = "BOARD" => lines = {Line[l.dst]}
      /\ l.rel = "NEXT_STOP" => Line[l.src] \in lines
  OBVIOUS
<1> HIDE DEF lines
<1>5. Name[l.src] \in AllNames /\ Name[l.dst] \in AllNames
  BY <1>2 DEF AllNames
<1> HIDE DEF row
<1>6. /\ IsRow(row, AllNames, AllLines) /\ row.rel = l.rel /\ row.from_id = l.src /\ row.to_id = l.dst
      /\ row.from = Name[l.src] /\ row.to = Name[l.dst] /\ row.lines = lines
  BY <1>1, <1>2, <1>4, <1>5 DEF IsRow
<1> QED
  BY <1>6, <1>7 DEF row

(* Links that follow each other, and some of them after boarding.          *)
Chain(p, N) == \A i \in 1 .. N : p[i] \in Links /\ (i > 1 => p[i].src = p[i - 1].dst)
GoesOn(p, b, j) == p[b].rel = "BOARD" /\ \A i \in b + 1 .. j : p[i].rel \in {"NEXT_STOP", "ALIGHT"}

(* A walk that goes on from a platform stays on its line, until it alights *)
(* or boards again.                                                        *)
LEMMA WalkOneLine ==
    ASSUME NEW N \in Nat, NEW p, Chain(p, N), NEW b \in 1 .. N, NEW j \in b + 1 .. N,
           GoesOn(p, b, j), p[j].rel = "NEXT_STOP"
    PROVE  Line[p[j].src] = Line[p[b].dst]
<1> DEFINE T == {i \in 0 .. N : b <= i /\ i <= j /\ p[i].dst \in Platform => Line[p[i].dst] = Line[p[b].dst]}
<1>1. 0 \in T
  OBVIOUS
<1>2. ASSUME NEW i \in 1 .. N, i - 1 \in T PROVE i \in T
  <2> SUFFICES ASSUME b <= i, i <= j, p[i].dst \in Platform PROVE Line[p[i].dst] = Line[p[b].dst]
    OBVIOUS
  <2>1. CASE i = b
    BY <2>1
  <2>2. CASE i # b
    <3>1. /\ i \in b + 1 .. j /\ i > 1 /\ b <= i - 1 /\ i - 1 <= j
      BY <2>2
    <3>2. p[i] \in Links /\ p[i].rel \in {"NEXT_STOP", "ALIGHT"} /\ p[i].src = p[i - 1].dst
      BY <3>1 DEF Chain, GoesOn
    <3> DEFINE l == p[i]
    <3>3. l \in Links /\ l.rel \in {"NEXT_STOP", "ALIGHT"} /\ l.dst \in Platform
      BY <3>2
    <3> HIDE DEF l
    <3>4. l.rel = "NEXT_STOP" /\ l.src \in Platform
      BY <3>3, NetworkAssumption
    <3>5. Line[l.src] = Line[l.dst]
      BY <3>3, <3>4, LineAssumption
    <3>6. p[i - 1].dst \in Platform /\ Line[p[i - 1].dst] = Line[p[b].dst]
      BY <1>2, <3>1, <3>2, <3>4 DEF l
    <3> QED
      BY <3>2, <3>5, <3>6 DEF l
  <2> QED
    BY <2>1, <2>2
<1>3. j - 1 \in T
  <2>1. j - 1 \in 0 .. N
    OBVIOUS
  <2> HIDE DEF T
  <2>2. 0 .. N \subseteq T
    BY <1>1, <1>2, StepUp
  <2> QED
    BY <2>1, <2>2
<1>4. j \in 1 .. N /\ j > 1 /\ b <= j - 1 /\ j - 1 <= j
  OBVIOUS
<1>5. p[j] \in Links /\ p[j].src = p[j - 1].dst
  BY <1>4 DEF Chain
<1>6. p[j].src \in Platform
  BY <1>5, NetworkAssumption
<1> QED
  BY <1>3, <1>4, <1>5, <1>6

(* The rows of a walk from a stop to a stop are a path whose rides are     *)
(* boarded: only boarding leads from a stop to a platform, and only from a *)
(* platform is there a ride or an alighting.  A ride is on one line.       *)
LEMMA WalkDrawn ==
    ASSUME NEW k \in Graph, NEW s \in Master, NEW t \in Master, NEW p \in Walks(s), Last(p).dst = t
    PROVE  [j \in DOMAIN p |-> Row(k, p[j])] \in Drawn(s, t)
<1> DEFINE N == Len(p)
           rows == [j \in DOMAIN p |-> Row(k, p[j])]
<1>1. /\ N \in Nat /\ N > 0 /\ DOMAIN p = 1 .. N /\ (\A i \in 1 .. N : p[i] \in Links)
      /\ p[1].src = s /\ p[N].dst = t
      /\ \A i \in 1 .. N : i > 1 => p[i].src = p[i - 1].dst
  BY DEF Walks, Last
<1> HIDE DEF N
<1>2. DOMAIN rows = 1 .. N /\ \A i \in 1 .. N : rows[i] = Row(k, p[i])
  BY <1>1
<1>3. rows \in Seq(AllRows)
  <2>1. \A i \in 1 .. N : Row(k, p[i]) \in AllRows
    BY <1>1 DEF AllRows
  <2>2. rows = [i \in 1 .. N |-> Row(k, p[i])]
    BY <1>1
  <2> HIDE DEF rows
  <2> QED
    BY <1>1, <2>1, <2>2
<1> HIDE DEF rows
<1>4. \A i \in 1 .. N : /\ IsRow(rows[i], AllNames, AllLines) /\ rows[i].rel = p[i].rel
                        /\ rows[i].from = Name[p[i].src] /\ rows[i].to = Name[p[i].dst]
                        /\ p[i].rel = "BOARD" => rows[i].lines = {Line[p[i].dst]}
                        /\ p[i].rel = "NEXT_STOP" => Line[p[i].src] \in rows[i].lines
  <2>1. ASSUME NEW i \in 1 .. N
        PROVE  /\ IsRow(rows[i], AllNames, AllLines) /\ rows[i].rel = p[i].rel
               /\ rows[i].from = Name[p[i].src] /\ rows[i].to = Name[p[i].dst]
               /\ p[i].rel = "BOARD" => rows[i].lines = {Line[p[i].dst]}
               /\ p[i].rel = "NEXT_STOP" => Line[p[i].src] \in rows[i].lines
    <3>1. p[i] \in Links /\ rows[i] = Row(k, p[i])
      BY <1>1, <1>2
    <3> QED
      BY <3>1, RowTyped
  <2> QED
    BY <2>1
<1>5. IsPath(rows, N, AllNames, AllLines)
  BY <1>2, <1>4 DEF IsPath, AllLines
<1>6. Boarded(rows, N)
  <2> SUFFICES ASSUME NEW i \in 1 .. N, rows[i].rel \in {"NEXT_STOP", "ALIGHT"}
               PROVE  i > 1 /\ rows[i - 1].rel \in {"BOARD", "NEXT_STOP"}
    BY DEF Boarded
  <2>1. p[i] \in Links /\ p[i].src \in Platform
    <3>1. p[i] \in Links /\ p[i].rel \in {"NEXT_STOP", "ALIGHT"}
      BY <1>1, <1>4
    <3> QED
      BY <3>1, NetworkAssumption
  <2>2. i > 1 /\ i - 1 \in 1 .. N
    <3>1. i # 1
      BY <1>1, <2>1, NetworkAssumption
    <3> QED
      BY <1>1, <3>1
  <2>3. p[i - 1] \in Links /\ p[i - 1].dst \in Platform
    BY <1>1, <2>1, <2>2
  <2>4. p[i - 1].rel \in {"BOARD", "NEXT_STOP"}
    <3> DEFINE l == p[i - 1]
    <3>1. l \in Links /\ l.dst \in Platform
      BY <2>3
    <3> HIDE DEF l
    <3>2. l.rel \in {"BOARD", "NEXT_STOP"}
      BY <3>1, NetworkAssumption
    <3> QED
      BY <3>2 DEF l
  <2> QED
    BY <1>4, <2>2, <2>4
<1>7. Through(rows, N, Name[s], Name[t])
  <2>1. ASSUME NEW i \in 1 .. N
        PROVE  /\ rows[i].rel \in {"BOARD", "TRANSFER"} => p[i].src \in Master
               /\ p[i].dst \in Master => AtStop(rows[i])
    <3> DEFINE l == p[i]
    <3>1. l \in Links /\ rows[i].rel = l.rel
      BY <1>1, <1>4
    <3> HIDE DEF l
    <3>2. /\ l.rel \in {"BOARD", "TRANSFER"} => l.src \in Master
          /\ l.dst \in Master => l.rel \in {"ALIGHT", "TRANSFER"}
      BY <3>1, NetworkAssumption
    <3> QED
      BY <3>1, <3>2 DEF AtStop, l
  <2>2. 1 \in 1 .. N /\ N \in 1 .. N
    BY <1>1
  <2>3. ASSUME NEW i \in 1 .. N, i > 1, rows[i].rel \in {"BOARD", "TRANSFER"}
        PROVE  AtStop(rows[i - 1]) /\ rows[i].from = rows[i - 1].to
    <3>1. i - 1 \in 1 .. N /\ p[i].src = p[i - 1].dst
      BY <1>1, <2>3
    <3> QED
      BY <1>4, <2>1, <2>3, <3>1
  <2> QED
    BY <1>1, <1>4, <2>1, <2>2, <2>3 DEF Through
<1>10. OneLine(rows, N)
  <2> SUFFICES ASSUME NEW b \in Boards(rows, N), NEW j \in LinksRidden(rows, b, N)
               PROVE  rows[b].lines \subseteq rows[j].lines
    BY DEF OneLine
  <2>1. b \in 1 .. N /\ p[b].rel = "BOARD" /\ rows[b].lines = {Line[p[b].dst]}
    BY <1>4 DEF Boards
  <2>2. /\ j \in b + 1 .. N /\ j \in 1 .. N /\ p[j].rel = "NEXT_STOP"
        /\ Line[p[j].src] \in rows[j].lines
    BY <1>4, <2>1 DEF LinksRidden
  <2>3. \A i \in b + 1 .. j : p[i].rel \in {"NEXT_STOP", "ALIGHT"}
    <3> SUFFICES ASSUME NEW i \in b + 1 .. j PROVE p[i].rel \in {"NEXT_STOP", "ALIGHT"}
      OBVIOUS
    <3>1. i \in 1 .. N
      <4>1. b \in Int /\ b >= 1 /\ j \in Int /\ j <= N
        BY <1>1, <2>1, <2>2
      <4> QED
        BY <1>1, <4>1
    <3>2. rows[i].rel \notin {"BOARD", "TRANSFER"}
      BY DEF LinksRidden
    <3>3. /\ rows[i].rel = p[i].rel
          /\ rows[i].rel \in {"BOARD", "NEXT_STOP", "ALIGHT", "TRANSFER"}
      BY <1>4, <3>1 DEF IsRow
    <3> QED
      BY <3>2, <3>3
  <2>4. Line[p[j].src] = Line[p[b].dst]
    <3>1. Chain(p, N) /\ GoesOn(p, b, j)
      BY <1>1, <2>1, <2>3 DEF Chain, GoesOn
    <3>2. N \in Nat /\ b \in 1 .. N /\ j \in b + 1 .. N /\ p[j].rel = "NEXT_STOP"
      BY <1>1, <2>1, <2>2
    <3> QED
      BY <3>1, <3>2, WalkOneLine
  <2> QED
    BY <2>1, <2>2, <2>4
<1>11. Len(rows) = N
  BY <1>1, <1>2, <1>3
<1>8. Proper(rows, AllNames, AllLines, Name[s], Name[t])
  BY <1>1, <1>5, <1>6, <1>7, <1>10, <1>11 DEF Proper
<1>9. rows \in Drawn(s, t)
  BY <1>3, <1>8 DEF Drawn
<1> QED
  BY <1>9 DEF rows

(* So are the records of all paths of a search.                            *)
LEMMA RecordsDrawn ==
    ASSUME NEW k \in Graph, NEW s \in Master, NEW t \in Master, NEW paths \in Seq(Ways(k, s, t))
    PROVE  Records(k, paths) \in Seq(Drawn(s, t))
<1> DEFINE N == Len(paths)
           f == Records(k, paths)
<1>1. N \in Nat /\ DOMAIN paths = 1 .. N /\ \A i \in 1 .. N : paths[i] \in Ways(k, s, t)
  OBVIOUS
<1> HIDE DEF N
<1>2. f = [i \in 1 .. N |-> [j \in DOMAIN paths[i] |-> Row(k, paths[i][j])]]
  BY <1>1 DEF Records
<1>3. ASSUME NEW i \in 1 .. N PROVE f[i] \in Drawn(s, t)
  <2>1. paths[i] \in Walks(s) /\ Last(paths[i]).dst = t
    <3>1. Ways(k, s, t) \subseteq Walks(s)
      BY ShortestWays
    <3> QED
      BY <1>1, <3>1 DEF Ways
  <2>2. [j \in DOMAIN paths[i] |-> Row(k, paths[i][j])] \in Drawn(s, t)
    BY <2>1, WalkDrawn
  <2> HIDE DEF f
  <2> QED
    BY <1>2, <2>2
<1>4. DOMAIN f = 1 .. N
  BY <1>2
<1>5. f = [i \in 1 .. N |-> f[i]]
  BY <1>2
<1> HIDE DEF f
<1>6. f \in Seq(Drawn(s, t))
  BY <1>1, <1>3, <1>5
<1> QED
  BY <1>6 DEF f

(* Whatever its network and whatever is affected, a search returns paths   *)
(* whose rides are boarded.                                                *)
LEMMA SearchDrawn ==
    ASSUME NEW k \in Graph, NEW s \in Master, NEW t \in Master, NEW aff
    PROVE  Search(k, s, t, aff) \in Seq(Drawn(s, t))
<1> DEFINE best == Shortest(k, s, t, aff)
<1>1. best \in Seq(Ways(k, s, t))
  BY ShortestWays
<1> HIDE DEF best
<1>2. CASE k = 1
  <2> DEFINE one == IF best # <<>> /\ Head(best[1]).rel = "BOARD" THEN <<best[1]>> ELSE <<>>
  <2>1. one \in Seq(Ways(k, s, t))
    <3>1. CASE best # <<>>
      <4>1. best[1] \in Ways(k, s, t)
        BY <1>1, <3>1
      <4> QED
        BY <4>1
    <3>2. CASE best = <<>>
      BY <3>2
    <3> QED
      BY <3>1, <3>2
  <2>2. Search(k, s, t, aff) = Records(1, one)
    BY <1>2 DEF Search, best
  <2> HIDE DEF one
  <2> QED
    BY <1>2, <2>1, <2>2, RecordsDrawn
<1>3. CASE k # 1
  <2> DEFINE some == IF k = 2 THEN Diverse(Upto(best, 15), 3, 85) ELSE Diverse(Upto(best, 15), 1, 80)
  <2>1. some \in Seq(Ways(k, s, t))
    <3>1. Upto(best, 15) \in Seq(Ways(k, s, t))
      BY <1>1, UptoIn
    <3> QED
      BY <3>1, DiverseIn
  <2>2. Search(k, s, t, aff) = Records(k, some)
    BY <1>3 DEF Search, Graph, best
  <2> HIDE DEF some
  <2> QED
    BY <2>1, <2>2, RecordsDrawn
<1> QED
  BY <1>2, <1>3

-----------------------------------------------------------------------------
(* The first search.  What incidents add to the weight of a link.          *)
Extra(l, aff) == IF l.rel # "TRANSFER" /\ Touches(l, aff) THEN Penalty ELSE 0

(* A link between nodes that are not affected weighs what it always does.  *)
LEMMA WeightExtra ==
    ASSUME NEW k \in Graph, NEW l \in Links, NEW aff
    PROVE  /\ Extra(l, aff) \in Nat /\ Penalty \in Nat /\ Weight(k, l, {}) \in Nat
           /\ Weight(k, l, aff) = Weight(k, l, {}) + Extra(l, aff)
           /\ l.src \notin aff /\ l.dst \notin aff => Extra(l, aff) = 0
<1>1. Penalty \in Nat /\ Extra(l, aff) \in {0, Penalty}
  BY DEF Penalty, Extra
<1>2. Weight(k, l, {}) \in Nat
  BY WeightNat
<1>3. ~Touches(l, {})
  BY DEF Touches
<1>4. l.src \notin aff /\ l.dst \notin aff => Extra(l, aff) = 0
  BY DEF Extra, Touches
<1>5. CASE l.rel = "TRANSFER"
  BY <1>1, <1>2, <1>4, <1>5 DEF Weight, Extra
<1>6. CASE l.rel # "TRANSFER"
  <2>1. Weight(k, l, {}) = RideWeight(k, l) + 0 /\ Weight(k, l, aff) = RideWeight(k, l) + Extra(l, aff)
    BY <1>3, <1>6 DEF Weight, Extra
  <2>2. RideWeight(k, l) \in Nat
    <3>1. l.sec \in Nat
      BY NetworkAssumption
    <3> QED
      BY <3>1 DEF RideWeight, Graph
  <2> QED
    BY <1>1, <1>2, <1>4, <2>1, <2>2
<1> QED
  BY <1>5, <1>6

(* A path clear of what is affected weighs as much as without incidents.   *)
LEMMA ClearWeighsAlike ==
    ASSUME NEW k \in Graph, NEW s, NEW p \in Walks(s), NEW aff \in SUBSET Platform, Nodes(p) \cap aff = {}
    PROVE  PathWeight(k, p, aff) = PathWeight(k, p, {})
<1> DEFINE N == Len(p)
<1>1. N \in Nat /\ DOMAIN p = 1 .. N /\ \A i \in 1 .. N : p[i] \in Links
  BY DEF Walks
<1> HIDE DEF N
<1>2. PICK g : g \in [0 .. N -> Nat] /\ g[N] = PathWeight(k, p, aff) /\ Sums(g, N, WeightsOf(k, p, aff, N))
  BY <1>1, WeightSums
<1>3. PICK h : h \in [0 .. N -> Nat] /\ h[N] = PathWeight(k, p, {}) /\ Sums(h, N, WeightsOf(k, p, {}, N))
  BY <1>1, WeightSums
<1>4. ASSUME NEW i \in 1 .. N PROVE Weight(k, p[i], aff) = Weight(k, p[i], {})
  <2>1. p[i] \in Links /\ p[i].src \notin aff /\ p[i].dst \notin aff
    BY <1>1 DEF Nodes
  <2> QED
    BY <2>1, WeightExtra
<1>5. SumBoth(g, h, N, WeightsOf(k, p, aff, N), WeightsOf(k, p, {}, N))
  <2>1. Agree(WeightsOf(k, p, aff, N), WeightsOf(k, p, {}, N), N)
    BY <1>4 DEF Agree, WeightsOf
  <2> QED
    BY <1>2, <1>3, <2>1 DEF SumBoth
<1>6. g[N] = h[N]
  BY <1>1, <1>5, SameSums
<1> QED
  BY <1>2, <1>3, <1>6

(* A path from stop to stop that meets an affected platform pays for it    *)
(* twice: it has to get there, and to get on.                              *)
LEMMA PaysTwice ==
    ASSUME NEW s \in Master, NEW t \in Master, NEW p \in Walks(s), Last(p).dst = t,
           NEW aff \in SUBSET Platform,
           NEW i \in DOMAIN p, p[i].src \in aff \/ p[i].dst \in aff
    PROVE  \E a \in DOMAIN p : \E b \in DOMAIN p :
              a < b /\ Extra(p[a], aff) = Penalty /\ Extra(p[b], aff) = Penalty
<1> DEFINE N == Len(p)
<1>1. /\ N \in Nat /\ DOMAIN p = 1 .. N /\ (\A j \in 1 .. N : p[j] \in Links)
      /\ p[1].src = s /\ p[N].dst = t
      /\ \A j \in 1 .. N : j > 1 => p[j].src = p[j - 1].dst
  BY DEF Walks, Last
<1> HIDE DEF N
<1>2. PICK a \in 1 .. N : p[a].dst \in aff
  <2>1. CASE p[i].dst \in aff
    BY <1>1, <2>1
  <2>2. CASE p[i].src \in aff
    <3>1. i # 1
      BY <1>1, <2>2, NetworkAssumption
    <3>2. i \in 1 .. N /\ i - 1 \in 1 .. N /\ i > 1
      BY <1>1, <3>1
    <3>3. p[i - 1].dst \in aff
      BY <1>1, <2>2, <3>2
    <3> QED
      BY <3>2, <3>3
  <2> QED
    BY <2>1, <2>2
<1>3. a # N
  BY <1>1, <1>2, NetworkAssumption
<1>4. a + 1 \in 1 .. N /\ a + 1 > 1 /\ a + 1 - 1 = a /\ a < a + 1
  BY <1>1, <1>3
<1> DEFINE l == p[a]
           m == p[a + 1]
<1>5. l \in Links /\ m \in Links /\ l.dst \in aff /\ m.src \in aff
  BY <1>1, <1>2, <1>4
<1> HIDE DEF l, m
<1>6. l.rel # "TRANSFER" /\ m.rel # "TRANSFER" /\ m.rel # "BOARD"
  BY <1>5, NetworkAssumption
<1>7. Extra(l, aff) = Penalty /\ Extra(m, aff) = Penalty
  BY <1>5, <1>6 DEF Extra, Touches
<1> QED
  BY <1>1, <1>4, <1>7 DEF l, m

(* Two links that pay make the whole path heavier by two penalties.        *)
LEMMA TwoPenalties ==
    ASSUME NEW k \in Graph, NEW s, NEW p \in Walks(s), NEW aff,
           NEW a \in DOMAIN p, NEW b \in DOMAIN p, a < b,
           Extra(p[a], aff) = Penalty, Extra(p[b], aff) = Penalty
    PROVE  PathWeight(k, p, aff) >= PathWeight(k, p, {}) + 2 * Penalty
<1> DEFINE N == Len(p)
<1>1. N \in Nat /\ DOMAIN p = 1 .. N /\ \A i \in 1 .. N : p[i] \in Links
  BY DEF Walks
<1> HIDE DEF N
<1>2. PICK g : g \in [0 .. N -> Nat] /\ g[N] = PathWeight(k, p, aff) /\ Sums(g, N, WeightsOf(k, p, aff, N))
  BY <1>1, WeightSums
<1>3. PICK h : h \in [0 .. N -> Nat] /\ h[N] = PathWeight(k, p, {}) /\ Sums(h, N, WeightsOf(k, p, {}, N))
  BY <1>1, WeightSums
<1>4. a \in 1 .. N /\ b \in 1 .. N /\ Penalty \in Nat
  BY <1>1 DEF Penalty
<1> DEFINE more(n) == IF n < a THEN 0 ELSE IF n < b THEN Penalty ELSE 2 * Penalty
           T == {n \in 0 .. N : g[n] >= h[n] + more(n)}
<1>5. 0 \in T
  BY <1>1, <1>2, <1>3, <1>4 DEF Sums
<1>6. ASSUME NEW i \in 1 .. N, i - 1 \in T PROVE i \in T
  <2> DEFINE w == Weight(k, p[i], {})
             x == Extra(p[i], aff)
  <2>1. w \in Nat /\ x \in Nat /\ Weight(k, p[i], aff) = w + x
    BY <1>1, WeightExtra
  <2>2. g[i] = g[i - 1] + (w + x) /\ h[i] = h[i - 1] + w
    BY <1>2, <1>3, <2>1 DEF Sums, WeightsOf
  <2>3. i - 1 \in 0 .. N /\ i \in 0 .. N /\ g[i - 1] >= h[i - 1] + more(i - 1)
    BY <1>6
  <2>4. x = Penalty \/ (i # a /\ i # b)
    OBVIOUS
  <2> HIDE DEF w, x
  <2>5. more(i) \in Nat /\ more(i - 1) \in Nat /\ more(i) <= more(i - 1) + x
    <3>1. CASE i = a
      BY <1>4, <2>1, <2>4, <3>1
    <3>2. CASE i = b
      BY <1>4, <2>1, <2>4, <3>2
    <3>3. CASE i # a /\ i # b
      BY <1>4, <2>1, <3>3
    <3> QED
      BY <3>1, <3>2, <3>3
  <2>6. g[i - 1] \in Nat /\ h[i - 1] \in Nat
    BY <1>2, <1>3, <2>3
  <2> HIDE DEF more
  <2>7. g[i] >= h[i] + more(i)
    BY <2>1, <2>2, <2>3, <2>5, <2>6
  <2> QED
    BY <2>3, <2>7
<1>7. N \in T
  <2>1. 0 .. N \subseteq T
    <3> HIDE DEF T
    <3> QED
      BY <1>1, <1>5, <1>6, StepUp
  <2> QED
    BY <1>1, <2>1
<1>8. more(N) = 2 * Penalty
  BY <1>1, <1>4
<1> HIDE DEF more
<1> QED
  BY <1>2, <1>3, <1>7, <1>8

(* Its path keeps clear of what is affected, or every way that does weighs *)
(* two hours more than this one does without incidents, or longer.         *)
Clear(rows, aff) == \A j \in DOMAIN rows : rows[j].from_id \notin aff /\ rows[j].to_id \notin aff

WorthIt(p, s, t, aff) ==
    \A q \in AllPaths[1][s] :
        Last(q).dst = t /\ Nodes(q) \cap aff = {} =>
            PathWeight(1, q, {}) >= PathWeight(1, p, {}) + 2 * Penalty

(* What the first search returns are the rows of a walk that is clear, or  *)
(* worth its incidents.                                                    *)
LEMMA FirstSearchClear ==
    ASSUME NEW s \in Master, NEW t \in Master, NEW aff \in SUBSET Platform,
           NEW i \in DOMAIN Search(1, s, t, aff)
    PROVE  \E p \in Walks(s) :
              /\ Search(1, s, t, aff)[i] = [j \in DOMAIN p |-> Row(1, p[j])]
              /\ Clear(Search(1, s, t, aff)[i], aff) \/ WorthIt(p, s, t, aff)
<1> DEFINE best == Shortest(1, s, t, aff)
           W == Ways(1, s, t)
           first == Search(1, s, t, aff)
           taken == best[1]
<1>1. 1 \in Graph
  BY DEF Graph
<1>2. best \in Seq(W) /\ W \subseteq Walks(s)
  BY <1>1, ShortestWays
<1>3. \A q \in W : PathWeight(1, taken, aff) <= PathWeight(1, q, aff)
  BY <1>1, ShortestWays
<1>4. best # <<>> /\ first[i] = [j \in DOMAIN taken |-> Row(1, taken[j])]
  <2> DEFINE one == IF best # <<>> /\ Head(best[1]).rel = "BOARD" THEN <<best[1]>> ELSE <<>>
  <2>1. first = Records(1, one)
    BY DEF Search
  <2>2. CASE best # <<>> /\ one = <<best[1]>>
    <3>1. first = [m \in {1} |-> [j \in DOMAIN taken |-> Row(1, taken[j])]]
      BY <2>1, <2>2 DEF Records
    <3>2. i \in DOMAIN first
      OBVIOUS
    <3> HIDE DEF first, best
    <3> QED
      BY <2>2, <3>1, <3>2
  <2>3. CASE one = <<>>
    <3>1. DOMAIN first = {}
      BY <2>1, <2>3 DEF Records
    <3>2. i \in DOMAIN first
      OBVIOUS
    <3> HIDE DEF first, best, one
    <3> QED
      BY <3>1, <3>2
  <2>4. (best # <<>> /\ one = <<best[1]>>) \/ one = <<>>
    OBVIOUS
  <2> QED
    BY <2>2, <2>3, <2>4
<1>5. taken \in W
  <2> HIDE DEF W, best
  <2> QED
    BY <1>2, <1>4
<1>6. taken \in Walks(s) /\ Last(taken).dst = t
  <2>1. Last(taken).dst = t
    BY <1>5 DEF Ways
  <2> HIDE DEF W, taken
  <2> QED
    BY <1>2, <1>5, <2>1
<1> HIDE DEF best, first, taken
<1>7. Clear(first[i], aff) \/ WorthIt(taken, s, t, aff)
  <2>1. CASE \A j \in DOMAIN taken : taken[j].src \notin aff /\ taken[j].dst \notin aff
    <3>1. ASSUME NEW j \in DOMAIN taken
          PROVE  Row(1, taken[j]).from_id \notin aff /\ Row(1, taken[j]).to_id \notin aff
      <4>1. taken[j] \in Links
        BY <1>6 DEF Walks
      <4> QED
        BY <1>1, <2>1, <4>1, RowTyped
    <3> QED
      BY <1>4, <3>1 DEF Clear
  <2>2. CASE \E j \in DOMAIN taken : taken[j].src \in aff \/ taken[j].dst \in aff
    <3>1. PathWeight(1, taken, aff) >= PathWeight(1, taken, {}) + 2 * Penalty
      BY <1>1, <1>6, <2>2, PaysTwice, TwoPenalties
    <3>2. ASSUME NEW q \in W, Nodes(q) \cap aff = {}
          PROVE  PathWeight(1, q, {}) >= PathWeight(1, taken, {}) + 2 * Penalty
      <4>1. q \in Walks(s)
        BY <1>2
      <4>2. PathWeight(1, q, aff) = PathWeight(1, q, {})
        BY <1>1, <3>2, <4>1, ClearWeighsAlike
      <4>3. PathWeight(1, taken, aff) <= PathWeight(1, q, aff)
        BY <1>3
      <4>4. /\ PathWeight(1, taken, aff) \in Nat /\ PathWeight(1, taken, {}) \in Nat
            /\ PathWeight(1, q, {}) \in Nat /\ Penalty \in Nat
        BY <1>1, <1>6, <4>1, PathWeightNat DEF Penalty
      <4> QED
        BY <3>1, <4>2, <4>3, <4>4
    <3> QED
      BY <3>2 DEF WorthIt, Ways
  <2> QED
    BY <2>1, <2>2
<1> QED
  BY <1>4, <1>6, <1>7 DEF first
=============================================================================
