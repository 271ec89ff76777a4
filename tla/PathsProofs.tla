---------------------------- MODULE PathsProofs ----------------------------
(***************************************************************************)
(* What TransportApp shows of a path is as long as the path: for every     *)
(* sequence of rows in which a ride is boarded before it goes on, neither  *)
(* the compression into segments nor the merging of walks loses a minute,  *)
(* or a metre ridden, or counts one twice.  So the fare is that of the     *)
(* metres ridden.  It leads where the path leads and shows its rides.      *)
(*                                                                         *)
(* The passes are folds, so the proofs are by induction over the rows.     *)
(* What it offers comes quickest first, and no two routes are alike.       *)
(***************************************************************************)
EXTENDS Paths, FoldProofs

(* A sum is the last of the partial sums.                                  *)
LEMMA SumSums ==
    ASSUME NEW N \in Nat, NEW w \in [1 .. N -> Nat]
    PROVE  \E g \in [0 .. N -> Nat] : g[N] = Sum(w) /\ Sums(g, N, w)
<1> DEFINE it == CHOOSE it : Adds(it, N, w)
<1>1. Sum(w) = it[1 .. N]
  BY DEF Sum, FoldLeft, MapThenFoldSet, Adds
<1>2. Adds(it, N, w)
  BY AddsExists
<1> HIDE DEF it
<1>3. \E g \in [0 .. N -> Nat] : g[N] = it[1 .. N] /\ Sums(g, N, w)
  BY <1>2, AddsSums
<1> QED
  BY <1>1, <1>3

(* No numbers add up to nothing.                                           *)
LEMMA SumNone == ASSUME NEW w \in [1 .. 0 -> Nat] PROVE Sum(w) = 0
<1>1. 0 \in Nat
  OBVIOUS
<1>2. \E g \in [0 .. 0 -> Nat] : g[0] = Sum(w) /\ Sums(g, 0, w)
  BY <1>1, SumSums
<1> QED
  BY <1>2 DEF Sums

(* One more number is added to the sum.                                    *)
LEMMA SumMore ==
    ASSUME NEW N \in Nat, NEW w \in [1 .. N -> Nat], NEW v \in [1 .. N + 1 -> Nat], Agree(w, v, N)
    PROVE  Sum(w) \in Nat /\ Sum(v) = Sum(w) + v[N + 1]
<1> DEFINE M == N + 1
<1>1. M \in Nat /\ N \in 0 .. N /\ M \in 1 .. M /\ M - 1 = N /\ \A i \in 1 .. N : i \in 1 .. M
  OBVIOUS
<1>2. v \in [1 .. M -> Nat]
  OBVIOUS
<1> HIDE DEF M
<1>3. PICK g : g \in [0 .. N -> Nat] /\ g[N] = Sum(w) /\ Sums(g, N, w)
  BY SumSums
<1>4. PICK h : h \in [0 .. M -> Nat] /\ h[M] = Sum(v) /\ Sums(h, M, v)
  BY <1>1, <1>2, SumSums
<1>5. SumBoth(g, h, N, w, v)
  BY <1>1, <1>3, <1>4 DEF SumBoth, Sums
<1>6. g[N] = h[N]
  BY <1>5, SameSums
<1>7. h[M] = h[N] + v[M]
  BY <1>1, <1>4 DEF Sums
<1> QED
  BY <1>1, <1>3, <1>4, <1>6, <1>7 DEF M

(* What is kept of segments and of rows: their tenths of minutes, and the  *)
(* metres ridden.                                                          *)
Measures == {"minutes", "metres"}

OfSeg(m, seg) == IF m = "minutes" THEN seg.tenths ELSE IF seg.type = "TRANSIT" THEN seg.dist ELSE 0
OfRow(m, row) == IF m = "minutes" THEN Tenths(row.sec) ELSE IF row.rel = "NEXT_STOP" THEN row.dist ELSE 0

Measure(m, segs) == Sum([i \in DOMAIN segs |-> OfSeg(m, segs[i])])
Length(m, rows)  == Sum([i \in DOMAIN rows |-> OfRow(m, rows[i])])

-----------------------------------------------------------------------------
(* What the passes go through.                                             *)
SegsOver(Names, Lines) ==
    [type : {"TRANSIT", "TRANSFER"}, lines : SUBSET Lines, tenths : Nat, dist : Nat, stops : Nat,
     stations : Seq(Names) \ {<<>>}]

RidesOver(Names, Lines) == {seg \in SegsOver(Names, Lines) : seg.type = "TRANSIT"}

AccsOver(Names, Lines) ==
    [segs : Seq(SegsOver(Names, Lines)), cur : RidesOver(Names, Lines) \cup {NoRide},
     active : SUBSET Lines, first : BOOLEAN]

IsRow(row, Names, Lines) ==
    /\ row.rel \in {"BOARD", "NEXT_STOP", "ALIGHT", "TRANSFER"}
    /\ row.from \in Names /\ row.to \in Names /\ row.lines \subseteq Lines
    /\ row.sec \in Nat /\ row.dist \in Nat

IsPath(rows, N, Names, Lines) ==
    DOMAIN rows = 1 .. N /\ Unknown \in Lines /\ \A i \in 1 .. N : IsRow(rows[i], Names, Lines)

(* What is kept of a segment or a row is a natural number.                 *)
LEMMA OfNat ==
    ASSUME NEW Names, NEW Lines, NEW m
    PROVE  /\ \A seg \in SegsOver(Names, Lines) : OfSeg(m, seg) \in Nat
           /\ \A row : IsRow(row, Names, Lines) => OfRow(m, row) \in Nat
BY DEF OfSeg, OfRow, SegsOver, IsRow, Tenths

(* No segments have no length.                                             *)
LEMMA MeasureNone == ASSUME NEW m PROVE Measure(m, <<>>) = 0
<1> DEFINE none == <<>>
           w == [i \in DOMAIN none |-> OfSeg(m, none[i])]
<1>1. w \in [1 .. 0 -> Nat] /\ Measure(m, none) = Sum(w)
  BY DEF Measure
<1> HIDE DEF w
<1> QED
  BY <1>1, SumNone

(* One more segment adds to the length.                                    *)
LEMMA MeasureAppend ==
    ASSUME NEW m, NEW Segs, \A x \in Segs : OfSeg(m, x) \in Nat, NEW segs \in Seq(Segs), NEW seg \in Segs
    PROVE  /\ Measure(m, segs) \in Nat
           /\ Measure(m, Append(segs, seg)) = Measure(m, segs) + OfSeg(m, seg)
<1> DEFINE N == Len(segs)
           M == N + 1
           more == Append(segs, seg)
           w == [i \in DOMAIN segs |-> OfSeg(m, segs[i])]
           v == [i \in DOMAIN more |-> OfSeg(m, more[i])]
<1>1. /\ N \in Nat /\ DOMAIN segs = 1 .. N /\ \A i \in 1 .. N : segs[i] \in Segs
      /\ DOMAIN more = 1 .. M /\ more[M] = seg /\ \A i \in 1 .. N : more[i] = segs[i]
  OBVIOUS
<1>2. M = N + 1 /\ M \in 1 .. M /\ (\A i \in 1 .. N : i \in 1 .. M) /\ \A i \in 1 .. M : i \in 1 .. N \/ i = M
  BY <1>1
<1>3. Measure(m, segs) = Sum(w) /\ Measure(m, more) = Sum(v)
  BY DEF Measure
<1> HIDE DEF N, M, more
<1>4. w \in [1 .. N -> Nat] /\ v \in [1 .. M -> Nat] /\ v[M] = OfSeg(m, seg) /\ Agree(w, v, N)
  <2>1. \A i \in 1 .. M : more[i] \in Segs
    BY <1>1, <1>2
  <2> QED
    BY <1>1, <1>2, <2>1 DEF Agree
<1> HIDE DEF w, v
<1>5. Sum(w) \in Nat /\ Sum(v) = Sum(w) + v[N + 1]
  <2>1. v \in [1 .. N + 1 -> Nat]
    BY <1>2, <1>4
  <2> QED
    BY <1>1, <1>4, <2>1, SumMore
<1> QED
  BY <1>2, <1>3, <1>4, <1>5 DEF more

(* A length is a natural number.                                           *)
LEMMA MeasureNat ==
    ASSUME NEW m, NEW Segs, \A x \in Segs : OfSeg(m, x) \in Nat, NEW segs \in Seq(Segs)
    PROVE  Measure(m, segs) \in Nat
<1> DEFINE N == Len(segs)
           w == [i \in DOMAIN segs |-> OfSeg(m, segs[i])]
<1>1. N \in Nat /\ N \in 0 .. N /\ w \in [1 .. N -> Nat] /\ Measure(m, segs) = Sum(w)
  BY DEF Measure
<1> HIDE DEF N, w
<1>2. \E g \in [0 .. N -> Nat] : g[N] = Sum(w) /\ Sums(g, N, w)
  BY <1>1, SumSums
<1> QED
  BY <1>1, <1>2

(* Closing the ride in progress gives segments.                            *)
LEMMA ClosedTyped ==
    ASSUME NEW Names, NEW Lines, NEW acc \in AccsOver(Names, Lines)
    PROVE  Closed(acc) \in Seq(SegsOver(Names, Lines))
<1>1. CASE acc.cur = NoRide
  BY <1>1 DEF AccsOver, Closed
<1>2. CASE acc.cur # NoRide
  <2>1. acc.cur \in SegsOver(Names, Lines) /\ acc.active \in SUBSET Lines
    BY <1>2 DEF AccsOver, RidesOver
  <2>2. [acc.cur EXCEPT !.lines = acc.active] \in SegsOver(Names, Lines)
    BY <2>1 DEF SegsOver
  <2>3. acc.segs \in Seq(SegsOver(Names, Lines))
    BY DEF AccsOver
  <2> QED
    BY <1>2, <2>2, <2>3 DEF Closed
<1> QED
  BY <1>1, <1>2

(* A new segment has the type of one.                                      *)
LEMMA SegTyped ==
    ASSUME NEW Names, NEW Lines, NEW type \in {"TRANSIT", "TRANSFER"}, NEW row, row.sec \in Nat,
           NEW stops \in Seq(Names) \ {<<>>}
    PROVE  Seg(type, row, stops) \in SegsOver(Names, Lines) /\ Seg(type, row, stops).type = type
BY DEF Seg, SegsOver, Tenths

(* Reading a row keeps the type of the pass (rerouting.py 620-685).        *)
LEMMA ReadTyped ==
    ASSUME NEW Names, NEW Lines, Unknown \in Lines, NEW acc \in AccsOver(Names, Lines),
           NEW row, IsRow(row, Names, Lines)
    PROVE  Read(acc, row) \in AccsOver(Names, Lines)
<1>1. CASE row.rel = "BOARD"
  <2>1. Seg("TRANSIT", row, <<row.from>>) \in RidesOver(Names, Lines)
    <3>1. <<row.from>> \in Seq(Names) \ {<<>>} /\ row.sec \in Nat
      BY DEF IsRow
    <3>2. "TRANSIT" \in {"TRANSIT", "TRANSFER"}
      OBVIOUS
    <3> QED
      BY <3>1, <3>2, SegTyped DEF RidesOver
  <2>2. Closed(acc) \in Seq(SegsOver(Names, Lines))
    BY ClosedTyped
  <2> QED
    BY <1>1, <2>1, <2>2 DEF Read, Board, AccsOver, IsRow
<1>2. CASE row.rel = "TRANSFER"
  <2>1. Seg("TRANSFER", row, <<row.from, row.to>>) \in SegsOver(Names, Lines)
    <3>1. <<row.from, row.to>> \in Seq(Names) \ {<<>>} /\ row.sec \in Nat
      BY DEF IsRow
    <3>2. "TRANSFER" \in {"TRANSIT", "TRANSFER"}
      OBVIOUS
    <3> QED
      BY <3>1, <3>2, SegTyped
  <2>2. [Seg("TRANSFER", row, <<row.from, row.to>>) EXCEPT !.dist = row.dist] \in SegsOver(Names, Lines)
    BY <2>1 DEF SegsOver, IsRow
  <2>3. Closed(acc) \in Seq(SegsOver(Names, Lines))
    BY ClosedTyped
  <2> DEFINE walk == [Seg("TRANSFER", row, <<row.from, row.to>>) EXCEPT !.dist = row.dist]
  <2>4. Read(acc, row) = [Start EXCEPT !.segs = Append(Closed(acc), walk)]
    BY <1>2 DEF Read, Walk
  <2> HIDE DEF walk
  <2>5. Append(Closed(acc), walk) \in Seq(SegsOver(Names, Lines))
    BY <2>2, <2>3 DEF walk
  <2> QED
    BY <2>4, <2>5 DEF Start, AccsOver
<1>3. CASE row.rel \in {"NEXT_STOP", "ALIGHT"} /\ acc.cur # NoRide
  <2>1. acc.cur \in SegsOver(Names, Lines) /\ acc.cur.type = "TRANSIT"
    BY <1>3 DEF AccsOver, RidesOver
  <2> DEFINE cur == acc.cur
             stops == Visit(cur.stations, row.to)
             tenths == cur.tenths + Tenths(row.sec)
             dist == cur.dist + row.dist
             links == cur.stops + 1
  <2>2. stops \in Seq(Names) \ {<<>>}
    BY <2>1 DEF SegsOver, Visit, IsRow
  <2>3. tenths \in Nat /\ dist \in Nat /\ links \in Nat
    <3>1. cur.tenths \in Nat /\ cur.dist \in Nat /\ cur.stops \in Nat
      BY <2>1 DEF SegsOver
    <3>2. Tenths(row.sec) \in Nat /\ row.dist \in Nat
      BY DEF IsRow, Tenths
    <3> HIDE DEF cur
    <3> QED
      BY <3>1, <3>2
  <2>4. CASE row.rel = "NEXT_STOP"
    <3> DEFINE kept == IF row.lines \ FakeIds = {} THEN acc.active
                       ELSE IF acc.first THEN row.lines \ FakeIds ELSE acc.active \cap (row.lines \ FakeIds)
    <3>1. Read(acc, row) = [acc EXCEPT !.cur.tenths = tenths, !.cur.dist = dist, !.cur.stops = links,
                                       !.cur.stations = stops, !.active = kept, !.first = FALSE]
      BY <1>3, <2>4 DEF Read, Ride, AccsOver
    <3>2. kept \subseteq Lines
      BY DEF AccsOver, IsRow
    <3> HIDE DEF kept, stops, tenths, dist, links
    <3> DEFINE ride == [cur EXCEPT !.tenths = tenths, !.dist = dist, !.stops = links, !.stations = stops]
    <3>3. ride \in RidesOver(Names, Lines)
      BY <2>1, <2>2, <2>3 DEF SegsOver, RidesOver
    <3>4. Read(acc, row) = [acc EXCEPT !.cur = ride, !.active = kept, !.first = FALSE]
      BY <2>1, <3>1 DEF AccsOver
    <3> HIDE DEF ride
    <3> QED
      BY <3>2, <3>3, <3>4 DEF AccsOver
  <2>5. CASE row.rel = "ALIGHT"
    <3>1. Read(acc, row) = [acc EXCEPT !.cur.tenths = tenths, !.cur.stations = stops]
      BY <1>3, <2>5 DEF Read, Alight, AccsOver
    <3> HIDE DEF stops, tenths
    <3>3. [cur EXCEPT !.tenths = tenths, !.stations = stops] \in RidesOver(Names, Lines)
      BY <2>1, <2>2, <2>3 DEF SegsOver, RidesOver
    <3> QED
      BY <2>1, <3>1, <3>3 DEF AccsOver
  <2> QED
    BY <1>3, <2>4, <2>5
<1>4. CASE row.rel \in {"NEXT_STOP", "ALIGHT"} /\ acc.cur = NoRide
  BY <1>4 DEF Read
<1> QED
  BY <1>1, <1>2, <1>3, <1>4 DEF IsRow

(* The pass starts in its type.                                            *)
LEMMA StartTyped ==
    ASSUME NEW Names, NEW Lines
    PROVE  Start \in AccsOver(Names, Lines)
BY DEF Start, AccsOver

(* The states of the first pass, one after each row.                       *)
Reads(g, rows, N, Names, Lines) ==
    /\ g \in [0 .. N -> AccsOver(Names, Lines)]
    /\ g[0] = Start /\ \A i \in 1 .. N : g[i] = Read(g[i - 1], rows[i])
    /\ Compress(rows) = Closed(g[N])

(* The first pass goes through a state after each row.                     *)
LEMMA CompressReads ==
    ASSUME NEW Names, NEW Lines, NEW N \in Nat, NEW rows, IsPath(rows, N, Names, Lines)
    PROVE  \E g : Reads(g, rows, N, Names, Lines)
<1> DEFINE V == AccsOver(Names, Lines)
           F == [p \in (1 .. N) \X V |-> Read(p[2], rows[p[1]])]
           E(it) == it = [t \in SUBSET (1 .. N) |->
                            IF t = {} THEN Start ELSE Read(it[t \ {Max(t)}], rows[Max(t)])]
           it == CHOOSE it : E(it)
<1>1. F \in [(1 .. N) \X V -> V] /\ Start \in V
  <2>1. ASSUME NEW i \in 1 .. N, NEW acc \in V PROVE Read(acc, rows[i]) \in V
    BY ReadTyped DEF IsPath
  <2>2. Start \in V
    BY StartTyped
  <2> HIDE DEF V
  <2> QED
    BY <2>1, <2>2
<1>2. Compress(rows) = Closed(it[1 .. N])
  BY DEF IsPath, Compress, FoldLeft, MapThenFoldSet
<1> HIDE DEF V
<1>3. \E f : E(f)
  <2>1. PICK f \in [SUBSET (1 .. N) -> V] : Folds(f, N, Start, F)
    <3> HIDE DEF E, F
    <3> QED
      BY <1>1, FoldExists
  <2>2. ASSUME NEW t \in SUBSET (1 .. N), t # {}
        PROVE  F[<<Max(t), f[t \ {Max(t)}]>>] = Read(f[t \ {Max(t)}], rows[Max(t)])
    <3>1. Max(t) \in 1 .. N /\ t \ {Max(t)} \in SUBSET (1 .. N)
      BY <2>2, MaxOf
    <3>2. <<Max(t), f[t \ {Max(t)}]>> \in (1 .. N) \X V
      BY <2>1, <3>1
    <3> QED
      BY <3>2
  <2> HIDE DEF F
  <2>3. E(f)
    BY <2>1, <2>2 DEF Folds
  <2> HIDE DEF E
  <2> QED
    BY <2>3
<1>4. E(it)
  <2> HIDE DEF E
  <2> QED
    BY <1>3
<1>5. FoldsIn(it, N, V, Start, F)
  <2> HIDE DEF it
  <2>1. it[{}] = Start
    BY <1>4
  <2>2. ASSUME NEW t \in SUBSET (1 .. N), t # {}, it[t \ {Max(t)}] \in V
        PROVE  it[t] = F[<<Max(t), it[t \ {Max(t)}]>>]
    <3>1. Max(t) \in 1 .. N
      BY <2>2, MaxOf
    <3>2. it[t] = Read(it[t \ {Max(t)}], rows[Max(t)])
      BY <1>4, <2>2
    <3>3. <<Max(t), it[t \ {Max(t)}]>> \in (1 .. N) \X V
      BY <2>2, <3>1
    <3> QED
      BY <3>2, <3>3
  <2> HIDE DEF F
  <2> QED
    BY <2>1, <2>2 DEF FoldsIn
<1>6. PICK g \in [0 .. N -> V] : g[N] = it[1 .. N] /\ Climbs(g, N, Start, F)
  <2> HIDE DEF E, F, it
  <2> QED
    BY <1>1, <1>5, FoldClimbs
<1>7. ASSUME NEW i \in 1 .. N PROVE g[i] = Read(g[i - 1], rows[i])
  <2>1. i - 1 \in 0 .. N
    OBVIOUS
  <2>2. <<i, g[i - 1]>> \in (1 .. N) \X V
    BY <2>1
  <2>3. F[<<i, g[i - 1]>>] = Read(g[i - 1], rows[i])
    BY <2>2
  <2> HIDE DEF F
  <2> QED
    BY <1>6, <2>3 DEF Climbs
<1> HIDE DEF F, it
<1>8. Reads(g, rows, N, Names, Lines)
  BY <1>2, <1>6, <1>7 DEF Climbs, Reads, V
<1> QED
  BY <1>8

-----------------------------------------------------------------------------
(* A row that goes on or alights follows a ride.                           *)
Boarded(rows, N) ==
    \A i \in 1 .. N : rows[i].rel \in {"NEXT_STOP", "ALIGHT"} =>
                         i > 1 /\ rows[i - 1].rel \in {"BOARD", "NEXT_STOP"}

Held(m, acc) == Measure(m, acc.segs) + (IF acc.cur = NoRide THEN 0 ELSE OfSeg(m, acc.cur))

(* Closing the ride in progress keeps what segments and ride measure.      *)
LEMMA MeasureClosed ==
    ASSUME NEW m \in Measures, NEW Names, NEW Lines, NEW acc \in AccsOver(Names, Lines)
    PROVE  Measure(m, Closed(acc)) = Held(m, acc) /\ Measure(m, acc.segs) \in Nat
<1> DEFINE S == SegsOver(Names, Lines)
<1>1. (\A x \in S : OfSeg(m, x) \in Nat) /\ acc.segs \in Seq(S)
  BY OfNat DEF AccsOver
<1> DEFINE last == [acc.cur EXCEPT !.lines = acc.active]
<1>2. acc.cur # NoRide => last \in S /\ OfSeg(m, last) = OfSeg(m, acc.cur)
  BY DEF SegsOver, AccsOver, RidesOver, OfSeg
<1>3. Closed(acc) = IF acc.cur = NoRide THEN acc.segs ELSE Append(acc.segs, last)
  BY DEF Closed
<1> HIDE DEF S, last
<1>4. Measure(m, acc.segs) \in Nat
  BY <1>1, MeasureNat
<1>5. CASE acc.cur = NoRide
  BY <1>3, <1>4, <1>5 DEF Held
<1>6. CASE acc.cur # NoRide
  <2>1. Measure(m, Append(acc.segs, last)) = Measure(m, acc.segs) + OfSeg(m, last)
    BY <1>1, <1>2, <1>6, MeasureAppend
  <2> QED
    BY <1>2, <1>3, <1>4, <1>6, <2>1 DEF Held
<1> QED
  BY <1>5, <1>6

(* The lines that still run on all the links, one link later.              *)
LinesOn(acc, row) ==
    IF row.lines \ FakeIds = {} THEN acc.active
    ELSE IF acc.first THEN row.lines \ FakeIds ELSE acc.active \cap (row.lines \ FakeIds)

GoneOn(acc, row, new) ==
    /\ new.segs = acc.segs /\ new.cur.type = "TRANSIT"
    /\ new.cur.tenths = acc.cur.tenths + Tenths(row.sec)
    /\ new.cur.dist = IF row.rel = "NEXT_STOP" THEN acc.cur.dist + row.dist ELSE acc.cur.dist
    /\ new.cur.stations = Visit(acc.cur.stations, row.to)
    /\ new.cur.stops = IF row.rel = "NEXT_STOP" THEN acc.cur.stops + 1 ELSE acc.cur.stops
    /\ new.active = IF row.rel = "NEXT_STOP" THEN LinesOn(acc, row) ELSE acc.active
    /\ row.rel = "NEXT_STOP" => new.first = FALSE
    /\ row.rel = "ALIGHT" => new.first = acc.first

(* A row that goes on or alights adds to the ride in progress.             *)
LEMMA ReadGoesOn ==
    ASSUME NEW Names, NEW Lines, NEW acc \in AccsOver(Names, Lines), acc.cur # NoRide,
           NEW row, IsRow(row, Names, Lines), row.rel \in {"NEXT_STOP", "ALIGHT"}
    PROVE  GoneOn(acc, row, Read(acc, row))
<1> DEFINE cur == Read(acc, row).cur
<1>1. acc.cur \in SegsOver(Names, Lines) /\ acc.cur.type = "TRANSIT"
  BY DEF AccsOver, RidesOver
<1> DEFINE tenths == acc.cur.tenths + Tenths(row.sec)
           dist == acc.cur.dist + row.dist
           links == acc.cur.stops + 1
           stops == Visit(acc.cur.stations, row.to)
           kept == LinesOn(acc, row)
<1>2. /\ Read(acc, row).segs = acc.segs
      /\ cur.tenths = tenths /\ cur.type = "TRANSIT" /\ cur.stations = stops
      /\ cur.dist = IF row.rel = "NEXT_STOP" THEN dist ELSE acc.cur.dist
      /\ cur.stops = IF row.rel = "NEXT_STOP" THEN links ELSE acc.cur.stops
      /\ Read(acc, row).active = IF row.rel = "NEXT_STOP" THEN kept ELSE acc.active
      /\ row.rel = "NEXT_STOP" => Read(acc, row).first = FALSE
      /\ row.rel = "ALIGHT" => Read(acc, row).first = acc.first
  <2>1. CASE row.rel = "NEXT_STOP"
    <3>1. Read(acc, row) = [acc EXCEPT !.cur.tenths = tenths, !.cur.dist = dist, !.cur.stops = links,
                                       !.cur.stations = stops, !.active = kept, !.first = FALSE]
      BY <2>1 DEF Read, Ride, AccsOver, LinesOn
    <3> DEFINE ride == [acc.cur EXCEPT !.tenths = tenths, !.dist = dist, !.stops = links, !.stations = stops]
    <3> HIDE DEF tenths, dist, links, stops, kept, cur
    <3>2. Read(acc, row) = [acc EXCEPT !.cur = ride, !.active = kept, !.first = FALSE]
      BY <1>1, <3>1 DEF AccsOver
    <3>3. /\ ride.tenths = tenths /\ ride.dist = dist /\ ride.type = "TRANSIT"
          /\ ride.stations = stops /\ ride.stops = links
      BY <1>1 DEF SegsOver
    <3> HIDE DEF ride
    <3>4. /\ Read(acc, row).segs = acc.segs /\ Read(acc, row).cur = ride
          /\ Read(acc, row).active = kept /\ Read(acc, row).first = FALSE
      BY <3>2 DEF AccsOver
    <3> QED
      BY <2>1, <3>3, <3>4 DEF cur
  <2>2. CASE row.rel = "ALIGHT"
    <3>1. Read(acc, row) = [acc EXCEPT !.cur.tenths = tenths, !.cur.stations = stops]
      BY <2>2 DEF Read, Alight, AccsOver
    <3> DEFINE ride == [acc.cur EXCEPT !.tenths = tenths, !.stations = stops]
    <3> HIDE DEF tenths, dist, links, stops, kept, cur
    <3>2. Read(acc, row) = [acc EXCEPT !.cur = ride]
      BY <1>1, <3>1 DEF AccsOver
    <3>3. /\ ride.tenths = tenths /\ ride.dist = acc.cur.dist /\ ride.type = "TRANSIT"
          /\ ride.stations = stops /\ ride.stops = acc.cur.stops
      BY <1>1 DEF SegsOver
    <3> HIDE DEF ride
    <3>4. /\ Read(acc, row).segs = acc.segs /\ Read(acc, row).cur = ride
          /\ Read(acc, row).active = acc.active /\ Read(acc, row).first = acc.first
      BY <3>2 DEF AccsOver
    <3> QED
      BY <2>2, <3>3, <3>4 DEF cur
  <2> QED
    BY <2>1, <2>2
<1> QED
  BY <1>2 DEF GoneOn, cur, tenths, dist, stops, links, kept

(* Reading a row adds its measure to what is held, if a row that goes on   *)
(* or alights finds a ride; and after a row that boards or goes on there   *)
(* is one.                                                                 *)
LEMMA HeldRead ==
    ASSUME NEW m \in Measures, NEW Names, NEW Lines, NEW acc \in AccsOver(Names, Lines),
           NEW row, IsRow(row, Names, Lines),
           row.rel \in {"NEXT_STOP", "ALIGHT"} => acc.cur # NoRide
    PROVE  /\ Held(m, Read(acc, row)) = Held(m, acc) + OfRow(m, row)
           /\ row.rel \in {"BOARD", "NEXT_STOP"} => Read(acc, row).cur # NoRide
<1>1. Measure(m, Closed(acc)) = Held(m, acc) /\ Measure(m, acc.segs) \in Nat /\ OfRow(m, row) \in Nat
  BY MeasureClosed, OfNat
<1>2. CASE row.rel = "BOARD"
  <2> DEFINE seg == Seg("TRANSIT", row, <<row.from>>)
  <2>1. Read(acc, row).segs = Closed(acc) /\ Read(acc, row).cur = seg
    BY <1>2 DEF Read, Board
  <2>2. OfSeg(m, seg) = OfRow(m, row) /\ seg # NoRide
    BY <1>2 DEF Seg, NoRide, OfSeg, OfRow
  <2> HIDE DEF seg
  <2> QED
    BY <1>1, <1>2, <2>1, <2>2 DEF Held
<1>3. CASE row.rel = "TRANSFER"
  <2> DEFINE walk == [Seg("TRANSFER", row, <<row.from, row.to>>) EXCEPT !.dist = row.dist]
             S == SegsOver(Names, Lines)
  <2>1. Read(acc, row).segs = Append(Closed(acc), walk) /\ Read(acc, row).cur = NoRide
    BY <1>3 DEF Read, Walk, Start
  <2>2. OfSeg(m, walk) = OfRow(m, row)
    BY <1>3 DEF Seg, OfSeg, OfRow
  <2>3. walk \in S
    <3>1. <<row.from, row.to>> \in Seq(Names) \ {<<>>} /\ row.sec \in Nat
      BY DEF IsRow
    <3>2. "TRANSFER" \in {"TRANSIT", "TRANSFER"}
      OBVIOUS
    <3>3. Seg("TRANSFER", row, <<row.from, row.to>>) \in S
      BY <3>1, <3>2, SegTyped
    <3> QED
      BY <3>3 DEF SegsOver, IsRow
  <2>4. Closed(acc) \in Seq(S) /\ \A x \in S : OfSeg(m, x) \in Nat
    BY ClosedTyped, OfNat
  <2> HIDE DEF walk, S
  <2>5. Measure(m, Append(Closed(acc), walk)) = Measure(m, Closed(acc)) + OfSeg(m, walk)
    BY <2>3, <2>4, MeasureAppend
  <2>6. Held(m, Read(acc, row)) = Measure(m, Append(Closed(acc), walk)) + 0
    BY <2>1 DEF Held
  <2>7. Measure(m, Closed(acc)) \in Nat
    BY <2>4, MeasureNat
  <2> QED
    BY <1>1, <1>3, <2>2, <2>5, <2>6, <2>7
<1>4. CASE row.rel \in {"NEXT_STOP", "ALIGHT"}
  <2> DEFINE cur == Read(acc, row).cur
  <2>1. acc.cur \in SegsOver(Names, Lines) /\ acc.cur.type = "TRANSIT"
    BY <1>4 DEF AccsOver, RidesOver
  <2>2. /\ Read(acc, row).segs = acc.segs /\ cur.type = "TRANSIT"
        /\ cur.tenths = acc.cur.tenths + Tenths(row.sec)
        /\ cur.dist = IF row.rel = "NEXT_STOP" THEN acc.cur.dist + row.dist ELSE acc.cur.dist
    <3>1. GoneOn(acc, row, Read(acc, row))
      BY <1>4, ReadGoesOn
    <3> QED
      BY <3>1 DEF GoneOn
  <2>3. OfSeg(m, acc.cur) \in Nat
    BY <2>1, OfNat
  <2>4. cur # NoRide
    BY <2>2 DEF NoRide
  <2>5. OfSeg(m, cur) = OfSeg(m, acc.cur) + OfRow(m, row)
    BY <1>4, <2>1, <2>2, <2>3 DEF OfSeg, OfRow
  <2>6. Held(m, Read(acc, row)) = Measure(m, acc.segs) + OfSeg(m, cur)
    BY <2>2, <2>4 DEF Held
  <2> HIDE DEF cur
  <2> QED
    BY <1>1, <1>4, <2>3, <2>4, <2>5, <2>6 DEF Held, cur
<1> QED
  BY <1>2, <1>3, <1>4 DEF IsRow

(* The segments of the first pass are as long as the rows.                 *)
LEMMA CompressKeeps ==
    ASSUME NEW m \in Measures, NEW Names, NEW Lines, NEW N \in Nat, NEW rows,
           IsPath(rows, N, Names, Lines), Boarded(rows, N)
    PROVE  /\ Compress(rows) \in Seq(SegsOver(Names, Lines))
           /\ Measure(m, Compress(rows)) = Length(m, rows)
<1>1. PICK g : Reads(g, rows, N, Names, Lines)
  BY CompressReads
<1> DEFINE w == [i \in DOMAIN rows |-> OfRow(m, rows[i])]
<1>w. w \in [1 .. N -> Nat] /\ Length(m, rows) = Sum(w) /\ \A i \in 1 .. N : w[i] = OfRow(m, rows[i])
  BY OfNat DEF IsPath, Length
<1> HIDE DEF w
<1>2. PICK h : h \in [0 .. N -> Nat] /\ h[N] = Sum(w) /\ Sums(h, N, w)
  BY <1>w, SumSums
<1> DEFINE Rides_(i) == i > 0 /\ rows[i].rel \in {"BOARD", "NEXT_STOP"} => g[i].cur # NoRide
           T == {i \in 0 .. N : Held(m, g[i]) = h[i] /\ Rides_(i)}
<1>3. 0 \in T
  <2>1. g[0] = Start /\ h[0] = 0 /\ 0 \in 0 .. N
    BY <1>1, <1>2 DEF Reads, Sums
  <2>2. Held(m, Start) = 0
    BY MeasureNone DEF Held, Start
  <2> QED
    BY <2>1, <2>2
<1>4. ASSUME NEW i \in 1 .. N, i - 1 \in T PROVE i \in T
  <2>1. i - 1 \in 0 .. N /\ i \in 0 .. N /\ g[i - 1] \in AccsOver(Names, Lines)
    BY <1>1 DEF Reads
  <2>2. Held(m, g[i - 1]) = h[i - 1] /\ Rides_(i - 1)
    BY <1>4
  <2>3. rows[i].rel \in {"NEXT_STOP", "ALIGHT"} => g[i - 1].cur # NoRide
    BY <2>2 DEF Boarded
  <2>4. g[i] = Read(g[i - 1], rows[i]) /\ h[i] = h[i - 1] + OfRow(m, rows[i])
    BY <1>1, <1>2, <1>w DEF Reads, Sums
  <2>5. /\ Held(m, Read(g[i - 1], rows[i])) = Held(m, g[i - 1]) + OfRow(m, rows[i])
        /\ rows[i].rel \in {"BOARD", "NEXT_STOP"} => Read(g[i - 1], rows[i]).cur # NoRide
    BY <2>1, <2>3, HeldRead DEF IsPath
  <2> QED
    BY <2>1, <2>2, <2>4, <2>5
<1>5. N \in T
  <2> HIDE DEF Rides_, T
  <2>1. 0 .. N \subseteq T
    BY <1>3, <1>4, StepUp
  <2>2. N \in 0 .. N
    OBVIOUS
  <2> QED
    BY <2>1, <2>2
<1>6. g[N] \in AccsOver(Names, Lines) /\ Held(m, g[N]) = h[N] /\ Compress(rows) = Closed(g[N])
  BY <1>1, <1>5 DEF Reads
<1>7. Closed(g[N]) \in Seq(SegsOver(Names, Lines)) /\ Measure(m, Closed(g[N])) = Held(m, g[N])
  BY <1>6, ClosedTyped, MeasureClosed
<1> QED
  BY <1>2, <1>6, <1>7, <1>w

-----------------------------------------------------------------------------
(* The second pass.                                                        *)
LEMMA FrontLast ==
    ASSUME NEW S, NEW out \in Seq(S), out # <<>>
    PROVE  Front(out) \in Seq(S) /\ Last(out) \in S /\ out = Append(Front(out), Last(out))
BY DEF Front, Last

(* Merging a segment adds its measure: a walk that is left out takes no    *)
(* time, and none is ridden (rerouting.py 692-709).                        *)
LEMMA PutKeeps ==
    ASSUME NEW m \in Measures, NEW Names, NEW Lines, NEW out \in Seq(SegsOver(Names, Lines)),
           NEW seg \in SegsOver(Names, Lines)
    PROVE  /\ Put(out, seg) \in Seq(SegsOver(Names, Lines))
           /\ Measure(m, Put(out, seg)) = Measure(m, out) + OfSeg(m, seg)
<1> DEFINE S == SegsOver(Names, Lines)
<1>1. /\ \A x \in S : OfSeg(m, x) \in Nat
      /\ out \in Seq(S) /\ seg \in S
  BY OfNat
<1>2. \A x, y \in S : /\ Join(x, y) \in S
                      /\ x.type = "TRANSFER" /\ y.type = "TRANSFER" =>
                            OfSeg(m, Join(x, y)) = OfSeg(m, x) + OfSeg(m, y)
  <2>1. ASSUME NEW x \in S, NEW y \in S
        PROVE  /\ Join(x, y) \in S /\ Join(x, y).type = x.type
               /\ Join(x, y).tenths = x.tenths + y.tenths
    <3> DEFINE tenths == x.tenths + y.tenths
               dist == x.dist + y.dist
               ends == <<Head(x.stations), Last(y.stations)>>
    <3>1. Join(x, y) = [x EXCEPT !.tenths = tenths, !.dist = dist, !.stations = ends]
      BY DEF Join
    <3>2. tenths \in Nat /\ dist \in Nat
      <4>1. x.tenths \in Nat /\ y.tenths \in Nat /\ x.dist \in Nat /\ y.dist \in Nat
        BY DEF SegsOver
      <4> QED
        BY <4>1
    <3>3. ends \in Seq(Names) \ {<<>>}
      <4>1. x.stations \in Seq(Names) \ {<<>>} /\ y.stations \in Seq(Names) \ {<<>>}
        BY DEF SegsOver
      <4>2. Head(x.stations) \in Names /\ Last(y.stations) \in Names
        BY <4>1, FrontLast
      <4> QED
        BY <4>2
    <3> HIDE DEF tenths, dist, ends
    <3>4. [x EXCEPT !.tenths = tenths, !.dist = dist, !.stations = ends] \in SegsOver(Names, Lines)
      BY <3>2, <3>3 DEF SegsOver
    <3>5. /\ [x EXCEPT !.tenths = tenths, !.dist = dist, !.stations = ends].tenths = tenths
          /\ [x EXCEPT !.tenths = tenths, !.dist = dist, !.stations = ends].type = x.type
      BY DEF SegsOver
    <3>6. Join(x, y) \in S /\ Join(x, y).tenths = tenths /\ Join(x, y).type = x.type
      BY <3>1, <3>4, <3>5
    <3> QED
      BY <3>6 DEF tenths
  <2> QED
    BY <2>1 DEF OfSeg
<1>3. Measure(m, out) \in Nat /\ OfSeg(m, seg) \in Nat
  BY <1>1, MeasureNat
<1> HIDE DEF S
<1>4. CASE NoMove(seg)
  <2>1. Put(out, seg) = out /\ OfSeg(m, seg) = 0
    BY <1>4 DEF Put, NoMove, OfSeg
  <2> QED
    BY <1>1, <1>3, <2>1 DEF S
<1>5. CASE Put(out, seg) = Append(out, seg)
  <2>1. Measure(m, Append(out, seg)) = Measure(m, out) + OfSeg(m, seg) /\ Append(out, seg) \in Seq(S)
    BY <1>1, MeasureAppend
  <2> QED
    BY <1>5, <2>1 DEF S
<1>6. CASE /\ out # <<>> /\ Last(out).type = "TRANSFER" /\ seg.type = "TRANSFER"
           /\ Put(out, seg) = Append(Front(out), Join(Last(out), seg))
  <2>1. Front(out) \in Seq(S) /\ Last(out) \in S /\ out = Append(Front(out), Last(out))
    BY <1>1, <1>6, FrontLast
  <2>2. Join(Last(out), seg) \in S /\ OfSeg(m, Join(Last(out), seg)) = OfSeg(m, Last(out)) + OfSeg(m, seg)
    BY <1>1, <1>2, <1>6, <2>1
  <2>3. Measure(m, Front(out)) \in Nat /\ Measure(m, out) = Measure(m, Front(out)) + OfSeg(m, Last(out))
    BY <1>1, <2>1, MeasureAppend
  <2>4. Measure(m, Append(Front(out), Join(Last(out), seg)))
           = Measure(m, Front(out)) + OfSeg(m, Join(Last(out), seg))
    BY <1>1, <2>1, <2>2, MeasureAppend
  <2>5. Append(Front(out), Join(Last(out), seg)) \in Seq(S)
    BY <2>1, <2>2
  <2>6. OfSeg(m, Last(out)) \in Nat
    BY <1>1, <2>1
  <2> QED
    BY <1>3, <1>6, <2>2, <2>3, <2>4, <2>5, <2>6 DEF S
<1> QED
  BY <1>4, <1>5, <1>6 DEF Put

(* The states of the second pass, one after each segment.                  *)
Puts(g, segs, N, Names, Lines) ==
    /\ g \in [0 .. N -> Seq(SegsOver(Names, Lines))]
    /\ g[0] = <<>> /\ \A i \in 1 .. N : g[i] = Put(g[i - 1], segs[i])
    /\ g[N] = FoldLeft(Put, <<>>, segs)

AreSegs(segs, N, Names, Lines) ==
    DOMAIN segs = 1 .. N /\ \A i \in 1 .. N : segs[i] \in SegsOver(Names, Lines)

(* The second pass goes through a list after each segment.                 *)
LEMMA MergePuts ==
    ASSUME NEW Names, NEW Lines, NEW N \in Nat, NEW segs, AreSegs(segs, N, Names, Lines)
    PROVE  \E g : Puts(g, segs, N, Names, Lines)
<1> DEFINE V == Seq(SegsOver(Names, Lines))
           F == [p \in (1 .. N) \X V |-> Put(p[2], segs[p[1]])]
           E(it) == it = [t \in SUBSET (1 .. N) |->
                            IF t = {} THEN <<>> ELSE Put(it[t \ {Max(t)}], segs[Max(t)])]
           it == CHOOSE it : E(it)
<1>1. F \in [(1 .. N) \X V -> V] /\ <<>> \in V
  <2>1. ASSUME NEW i \in 1 .. N, NEW out \in V PROVE Put(out, segs[i]) \in V
    <3>1. "minutes" \in Measures
      BY DEF Measures
    <3> QED
      BY <3>1, PutKeeps DEF AreSegs
  <2>2. <<>> \in V
    OBVIOUS
  <2> HIDE DEF V
  <2> QED
    BY <2>1, <2>2
<1>2. FoldLeft(Put, <<>>, segs) = it[1 .. N]
  BY DEF AreSegs, FoldLeft, MapThenFoldSet
<1> HIDE DEF V
<1>3. \E f : E(f)
  <2>1. PICK f \in [SUBSET (1 .. N) -> V] : Folds(f, N, <<>>, F)
    <3> HIDE DEF E, F
    <3> QED
      BY <1>1, FoldExists
  <2>2. ASSUME NEW t \in SUBSET (1 .. N), t # {}
        PROVE  F[<<Max(t), f[t \ {Max(t)}]>>] = Put(f[t \ {Max(t)}], segs[Max(t)])
    <3>1. Max(t) \in 1 .. N /\ t \ {Max(t)} \in SUBSET (1 .. N)
      BY <2>2, MaxOf
    <3>2. <<Max(t), f[t \ {Max(t)}]>> \in (1 .. N) \X V
      BY <2>1, <3>1
    <3> QED
      BY <3>2
  <2> HIDE DEF F
  <2>3. E(f)
    BY <2>1, <2>2 DEF Folds
  <2> HIDE DEF E
  <2> QED
    BY <2>3
<1>4. E(it)
  <2> HIDE DEF E
  <2> QED
    BY <1>3
<1>5. FoldsIn(it, N, V, <<>>, F)
  <2> HIDE DEF it
  <2>1. it[{}] = <<>>
    BY <1>4
  <2>2. ASSUME NEW t \in SUBSET (1 .. N), t # {}, it[t \ {Max(t)}] \in V
        PROVE  it[t] = F[<<Max(t), it[t \ {Max(t)}]>>]
    <3>1. Max(t) \in 1 .. N
      BY <2>2, MaxOf
    <3>2. it[t] = Put(it[t \ {Max(t)}], segs[Max(t)])
      BY <1>4, <2>2
    <3>3. <<Max(t), it[t \ {Max(t)}]>> \in (1 .. N) \X V
      BY <2>2, <3>1
    <3> QED
      BY <3>2, <3>3
  <2> HIDE DEF F
  <2> QED
    BY <2>1, <2>2 DEF FoldsIn
<1>6. PICK g \in [0 .. N -> V] : g[N] = it[1 .. N] /\ Climbs(g, N, <<>>, F)
  <2> HIDE DEF E, F, it
  <2> QED
    BY <1>1, <1>5, FoldClimbs
<1>7. ASSUME NEW i \in 1 .. N PROVE g[i] = Put(g[i - 1], segs[i])
  <2>1. i - 1 \in 0 .. N
    OBVIOUS
  <2>2. <<i, g[i - 1]>> \in (1 .. N) \X V
    BY <2>1
  <2>3. F[<<i, g[i - 1]>>] = Put(g[i - 1], segs[i])
    BY <2>2
  <2> HIDE DEF F
  <2> QED
    BY <1>6, <2>3 DEF Climbs
<1> HIDE DEF F, it
<1>8. g[N] = FoldLeft(Put, <<>>, segs)
  BY <1>2, <1>6
<1>9. Puts(g, segs, N, Names, Lines)
  BY <1>6, <1>7, <1>8 DEF Climbs, Puts, V
<1> QED
  BY <1>9

(* The merged segments are as long as those they are made of.              *)
LEMMA MergeKeeps ==
    ASSUME NEW m \in Measures, NEW Names, NEW Lines, NEW segs \in Seq(SegsOver(Names, Lines))
    PROVE  /\ FoldLeft(Put, <<>>, segs) \in Seq(SegsOver(Names, Lines))
           /\ Measure(m, FoldLeft(Put, <<>>, segs)) = Measure(m, segs)
<1> DEFINE N == Len(segs)
<1>1. N \in Nat /\ N \in 0 .. N /\ AreSegs(segs, N, Names, Lines)
  BY DEF AreSegs
<1> HIDE DEF N
<1>2. PICK g : Puts(g, segs, N, Names, Lines)
  BY <1>1, MergePuts
<1> DEFINE w == [i \in DOMAIN segs |-> OfSeg(m, segs[i])]
<1>w. w \in [1 .. N -> Nat] /\ Measure(m, segs) = Sum(w) /\ \A i \in 1 .. N : w[i] = OfSeg(m, segs[i])
  BY <1>1, OfNat DEF AreSegs, Measure
<1> HIDE DEF w
<1>3. PICK h : h \in [0 .. N -> Nat] /\ h[N] = Measure(m, segs) /\ Sums(h, N, w)
  BY <1>1, <1>w, SumSums
<1> DEFINE T == {i \in 0 .. N : Measure(m, g[i]) = h[i]}
<1>4. 0 \in T
  BY <1>1, <1>2, <1>3, MeasureNone DEF Puts, Sums
<1>5. ASSUME NEW i \in 1 .. N, i - 1 \in T PROVE i \in T
  <2>1. i - 1 \in 0 .. N /\ i \in 0 .. N
    BY <1>1
  <2>2. g[i - 1] \in Seq(SegsOver(Names, Lines)) /\ g[i] = Put(g[i - 1], segs[i])
    BY <1>2, <2>1 DEF Puts
  <2>3. segs[i] \in SegsOver(Names, Lines)
    BY <1>1 DEF AreSegs
  <2> DEFINE out == g[i - 1]
             seg == segs[i]
  <2>4. Measure(m, Put(out, seg)) = Measure(m, out) + OfSeg(m, seg)
    <3>1. out \in Seq(SegsOver(Names, Lines)) /\ seg \in SegsOver(Names, Lines)
      BY <2>2, <2>3
    <3> HIDE DEF out, seg
    <3> QED
      BY <3>1, PutKeeps
  <2>5. h[i] = h[i - 1] + OfSeg(m, segs[i])
    BY <1>3, <1>w DEF Sums
  <2> QED
    BY <1>5, <2>1, <2>2, <2>4, <2>5
<1>6. N \in T
  <2> HIDE DEF T
  <2>1. 0 .. N \subseteq T
    BY <1>1, <1>4, <1>5, StepUp
  <2> QED
    BY <1>1, <2>1
<1> QED
  BY <1>1, <1>2, <1>3, <1>6 DEF Puts

(* Hiding repeated names keeps the length.                                 *)
LEMMA TidyKeeps ==
    ASSUME NEW m \in Measures, NEW Names, NEW Lines, NEW segs \in Seq(SegsOver(Names, Lines))
    PROVE  Measure(m, [i \in DOMAIN segs |-> Tidy(segs[i])]) = Measure(m, segs)
<1> DEFINE tidy == [i \in DOMAIN segs |-> Tidy(segs[i])]
<1>1. DOMAIN tidy = DOMAIN segs /\ \A i \in DOMAIN segs : OfSeg(m, tidy[i]) = OfSeg(m, segs[i])
  <2>1. ASSUME NEW seg \in SegsOver(Names, Lines) PROVE OfSeg(m, Tidy(seg)) = OfSeg(m, seg)
    <3>1. PICK stops : Tidy(seg) = [seg EXCEPT !.stations = stops]
      BY Zenon DEF Tidy
    <3> QED
      BY <3>1 DEF SegsOver, OfSeg
  <2>2. \A i \in DOMAIN segs : segs[i] \in SegsOver(Names, Lines)
    OBVIOUS
  <2> QED
    BY <2>1, <2>2
<1> HIDE DEF tidy
<1>2. [i \in DOMAIN tidy |-> OfSeg(m, tidy[i])] = [i \in DOMAIN segs |-> OfSeg(m, segs[i])]
  BY <1>1
<1> QED
  BY <1>2 DEF Measure, tidy

(* What is shown of a path is as long as the path, in minutes and in       *)
(* metres ridden.                                                          *)
THEOREM LengthKept ==
    ASSUME NEW m \in Measures, NEW Names, NEW Lines, NEW N \in Nat, NEW rows,
           IsPath(rows, N, Names, Lines), Boarded(rows, N)
    PROVE  Measure(m, Segments(rows)) = Length(m, rows)
<1> DEFINE merged == FoldLeft(Put, <<>>, Compress(rows))
<1>1. Compress(rows) \in Seq(SegsOver(Names, Lines)) /\ Measure(m, Compress(rows)) = Length(m, rows)
  BY CompressKeeps
<1>2. merged \in Seq(SegsOver(Names, Lines)) /\ Measure(m, merged) = Measure(m, Compress(rows))
  BY <1>1, MergeKeeps
<1>3. Segments(rows) = [i \in DOMAIN merged |-> Tidy(merged[i])]
  BY DEF Segments
<1> HIDE DEF merged
<1>4. Measure(m, Segments(rows)) = Measure(m, merged)
  BY <1>2, <1>3, TidyKeeps
<1> QED
  BY <1>1, <1>2, <1>4

-----------------------------------------------------------------------------
(* The segments lead from where the path starts to where it ends.  First,  *)
(* one more segment: it begins where those before it end.                  *)
LEMMA LeadsMore ==
    ASSUME NEW S, NEW segs \in Seq(S), NEW seg \in S, NEW a, NEW b
    PROVE  Leads(Append(segs, seg), a, b) <=> Leads(segs, a, Head(seg.stations)) /\ EndsAt(seg, b)
<1> DEFINE n == Len(segs)
           more == Append(segs, seg)
           End(x, c) == EndsAt(x, c)
           H(x) == Head(x.stations)
<1>1. /\ n \in Nat /\ (segs = <<>> <=> n = 0) /\ DOMAIN segs = 1 .. n /\ Len(more) = n + 1
      /\ more[n + 1] = seg /\ (\A i \in 1 .. n : more[i] = segs[i]) /\ more # <<>>
      /\ Last(more) = seg /\ (n > 0 => Last(segs) = segs[n])
  BY DEF Last
<1> HIDE DEF n, more
<1>2. Leads(more, a, b) <=> /\ H(more[1]) = a /\ End(seg, b)
                            /\ \A i \in 1 .. n : End(more[i], H(more[i + 1]))
  BY <1>1 DEF Leads
<1>3. Leads(segs, a, H(seg)) <=>
         IF n = 0 THEN a = H(seg)
         ELSE /\ H(segs[1]) = a /\ End(segs[n], H(seg))
              /\ \A i \in 1 .. n - 1 : End(segs[i], H(segs[i + 1]))
  BY <1>1 DEF Leads
<1>4. CASE n = 0
  <2>1. more[1] = seg /\ 1 .. n = {}
    BY <1>1, <1>4
  <2> HIDE DEF End, H
  <2>2. Leads(more, a, b) <=> Leads(segs, a, H(seg)) /\ End(seg, b)
    BY <1>2, <1>3, <1>4, <2>1
  <2> QED
    BY <2>2 DEF End, H, more
<1>5. CASE n > 0
  <2>1. more[1] = segs[1] /\ more[n] = segs[n]
    BY <1>1, <1>5
  <2>2. \A i \in 1 .. n - 1 : more[i] = segs[i] /\ more[i + 1] = segs[i + 1] /\ i \in 1 .. n
    BY <1>1, <1>5
  <2>3. \A i \in 1 .. n : i \in 1 .. n - 1 \/ i = n
    BY <1>1, <1>5
  <2>4. n \in 1 .. n /\ n # 0
    BY <1>1, <1>5
  <2> HIDE DEF End, H
  <2>5. (\A i \in 1 .. n : End(more[i], H(more[i + 1]))) <=>
           /\ End(segs[n], H(seg)) /\ \A i \in 1 .. n - 1 : End(segs[i], H(segs[i + 1]))
    BY <1>1, <2>1, <2>2, <2>3, <2>4
  <2>6. Leads(more, a, b) <=> Leads(segs, a, H(seg)) /\ End(seg, b)
    BY <1>2, <1>3, <2>1, <2>4, <2>5
  <2> QED
    BY <2>6 DEF End, H, more
<1> QED
  BY <1>1, <1>4, <1>5

(* A stop that is passed is shown, and the first stop stays.               *)
LEMMA VisitShows ==
    ASSUME NEW Names, NEW stops \in Seq(Names) \ {<<>>}, NEW name \in Names
    PROVE  /\ Head(Visit(stops, name)) = Head(stops) /\ name \in ToSet(Visit(stops, name))
           /\ ToSet(stops) \subseteq ToSet(Visit(stops, name))
<1>1. CASE name \in Elems(stops)
  BY <1>1 DEF Visit, Elems, ToSet
<1>2. CASE name \notin Elems(stops)
  <2> DEFINE more == Append(stops, name)
             n == Len(stops)
  <2>1. Visit(stops, name) = more
    BY <1>2 DEF Visit
  <2>2. n \in Nat /\ n > 0 /\ Len(more) = n + 1 /\ more[n + 1] = name /\ more[1] = stops[1]
    OBVIOUS
  <2>3. n + 1 \in DOMAIN more /\ Head(more) = more[1] /\ Head(stops) = stops[1]
    OBVIOUS
  <2>4. DOMAIN stops = 1 .. n /\ DOMAIN more = 1 .. n + 1 /\ \A i \in 1 .. n : more[i] = stops[i]
    OBVIOUS
  <2> HIDE DEF more, n
  <2>5. ToSet(stops) \subseteq ToSet(more)
    BY <2>2, <2>4 DEF ToSet
  <2> QED
    BY <2>1, <2>2, <2>3, <2>5 DEF ToSet
<1> QED
  BY <1>1, <1>2

(* Where a path leads: it ends at a stop, and a row that boards or walks   *)
(* starts at the stop where the row before it ends.                        *)
AtStop(row) == row.rel \in {"ALIGHT", "TRANSFER"}

Through(rows, N, a, b) ==
    /\ N > 0 /\ rows[1].from = a /\ rows[N].to = b /\ AtStop(rows[N])
    /\ \A i \in 1 .. N : i > 1 /\ rows[i].rel \in {"BOARD", "TRANSFER"} =>
                            AtStop(rows[i - 1]) /\ rows[i].from = rows[i - 1].to

(* What is read so far leads to the stop that is reached, or to where the  *)
(* ride in progress was boarded.                                           *)
Led(acc, row, a) ==
    /\ AtStop(row) => Leads(Closed(acc), a, row.to)
    /\ ~AtStop(row) => acc.cur # NoRide /\ Leads(acc.segs, a, Head(acc.cur.stations))

(* Reading a row keeps that.                                               *)
LEMMA ReadLeads ==
    ASSUME NEW Names, NEW Lines, Unknown \in Lines, NEW acc \in AccsOver(Names, Lines),
           NEW row, IsRow(row, Names, Lines), NEW a,
           row.rel \in {"BOARD", "TRANSFER"} => Leads(Closed(acc), a, row.from),
           row.rel \in {"NEXT_STOP", "ALIGHT"} =>
              acc.cur # NoRide /\ Leads(acc.segs, a, Head(acc.cur.stations))
    PROVE  Led(Read(acc, row), row, a)
<1> DEFINE S == SegsOver(Names, Lines)
<1>1. CASE row.rel = "BOARD"
  <2> DEFINE seg == Seg("TRANSIT", row, <<row.from>>)
  <2>1. Read(acc, row).segs = Closed(acc) /\ Read(acc, row).cur = seg
    BY <1>1 DEF Read, Board
  <2>2. Head(seg.stations) = row.from /\ seg # NoRide
    BY DEF Seg, NoRide
  <2> HIDE DEF seg
  <2> QED
    BY <1>1, <2>1, <2>2 DEF Led, AtStop
<1>2. CASE row.rel = "TRANSFER"
  <2> DEFINE walk == [Seg("TRANSFER", row, <<row.from, row.to>>) EXCEPT !.dist = row.dist]
  <2>1. Read(acc, row).segs = Append(Closed(acc), walk) /\ Read(acc, row).cur = NoRide
    BY <1>2 DEF Read, Walk, Start
  <2>2. Head(walk.stations) = row.from /\ EndsAt(walk, row.to)
    BY DEF Seg, EndsAt, Last
  <2>3. walk \in S
    <3>1. <<row.from, row.to>> \in Seq(Names) \ {<<>>} /\ row.sec \in Nat
      BY DEF IsRow
    <3>2. "TRANSFER" \in {"TRANSIT", "TRANSFER"}
      OBVIOUS
    <3>3. Seg("TRANSFER", row, <<row.from, row.to>>) \in S
      BY <3>1, <3>2, SegTyped
    <3> QED
      BY <3>3 DEF SegsOver, IsRow
  <2>4. Closed(acc) \in Seq(S)
    BY ClosedTyped
  <2> HIDE DEF walk, S
  <2>5. Leads(Append(Closed(acc), walk), a, row.to)
    BY <1>2, <2>2, <2>3, <2>4, LeadsMore
  <2>6. Closed(Read(acc, row)) = Append(Closed(acc), walk)
    BY <2>1 DEF Closed
  <2> QED
    BY <1>2, <2>5, <2>6 DEF Led, AtStop
<1>3. CASE row.rel \in {"NEXT_STOP", "ALIGHT"}
  <2> DEFINE cur == Read(acc, row).cur
             stops == acc.cur.stations
  <2>1. /\ Read(acc, row).segs = acc.segs /\ cur.type = "TRANSIT" /\ cur # NoRide
        /\ cur.stations = Visit(stops, row.to)
    <3>1. GoneOn(acc, row, Read(acc, row))
      BY <1>3, ReadGoesOn
    <3> QED
      BY <3>1 DEF GoneOn, NoRide
  <2>2. stops \in Seq(Names) \ {<<>>} /\ row.to \in Names
    BY <1>3 DEF AccsOver, RidesOver, SegsOver, IsRow
  <2> HIDE DEF stops
  <2>3. Head(cur.stations) = Head(stops) /\ row.to \in ToSet(cur.stations)
    BY <2>1, <2>2, VisitShows
  <2>4. Leads(acc.segs, a, Head(cur.stations))
    BY <1>3, <2>3 DEF stops
  <2>5. CASE row.rel = "NEXT_STOP"
    BY <2>1, <2>4, <2>5 DEF Led, AtStop
  <2>6. CASE row.rel = "ALIGHT"
    <3> DEFINE last == [cur EXCEPT !.lines = Read(acc, row).active]
    <3>1. cur \in SegsOver(Names, Lines) /\ Read(acc, row).active \in SUBSET Lines
      <4>1. Read(acc, row) \in AccsOver(Names, Lines)
        BY ReadTyped
      <4> QED
        BY <2>1, <4>1 DEF AccsOver, RidesOver
    <3>2. Closed(Read(acc, row)) = Append(acc.segs, last)
      BY <2>1 DEF Closed
    <3> HIDE DEF cur
    <3>3. last \in S /\ last.stations = cur.stations /\ last.type = "TRANSIT"
      BY <2>1, <3>1 DEF SegsOver
    <3>4. acc.segs \in Seq(S)
      BY DEF AccsOver
    <3>5. EndsAt(last, row.to)
      BY <2>3, <3>3 DEF EndsAt
    <3> HIDE DEF last, S
    <3>6. Leads(Append(acc.segs, last), a, row.to)
      BY <2>4, <3>3, <3>4, <3>5, LeadsMore
    <3> QED
      BY <2>6, <3>2, <3>6 DEF Led, AtStop
  <2> QED
    BY <1>3, <2>5, <2>6
<1> QED
  BY <1>1, <1>2, <1>3 DEF IsRow

(* The segments of the first pass lead where the rows do.                  *)
LEMMA CompressLeads ==
    ASSUME NEW Names, NEW Lines, NEW N \in Nat, NEW rows, IsPath(rows, N, Names, Lines),
           Boarded(rows, N), NEW a, NEW b, Through(rows, N, a, b)
    PROVE  Leads(Compress(rows), a, b)
<1>1. PICK g : Reads(g, rows, N, Names, Lines)
  BY CompressReads
<1> DEFINE T == {i \in 0 .. N : i > 0 => Led(g[i], rows[i], a)}
<1>2. 0 \in T
  OBVIOUS
<1>3. ASSUME NEW i \in 1 .. N, i - 1 \in T PROVE i \in T
  <2> DEFINE acc == g[i - 1]
             row == rows[i]
  <2>1. i - 1 \in 0 .. N /\ i \in 0 .. N /\ acc \in AccsOver(Names, Lines) /\ g[i] = Read(acc, row)
    BY <1>1 DEF Reads
  <2>2. IsRow(row, Names, Lines) /\ Unknown \in Lines
    BY DEF IsPath
  <2>3. row.rel \in {"BOARD", "TRANSFER"} => Leads(Closed(acc), a, row.from)
    <3>1. CASE i = 1
      <4>1. acc = Start /\ row.from = a
        BY <1>1, <3>1 DEF Reads, Through
      <4>2. Closed(Start) = <<>>
        BY DEF Closed, Start
      <4> QED
        BY <4>1, <4>2 DEF Leads
    <3>2. CASE i > 1
      <4>1. Led(acc, rows[i - 1], a)
        BY <1>3, <3>2
      <4> QED
        BY <3>2, <4>1 DEF Led, Through
    <3> QED
      BY <3>1, <3>2
  <2>4. row.rel \in {"NEXT_STOP", "ALIGHT"} => acc.cur # NoRide /\ Leads(acc.segs, a, Head(acc.cur.stations))
    <3> SUFFICES ASSUME row.rel \in {"NEXT_STOP", "ALIGHT"}
                 PROVE  acc.cur # NoRide /\ Leads(acc.segs, a, Head(acc.cur.stations))
      OBVIOUS
    <3>1. i > 1 /\ ~AtStop(rows[i - 1])
      BY DEF Boarded, AtStop
    <3>2. Led(acc, rows[i - 1], a)
      BY <1>3, <3>1
    <3> QED
      BY <3>1, <3>2 DEF Led
  <2> HIDE DEF acc, row
  <2>5. Led(Read(acc, row), row, a)
    BY <2>1, <2>2, <2>3, <2>4, ReadLeads
  <2> QED
    BY <2>1, <2>5 DEF row
<1>4. N \in T
  <2> HIDE DEF T
  <2>1. 0 .. N \subseteq T
    BY <1>2, <1>3, StepUp
  <2> QED
    BY <2>1
<1>5. Led(g[N], rows[N], a) /\ AtStop(rows[N]) /\ rows[N].to = b
  BY <1>4 DEF Through
<1> QED
  BY <1>1, <1>5 DEF Led, Reads

(* Merging keeps where the segments lead: a walk that is left out leads    *)
(* to a stop of the same name.                                             *)
LEMMA PutLeads ==
    ASSUME NEW Names, NEW Lines, NEW out \in Seq(SegsOver(Names, Lines)),
           NEW seg \in SegsOver(Names, Lines), NEW a, NEW b,
           Leads(out, a, Head(seg.stations)), EndsAt(seg, b)
    PROVE  Leads(Put(out, seg), a, b)
<1> DEFINE S == SegsOver(Names, Lines)
<1>1. CASE NoMove(seg)
  <2>1. Head(seg.stations) = b
    BY <1>1 DEF NoMove, EndsAt
  <2> QED
    BY <1>1, <2>1 DEF Put
<1>2. CASE Put(out, seg) = Append(out, seg)
  <2>1. out \in Seq(S) /\ seg \in S
    OBVIOUS
  <2> HIDE DEF S
  <2> QED
    BY <1>2, <2>1, LeadsMore
<1>3. CASE /\ out # <<>> /\ Last(out).type = "TRANSFER" /\ seg.type = "TRANSFER"
           /\ Put(out, seg) = Append(Front(out), Join(Last(out), seg))
  <2> DEFINE front == Front(out)
             x == Last(out)
             y == Join(x, seg)
  <2>1. front \in Seq(S) /\ x \in S /\ out = Append(front, x)
    BY <1>3, FrontLast
  <2>2. y \in S
    <3>1. Put(out, seg) \in Seq(S)
      <4>1. "minutes" \in Measures
        BY DEF Measures
      <4> QED
        BY <4>1, PutKeeps
    <3> DEFINE new == Put(out, seg)
               n == Len(front)
    <3>2. new \in Seq(S) /\ new = Append(front, y) /\ n \in Nat
      BY <1>3, <2>1, <3>1
    <3> HIDE DEF new, front, y, S
    <3>3. n + 1 \in DOMAIN new /\ new[n + 1] = y
      BY <2>1, <3>2
    <3> QED
      BY <3>2, <3>3
  <2>3. Head(y.stations) = Head(x.stations) /\ EndsAt(y, b)
    <3>1. y.stations = <<Head(x.stations), Last(seg.stations)>> /\ y.type = "TRANSFER"
      <4>1. x \in S /\ x.type = "TRANSFER"
        BY <1>3, <2>1
      <4> HIDE DEF x
      <4> QED
        BY <4>1 DEF Join, SegsOver
    <3>2. Last(seg.stations) = b
      BY <1>3 DEF EndsAt
    <3> HIDE DEF y, x
    <3> QED
      BY <3>1, <3>2 DEF EndsAt, Last
  <2> HIDE DEF front, x, y, S
  <2>4. Leads(front, a, Head(x.stations))
    BY <2>1, LeadsMore
  <2>5. Leads(Append(front, y), a, b)
    BY <2>1, <2>2, <2>3, <2>4, LeadsMore
  <2> QED
    BY <1>3, <2>5 DEF front, x, y
<1> QED
  BY <1>1, <1>2, <1>3 DEF Put

(* So the merged segments lead where those of the first pass do.           *)
LEMMA MergeLeads ==
    ASSUME NEW Names, NEW Lines, NEW segs \in Seq(SegsOver(Names, Lines)), NEW a, NEW b,
           Leads(segs, a, b)
    PROVE  Leads(FoldLeft(Put, <<>>, segs), a, b)
<1> DEFINE N == Len(segs)
           at(i) == IF i < N THEN Head(segs[i + 1].stations) ELSE b
<1>1. N \in Nat /\ N \in 0 .. N /\ AreSegs(segs, N, Names, Lines) /\ (segs = <<>> <=> N = 0)
  BY DEF AreSegs
<1>2. at(0) = a /\ \A i \in 1 .. N : EndsAt(segs[i], at(i)) /\ at(i - 1) = Head(segs[i].stations)
  <2>1. CASE N = 0
    BY <1>1, <2>1 DEF Leads
  <2>2. CASE N > 0
    <3>1. /\ Head(segs[1].stations) = a /\ EndsAt(segs[N], b)
          /\ \A i \in 1 .. N - 1 : EndsAt(segs[i], Head(segs[i + 1].stations))
      BY <1>1, <2>2 DEF Leads, Last
    <3> HIDE DEF N
    <3>2. at(0) = a
      BY <2>2, <3>1
    <3>3. ASSUME NEW i \in 1 .. N PROVE EndsAt(segs[i], at(i)) /\ at(i - 1) = Head(segs[i].stations)
      <4>1. (i \in 1 .. N - 1 /\ i < N) \/ (i = N /\ ~(i < N))
        BY <1>1
      <4>2. i - 1 < N /\ i - 1 + 1 = i
        BY <1>1
      <4> QED
        BY <3>1, <4>1, <4>2
    <3> QED
      BY <3>2, <3>3
  <2> QED
    BY <1>1, <2>1, <2>2
<1>3. at(N) = b
  BY <1>1
<1> HIDE DEF N, at
<1>4. PICK g : Puts(g, segs, N, Names, Lines)
  BY <1>1, MergePuts
<1> DEFINE T == {i \in 0 .. N : Leads(g[i], a, at(i))}
<1>5. 0 \in T
  <2>1. Leads(<<>>, a, a)
    BY DEF Leads
  <2> QED
    BY <1>1, <1>2, <1>4, <2>1 DEF Puts
<1>6. ASSUME NEW i \in 1 .. N, i - 1 \in T PROVE i \in T
  <2> DEFINE out == g[i - 1]
             seg == segs[i]
  <2>1. i \in 0 .. N /\ out \in Seq(SegsOver(Names, Lines)) /\ g[i] = Put(out, seg)
    <3>1. i - 1 \in 0 .. N
      BY <1>1
    <3> QED
      BY <1>4, <3>1 DEF Puts
  <2>2. seg \in SegsOver(Names, Lines) /\ Leads(out, a, Head(seg.stations)) /\ EndsAt(seg, at(i))
    BY <1>1, <1>2, <1>6 DEF AreSegs
  <2> HIDE DEF out, seg
  <2>3. Leads(Put(out, seg), a, at(i))
    BY <2>1, <2>2, PutLeads
  <2> QED
    BY <2>1, <2>3
<1>7. N \in T
  <2> HIDE DEF T
  <2>1. 0 .. N \subseteq T
    BY <1>1, <1>5, <1>6, StepUp
  <2> QED
    BY <1>1, <2>1
<1> QED
  BY <1>3, <1>4, <1>7 DEF Puts

(* The names shown, one list after each station.                           *)
Shown(g, stops, N, Names) ==
    /\ g \in [0 .. N -> Seq(Names)]
    /\ g[0] = <<>> /\ \A i \in 1 .. N : g[i] = Show(g[i - 1], stops[i])
    /\ g[N] = FoldLeft(Show, <<>>, stops)

(* Hiding the repeated names goes through a list after each station.       *)
LEMMA ShowShown ==
    ASSUME NEW Names, NEW N \in Nat, NEW stops \in Seq(Names), Len(stops) = N
    PROVE  \E g : Shown(g, stops, N, Names)
<1> DEFINE V == Seq(Names)
           F == [p \in (1 .. N) \X V |-> Show(p[2], stops[p[1]])]
           E(it) == it = [t \in SUBSET (1 .. N) |->
                            IF t = {} THEN <<>> ELSE Show(it[t \ {Max(t)}], stops[Max(t)])]
           it == CHOOSE it : E(it)
<1>0. DOMAIN stops = 1 .. N
  OBVIOUS
<1>1. F \in [(1 .. N) \X V -> V] /\ <<>> \in V
  <2>1. ASSUME NEW i \in 1 .. N, NEW out \in V PROVE Show(out, stops[i]) \in V
    BY DEF Show
  <2>2. <<>> \in V
    OBVIOUS
  <2> HIDE DEF V
  <2> QED
    BY <2>1, <2>2
<1>2. FoldLeft(Show, <<>>, stops) = it[1 .. N]
  BY <1>0 DEF FoldLeft, MapThenFoldSet
<1> HIDE DEF V
<1>3. \E f : E(f)
  <2>1. PICK f \in [SUBSET (1 .. N) -> V] : Folds(f, N, <<>>, F)
    <3> HIDE DEF E, F
    <3> QED
      BY <1>1, FoldExists
  <2>2. ASSUME NEW t \in SUBSET (1 .. N), t # {}
        PROVE  F[<<Max(t), f[t \ {Max(t)}]>>] = Show(f[t \ {Max(t)}], stops[Max(t)])
    <3>1. Max(t) \in 1 .. N /\ t \ {Max(t)} \in SUBSET (1 .. N)
      BY <2>2, MaxOf
    <3>2. <<Max(t), f[t \ {Max(t)}]>> \in (1 .. N) \X V
      BY <2>1, <3>1
    <3> QED
      BY <3>2
  <2> HIDE DEF F
  <2>3. E(f)
    BY <2>1, <2>2 DEF Folds
  <2> HIDE DEF E
  <2> QED
    BY <2>3
<1>4. E(it)
  <2> HIDE DEF E
  <2> QED
    BY <1>3
<1>5. FoldsIn(it, N, V, <<>>, F)
  <2> HIDE DEF it
  <2>1. it[{}] = <<>>
    BY <1>4
  <2>2. ASSUME NEW t \in SUBSET (1 .. N), t # {}, it[t \ {Max(t)}] \in V
        PROVE  it[t] = F[<<Max(t), it[t \ {Max(t)}]>>]
    <3>1. Max(t) \in 1 .. N
      BY <2>2, MaxOf
    <3>2. it[t] = Show(it[t \ {Max(t)}], stops[Max(t)])
      BY <1>4, <2>2
    <3>3. <<Max(t), it[t \ {Max(t)}]>> \in (1 .. N) \X V
      BY <2>2, <3>1
    <3> QED
      BY <3>2, <3>3
  <2> HIDE DEF F
  <2> QED
    BY <2>1, <2>2 DEF FoldsIn
<1>6. PICK g \in [0 .. N -> V] : g[N] = it[1 .. N] /\ Climbs(g, N, <<>>, F)
  <2> HIDE DEF E, F, it
  <2> QED
    BY <1>1, <1>5, FoldClimbs
<1>7. ASSUME NEW i \in 1 .. N PROVE g[i] = Show(g[i - 1], stops[i])
  <2>1. i - 1 \in 0 .. N
    OBVIOUS
  <2>2. <<i, g[i - 1]>> \in (1 .. N) \X V
    BY <2>1
  <2>3. F[<<i, g[i - 1]>>] = Show(g[i - 1], stops[i])
    BY <2>2
  <2> HIDE DEF F
  <2> QED
    BY <1>6, <2>3 DEF Climbs
<1> HIDE DEF F, it
<1>8. g[N] = FoldLeft(Show, <<>>, stops)
  BY <1>2, <1>6
<1>9. Shown(g, stops, N, Names)
  BY <1>6, <1>7, <1>8 DEF Climbs, Shown, V
<1> QED
  BY <1>9

(* One more name shown: the list ends with it, begins as it did, and loses *)
(* nothing.                                                                *)
LEMMA ShowMore ==
    ASSUME NEW Names, NEW out \in Seq(Names), NEW name \in Names
    PROVE  LET more == Show(out, name) IN
           /\ more # <<>> /\ Last(more) = name /\ ToSet(out) \subseteq ToSet(more)
           /\ Head(more) = IF out = <<>> THEN name ELSE Head(out)
<1> DEFINE n == Len(out)
           more == Append(out, name)
<1>1. n \in Nat /\ (out = <<>> <=> n = 0) /\ DOMAIN out = 1 .. n
  OBVIOUS
<1>2. CASE out # <<>> /\ Last(out) = name
  BY <1>2 DEF Show
<1>3. CASE Show(out, name) = more
  <2>1. /\ Len(more) = n + 1 /\ DOMAIN more = 1 .. n + 1 /\ more[n + 1] = name /\ more # <<>>
        /\ \A i \in 1 .. n : more[i] = out[i]
    BY <1>1
  <2>2. Head(more) = more[1] /\ Last(more) = name
    BY <1>1, <2>1 DEF Last
  <2>3. Head(out) = out[1]
    OBVIOUS
  <2> HIDE DEF more, n
  <2>4. ToSet(out) \subseteq ToSet(more)
    BY <1>1, <2>1 DEF ToSet
  <2>5. Head(more) = IF out = <<>> THEN name ELSE Head(out)
    BY <1>1, <2>1, <2>2, <2>3
  <2> QED
    BY <1>3, <2>1, <2>2, <2>4, <2>5
<1> QED
  BY <1>2, <1>3 DEF Show

(* Hiding the repeated names keeps the first, the last and every name.     *)
LEMMA TidyShows ==
    ASSUME NEW Names, NEW Lines, NEW seg \in SegsOver(Names, Lines)
    PROVE  /\ Tidy(seg).type = seg.type /\ Head(Tidy(seg).stations) = Head(seg.stations)
           /\ \A b : EndsAt(seg, b) => EndsAt(Tidy(seg), b)
<1> DEFINE stops == seg.stations
           N == Len(stops)
           out == FoldLeft(Show, <<>>, stops)
<1>1. stops \in Seq(Names) /\ N \in Nat /\ N > 0 /\ DOMAIN stops = 1 .. N /\ stops # <<>>
  BY DEF SegsOver
<1>2. Head(stops) = stops[1] /\ Last(stops) = stops[N]
  BY <1>1 DEF Last
<1>3. Tidy(seg).type = seg.type /\ Tidy(seg).stations = out
  <2> HIDE DEF out
  <2>1. Tidy(seg) = [seg EXCEPT !.stations = out]
    BY Zenon DEF Tidy, out
  <2> QED
    BY <2>1 DEF SegsOver
<1> HIDE DEF stops, N
<1>4. PICK g : Shown(g, stops, N, Names)
  BY <1>1, ShowShown DEF N
<1> HIDE DEF out
<1> DEFINE Good(i) == /\ g[i] # <<>> /\ Head(g[i]) = stops[1] /\ Last(g[i]) = stops[i]
                      /\ \A j \in 1 .. i : stops[j] \in ToSet(g[i])
           T == {i \in 0 .. N : i > 0 => Good(i)}
<1>5. 0 \in T
  BY <1>1
<1>6. ASSUME NEW i \in 1 .. N, i - 1 \in T PROVE i \in T
  <2> DEFINE old == g[i - 1]
             more == Show(old, stops[i])
  <2>1. i - 1 \in 0 .. N /\ i \in 0 .. N /\ old \in Seq(Names) /\ g[i] = more /\ stops[i] \in Names
    <3>1. i - 1 \in 0 .. N /\ i \in 0 .. N
      BY <1>1
    <3>2. stops[i] \in Names
      BY <1>1
    <3> QED
      BY <1>4, <3>1, <3>2 DEF Shown
  <2> HIDE DEF old
  <2>2. /\ more # <<>> /\ Last(more) = stops[i] /\ ToSet(old) \subseteq ToSet(more)
        /\ Head(more) = IF old = <<>> THEN stops[i] ELSE Head(old)
    BY <2>1, ShowMore
  <2>3. stops[i] \in ToSet(more)
    <3>1. more \in Seq(Names)
      BY <2>1 DEF Show
    <3> HIDE DEF more
    <3>2. Len(more) \in DOMAIN more /\ Last(more) = more[Len(more)]
      BY <2>2, <3>1 DEF Last
    <3> QED
      BY <2>2, <3>2 DEF ToSet
  <2> HIDE DEF more
  <2>4. CASE i = 1
    <3>1. old = <<>>
      BY <1>4, <2>4 DEF Shown, old
    <3>2. \A j \in 1 .. i : stops[j] \in ToSet(more)
      BY <2>3, <2>4
    <3> QED
      BY <2>1, <2>2, <2>4, <3>1, <3>2
  <2>5. CASE i > 1
    <3>1. old # <<>> /\ Head(old) = stops[1] /\ \A j \in 1 .. i - 1 : stops[j] \in ToSet(old)
      BY <1>6, <2>5 DEF old
    <3>2. ASSUME NEW j \in 1 .. i PROVE stops[j] \in ToSet(more)
      <4>1. j \in 1 .. i - 1 \/ j = i
        OBVIOUS
      <4> QED
        BY <2>2, <2>3, <3>1, <4>1
    <3> QED
      BY <2>1, <2>2, <3>1, <3>2
  <2> QED
    BY <2>4, <2>5
<1>7. Good(N)
  <2>1. 0 .. N \subseteq T
    <3> HIDE DEF T
    <3> QED
      BY <1>1, <1>5, <1>6, StepUp
  <2> QED
    BY <1>1, <2>1
<1>8. Head(out) = Head(stops) /\ Last(out) = Last(stops) /\ ToSet(stops) \subseteq ToSet(out)
  <2>1. g[N] = out
    BY <1>4 DEF Shown, out
  <2> QED
    BY <1>1, <1>2, <1>7, <2>1 DEF ToSet
<1> QED
  BY <1>3, <1>8 DEF EndsAt, stops

(* So the segments lead as before.                                         *)
LEMMA TidyLeads ==
    ASSUME NEW Names, NEW Lines, NEW segs \in Seq(SegsOver(Names, Lines)), NEW a, NEW b,
           Leads(segs, a, b)
    PROVE  Leads([i \in DOMAIN segs |-> Tidy(segs[i])], a, b)
<1> DEFINE n == Len(segs)
           tidy == [i \in DOMAIN segs |-> Tidy(segs[i])]
           End(x, c) == EndsAt(x, c)
           H(x) == Head(x.stations)
<1>1. n \in Nat /\ DOMAIN segs = 1 .. n /\ (segs = <<>> <=> n = 0)
  OBVIOUS
<1>2. \A i \in 1 .. n : H(tidy[i]) = H(segs[i]) /\ \A c : End(segs[i], c) => End(tidy[i], c)
  <2>1. ASSUME NEW i \in 1 .. n PROVE segs[i] \in SegsOver(Names, Lines) /\ tidy[i] = Tidy(segs[i])
    BY <1>1
  <2> QED
    BY <2>1, TidyShows
<1>3. tidy \in Seq({Tidy(segs[i]) : i \in DOMAIN segs}) /\ Len(tidy) = n
  BY <1>1
<1>4. CASE n = 0
  <2>1. segs = <<>> /\ tidy = <<>>
    BY <1>1, <1>3, <1>4
  <2> QED
    BY <2>1
<1>5. CASE n > 0
  <2>1. /\ H(segs[1]) = a /\ End(segs[n], b)
        /\ \A i \in 1 .. n - 1 : End(segs[i], H(segs[i + 1]))
    BY <1>1, <1>5 DEF Leads, Last
  <2>2. tidy # <<>> /\ Last(tidy) = tidy[n]
    BY <1>3, <1>5 DEF Last
  <2> HIDE DEF n, tidy, End, H
  <2>3. 1 \in 1 .. n /\ n \in 1 .. n /\ \A i \in 1 .. n - 1 : i \in 1 .. n /\ i + 1 \in 1 .. n
    BY <1>1, <1>5
  <2>4. /\ H(tidy[1]) = a /\ End(tidy[n], b)
        /\ \A i \in 1 .. n - 1 : End(tidy[i], H(tidy[i + 1]))
    BY <1>2, <2>1, <2>3
  <2>5. Leads(tidy, a, b)
    BY <1>3, <2>2, <2>4 DEF Leads, End, H
  <2> QED
    BY <2>5 DEF tidy
<1> QED
  BY <1>1, <1>4, <1>5

(* What is shown of a path leads from where it starts to where it ends,    *)
(* without a gap, though walks are joined and dropped and names hidden.    *)
THEOREM SegmentsLead ==
    ASSUME NEW Names, NEW Lines, NEW N \in Nat, NEW rows, IsPath(rows, N, Names, Lines),
           Boarded(rows, N), NEW a, NEW b, Through(rows, N, a, b)
    PROVE  Leads(Segments(rows), a, b)
<1> DEFINE first == Compress(rows)
           merged == FoldLeft(Put, <<>>, first)
<1>1. first \in Seq(SegsOver(Names, Lines)) /\ Leads(first, a, b)
  <2>1. "minutes" \in Measures
    BY DEF Measures
  <2> QED
    BY <2>1, CompressKeeps, CompressLeads
<1> HIDE DEF first
<1>2. merged \in Seq(SegsOver(Names, Lines)) /\ Leads(merged, a, b)
  <2>1. "minutes" \in Measures
    BY DEF Measures
  <2> QED
    BY <1>1, <2>1, MergeKeeps, MergeLeads
<1>3. Segments(rows) = [i \in DOMAIN merged |-> Tidy(merged[i])]
  BY DEF Segments, first
<1> HIDE DEF merged
<1> QED
  BY <1>2, <1>3, TidyLeads

-----------------------------------------------------------------------------
(* The segments show the rides of the path.  First, matching in order: one *)
(* more on both sides, and one matching after another.                     *)
LEMMA InOrderMore ==
    ASSUME NEW R \in SUBSET Int, NEW B \in SUBSET Int, NEW at \in InOrder(R, B),
           NEW r \in Int, \A x \in R : x < r, NEW b \in Int, \A y \in B : y < b
    PROVE  [x \in R \cup {r} |-> IF x = r THEN b ELSE at[x]] \in InOrder(R \cup {r}, B \cup {b})
<1> DEFINE new == [x \in R \cup {r} |-> IF x = r THEN b ELSE at[x]]
<1>1. /\ at \in [R -> B] /\ \A y \in B : \E x \in R : at[x] = y
      /\ \A x, y \in R : x < y => at[x] < at[y]
  BY DEF InOrder
<1>2. r \notin R /\ \A x \in R : ~(r < x)
  OBVIOUS
<1>3. new \in [R \cup {r} -> B \cup {b}] /\ new[r] = b /\ \A x \in R : new[x] = at[x]
  BY <1>1, <1>2
<1> HIDE DEF new
<1>4. \A y \in B \cup {b} : \E x \in R \cup {r} : new[x] = y
  BY <1>1, <1>3
<1>5. ASSUME NEW x \in R \cup {r}, NEW y \in R \cup {r}, x < y PROVE new[x] < new[y]
  <2>1. x \in R /\ ~(r < r)
    BY <1>2, <1>5
  <2>2. at[x] \in B
    BY <1>1, <2>1
  <2> QED
    BY <1>1, <1>3, <1>5, <2>1, <2>2
<1>6. new \in InOrder(R \cup {r}, B \cup {b})
  BY <1>3, <1>4, <1>5 DEF InOrder
<1> QED
  BY <1>6 DEF new

(* Matchings compose.                                                      *)
LEMMA InOrderThen ==
    ASSUME NEW R, NEW S, NEW B, NEW f \in InOrder(R, S), NEW at \in InOrder(S, B)
    PROVE  [x \in R |-> at[f[x]]] \in InOrder(R, B)
<1> DEFINE new == [x \in R |-> at[f[x]]]
<1>1. /\ f \in [R -> S] /\ (\A y \in S : \E x \in R : f[x] = y)
      /\ \A x, y \in R : x < y => f[x] < f[y]
  BY DEF InOrder
<1>2. /\ at \in [S -> B] /\ (\A y \in B : \E x \in S : at[x] = y)
      /\ \A x, y \in S : x < y => at[x] < at[y]
  BY DEF InOrder
<1>3. new \in [R -> B] /\ \A x \in R : f[x] \in S /\ new[x] = at[f[x]]
  BY <1>1, <1>2
<1> HIDE DEF new
<1>4. \A y \in B : \E x \in R : new[x] = y
  BY <1>1, <1>2, <1>3
<1>5. \A x, y \in R : x < y => new[x] < new[y]
  BY <1>1, <1>2, <1>3
<1>6. new \in InOrder(R, B)
  BY <1>3, <1>4, <1>5 DEF InOrder
<1> QED
  BY <1>6 DEF new

(* The rides of one more segment.                                          *)
LEMMA RidesAppend ==
    ASSUME NEW S, NEW segs \in Seq(S), NEW seg \in S
    PROVE  /\ Rides(Append(segs, seg)) = IF seg.type = "TRANSIT" THEN Rides(segs) \cup {Len(segs) + 1}
                                         ELSE Rides(segs)
           /\ \A i \in Rides(segs) : Append(segs, seg)[i] = segs[i] /\ i \in 1 .. Len(segs)
           /\ Append(segs, seg)[Len(segs) + 1] = seg /\ Len(segs) \in Nat
<1> DEFINE n == Len(segs)
           more == Append(segs, seg)
<1>1. /\ n \in Nat /\ DOMAIN segs = 1 .. n /\ DOMAIN more = 1 .. n + 1
      /\ more[n + 1] = seg /\ (\A i \in 1 .. n : more[i] = segs[i])
  OBVIOUS
<1>2. \A i : i \in 1 .. n + 1 <=> i \in 1 .. n \/ i = n + 1
  BY <1>1
<1>3. n + 1 \notin 1 .. n
  BY <1>1
<1> HIDE DEF n, more
<1>4. \A i : i \in Rides(more) <=> i \in Rides(segs) \/ (i = n + 1 /\ seg.type = "TRANSIT")
  BY <1>1, <1>2, <1>3 DEF Rides
<1>5. \A i \in Rides(segs) : i \in 1 .. n
  BY <1>1 DEF Rides
<1> QED
  BY <1>1, <1>4, <1>5 DEF more, n

-----------------------------------------------------------------------------
(* A row that ends the ride before it.                                     *)
Ends(row) == row.rel \in {"BOARD", "TRANSFER"}

(* The links of a ride stay while no other row is a link of it.            *)
LEMMA LinksStay ==
    ASSUME NEW rows, NEW m \in Nat, NEW n \in Nat, m <= n, NEW b \in Nat,
           \A j \in m + 1 .. n : rows[j].rel # "NEXT_STOP" \/ \E k \in b + 1 .. j : Ends(rows[k])
    PROVE  LinksRidden(rows, b, n) = LinksRidden(rows, b, m)
<1>1. \A j : j \in b + 1 .. n => j \in b + 1 .. m \/ j \in m + 1 .. n
  OBVIOUS
<1>2. \A j : j \in b + 1 .. m => j \in b + 1 .. n
  OBVIOUS
<1> QED
  BY <1>1, <1>2 DEF LinksRidden, Ends

(* So do the rides that are shown, while no row boards another.            *)
LEMMA RidesStay ==
    ASSUME NEW segs, NEW rows, NEW m \in Nat, NEW n \in Nat, m <= n, RidesAs(segs, rows, m),
           \A j \in m + 1 .. n : rows[j].rel # "BOARD",
           \A b \in Boards(rows, m) : LinksRidden(rows, b, n) = LinksRidden(rows, b, m)
    PROVE  RidesAs(segs, rows, n)
<1>1. \A j : j \in 1 .. n <=> j \in 1 .. m \/ j \in m + 1 .. n
  OBVIOUS
<1>2. Boards(rows, n) = Boards(rows, m)
  BY <1>1 DEF Boards
<1>3. PICK at \in InOrder(Rides(segs), Boards(rows, m)) :
             \A i \in Rides(segs) : ShowsRide(segs[i], rows, at[i], m)
  BY DEF RidesAs
<1>4. \A i \in Rides(segs) : at[i] \in Boards(rows, m)
  BY DEF InOrder
<1>5. \A i \in Rides(segs) : ShowsRide(segs[i], rows, at[i], n)
  BY <1>3, <1>4 DEF ShowsRide
<1> QED
  BY <1>2, <1>5 DEF RidesAs

(* One more ride is shown of one more row that boards.                     *)
LEMMA RidesMore ==
    ASSUME NEW S, NEW segs \in Seq(S), NEW seg \in S, seg.type = "TRANSIT", NEW rows,
           NEW c \in Nat \ {0}, NEW n \in Nat, c <= n, RidesAs(segs, rows, c - 1),
           rows[c].rel = "BOARD", \A k \in c + 1 .. n : ~Ends(rows[k]), ShowsRide(seg, rows, c, n)
    PROVE  RidesAs(Append(segs, seg), rows, n)
<1> DEFINE R == Rides(segs)
           B == Boards(rows, c - 1)
           r == Len(segs) + 1
           more == Append(segs, seg)
<1>1. /\ Rides(more) = R \cup {r} /\ (\A i \in R : more[i] = segs[i] /\ i \in 1 .. Len(segs))
      /\ more[r] = seg /\ Len(segs) \in Nat
  BY RidesAppend
<1>2. Boards(rows, n) = B \cup {c}
  <2>1. \A b : b \in 1 .. n <=> b \in 1 .. c - 1 \/ b = c \/ b \in c + 1 .. n
    OBVIOUS
  <2>2. \A b \in c + 1 .. n : rows[b].rel # "BOARD"
    BY DEF Ends
  <2> QED
    BY <2>1, <2>2 DEF Boards
<1>3. R \in SUBSET Int /\ B \in SUBSET Int /\ r \in Int /\ (\A i \in R : i < r /\ i # r) /\ \A b \in B : b < c
  BY <1>1 DEF Boards
<1>4. PICK at \in InOrder(R, B) : \A i \in R : ShowsRide(segs[i], rows, at[i], c - 1)
  BY DEF RidesAs
<1>5. \A b \in B : LinksRidden(rows, b, n) = LinksRidden(rows, b, c - 1)
  <2> SUFFICES ASSUME NEW b \in B PROVE LinksRidden(rows, b, n) = LinksRidden(rows, b, c - 1)
    OBVIOUS
  <2>1. b \in Nat /\ b < c /\ c - 1 \in Nat /\ c - 1 <= n
    BY DEF Boards
  <2>2. \A j \in c - 1 + 1 .. n : c \in b + 1 .. j
    BY <2>1
  <2>3. Ends(rows[c])
    BY DEF Ends
  <2> QED
    BY <2>1, <2>2, <2>3, LinksStay
<1> DEFINE new == [x \in R \cup {r} |-> IF x = r THEN c ELSE at[x]]
<1>6. new \in InOrder(R \cup {r}, B \cup {c})
  <2> HIDE DEF R, B, r, new
  <2>1. R \in SUBSET Int /\ B \in SUBSET Int /\ at \in InOrder(R, B) /\ r \in Int /\ c \in Int
    BY <1>3, <1>4
  <2>2. (\A x \in R : x < r) /\ \A y \in B : y < c
    BY <1>3
  <2>3. [x \in R \cup {r} |-> IF x = r THEN c ELSE at[x]] \in InOrder(R \cup {r}, B \cup {c})
    BY <2>1, <2>2, InOrderMore
  <2> QED
    BY <2>3 DEF new
<1>7. new[r] = c /\ \A i \in R : new[i] = at[i] /\ at[i] \in B
  BY <1>3 DEF InOrder
<1> HIDE DEF new, more, r, R, B
<1>8. ASSUME NEW i \in R \cup {r} PROVE ShowsRide(more[i], rows, new[i], n)
  <2>1. CASE i = r
    BY <1>1, <1>7, <2>1
  <2>2. CASE i \in R
    <3>1. ShowsRide(segs[i], rows, at[i], c - 1) /\ at[i] \in B /\ more[i] = segs[i] /\ new[i] = at[i]
      BY <1>1, <1>4, <1>7, <2>2
    <3> QED
      BY <1>5, <3>1 DEF ShowsRide
  <2> QED
    BY <2>1, <2>2
<1>9. RidesAs(more, rows, n)
  BY <1>1, <1>2, <1>6, <1>8 DEF RidesAs
<1> QED
  BY <1>9 DEF more

(* A walk is no ride.                                                      *)
LEMMA RidesWalk ==
    ASSUME NEW S, NEW segs \in Seq(S), NEW seg \in S, seg.type = "TRANSFER", NEW rows, NEW n,
           RidesAs(segs, rows, n)
    PROVE  RidesAs(Append(segs, seg), rows, n)
<1>1. /\ Rides(Append(segs, seg)) = Rides(segs)
      /\ \A i \in Rides(segs) : Append(segs, seg)[i] = segs[i]
  BY RidesAppend
<1> DEFINE more == Append(segs, seg)
<1> HIDE DEF more
<1>2. RidesAs(more, rows, n)
  BY <1>1 DEF RidesAs, more
<1> QED
  BY <1>2 DEF more

(* The ride in progress as it would be closed, after the first n rows: it  *)
(* was boarded on row c, and no row since boards or walks.                 *)
Riding(acc) == [acc.cur EXCEPT !.lines = acc.active]

Aboard(acc, rows, c, n) ==
    /\ c \in Boards(rows, n) /\ \A k \in c + 1 .. n : ~Ends(rows[k])
    /\ RidesAs(acc.segs, rows, c - 1) /\ ShowsRide(Riding(acc), rows, c, n)
    /\ acc.first => LinksRidden(rows, c, n) = {}

(* Or there is none, and a row ended each of those there were.             *)
Ashore(acc, rows, n) ==
    /\ RidesAs(acc.segs, rows, n)
    /\ \A b \in Boards(rows, n) : \E k \in b + 1 .. n : Ends(rows[k])

Matched(acc, rows, n) ==
    IF acc.cur = NoRide THEN Ashore(acc, rows, n) ELSE \E c : Aboard(acc, rows, c, n)

(* Where a path rides, the line waited for runs.                           *)
OneLine(rows, n) ==
    \A b \in Boards(rows, n) : \A j \in LinksRidden(rows, b, n) : rows[b].lines \subseteq rows[j].lines

(* Closed, it is shown with the rides before it.                           *)
LEMMA ClosedRides ==
    ASSUME NEW Names, NEW Lines, NEW acc \in AccsOver(Names, Lines), NEW rows, NEW n \in Nat,
           Matched(acc, rows, n)
    PROVE  RidesAs(Closed(acc), rows, n)
<1>1. CASE acc.cur = NoRide
  BY <1>1 DEF Closed, Matched, Ashore
<1>2. CASE acc.cur # NoRide
  <2> DEFINE S == SegsOver(Names, Lines)
  <2>1. PICK c : Aboard(acc, rows, c, n)
    BY <1>2 DEF Matched
  <2>2. Closed(acc) = Append(acc.segs, Riding(acc))
    BY <1>2 DEF Closed, Riding
  <2>3. Riding(acc) \in S /\ Riding(acc).type = "TRANSIT" /\ acc.segs \in Seq(S)
    BY <1>2 DEF Riding, AccsOver, RidesOver, SegsOver
  <2>4. c \in Nat \ {0} /\ c <= n /\ rows[c].rel = "BOARD"
    BY <2>1 DEF Aboard, Boards
  <2>5. /\ RidesAs(acc.segs, rows, c - 1) /\ ShowsRide(Riding(acc), rows, c, n)
        /\ \A k \in c + 1 .. n : ~Ends(rows[k])
    BY <2>1 DEF Aboard
  <2> HIDE DEF S
  <2>6. RidesAs(Append(acc.segs, Riding(acc)), rows, n)
    BY <2>3, <2>4, <2>5, RidesMore
  <2> QED
    BY <2>2, <2>6
<1> QED
  BY <1>1, <1>2

(* Reading a row that boards: the ride before it is closed.                *)
LEMMA BoardMatches ==
    ASSUME NEW Names, NEW Lines, NEW acc \in AccsOver(Names, Lines), NEW rows,
           NEW n \in Nat \ {0}, Matched(acc, rows, n - 1), rows[n].rel = "BOARD"
    PROVE  Matched(Read(acc, rows[n]), rows, n)
<1> DEFINE row == rows[n]
           seg == Seg("TRANSIT", row, <<row.from>>)
           lines == IF row.lines = {} THEN {Unknown} ELSE row.lines
           new == Read(acc, row)
<1>1. new.segs = Closed(acc) /\ new.cur = seg /\ new.active = lines
  BY DEF Read, Board
<1>2. RidesAs(Closed(acc), rows, n - 1)
  <2>1. n - 1 \in Nat
    OBVIOUS
  <2> QED
    BY <2>1, ClosedRides
<1>3. LinksRidden(rows, n, n) = {} /\ n \in Boards(rows, n) /\ n + 1 .. n = {}
  BY DEF LinksRidden, Boards
<1>4. seg # NoRide /\ Head(Riding(new).stations) = row.from /\ Riding(new).stops = 0 /\ Riding(new).lines = lines
  BY <1>1 DEF Riding, Seg, NoRide
<1>5. row.lines \subseteq lines
  OBVIOUS
<1> HIDE DEF seg, lines, new
<1>6. ShowsRide(Riding(new), rows, n, n)
  BY <1>3, <1>4, <1>5, FS_EmptySet DEF ShowsRide
<1>7. Aboard(new, rows, n, n)
  BY <1>1, <1>2, <1>3, <1>6 DEF Aboard
<1>8. Matched(new, rows, n)
  BY <1>1, <1>4, <1>7 DEF Matched
<1> QED
  BY <1>8 DEF new

(* Reading a row that walks: there is no ride in progress.                 *)
LEMMA WalkMatches ==
    ASSUME NEW Names, NEW Lines, NEW acc \in AccsOver(Names, Lines), NEW rows,
           NEW n \in Nat \ {0}, Matched(acc, rows, n - 1), IsRow(rows[n], Names, Lines),
           rows[n].rel = "TRANSFER"
    PROVE  Matched(Read(acc, rows[n]), rows, n)
<1> DEFINE row == rows[n]
           walk == [Seg("TRANSFER", row, <<row.from, row.to>>) EXCEPT !.dist = row.dist]
           S == SegsOver(Names, Lines)
           new == Read(acc, row)
<1>1. new.segs = Append(Closed(acc), walk) /\ new.cur = NoRide
  BY DEF Read, Walk, Start
<1>2. walk \in S /\ walk.type = "TRANSFER"
  <2>1. <<row.from, row.to>> \in Seq(Names) \ {<<>>} /\ row.sec \in Nat
    BY DEF IsRow
  <2>2. "TRANSFER" \in {"TRANSIT", "TRANSFER"}
    OBVIOUS
  <2>3. Seg("TRANSFER", row, <<row.from, row.to>>) \in S
    BY <2>1, <2>2, SegTyped
  <2> QED
    BY <2>3 DEF SegsOver, IsRow, Seg
<1>3. Closed(acc) \in Seq(S)
  BY ClosedTyped
<1> HIDE DEF walk, S, new
<1>4. RidesAs(Closed(acc), rows, n - 1) /\ n - 1 \in Nat
  <2>1. n - 1 \in Nat
    OBVIOUS
  <2> QED
    BY <2>1, ClosedRides
<1>5. \A j \in n - 1 + 1 .. n : j = n
  OBVIOUS
<1>6. \A b \in Boards(rows, n - 1) : LinksRidden(rows, b, n) = LinksRidden(rows, b, n - 1)
  <2> SUFFICES ASSUME NEW b \in Boards(rows, n - 1)
               PROVE  LinksRidden(rows, b, n) = LinksRidden(rows, b, n - 1)
    OBVIOUS
  <2>1. b \in Nat /\ n - 1 <= n /\ \A j \in n - 1 + 1 .. n : rows[j].rel # "NEXT_STOP"
    BY <1>5 DEF Boards
  <2> QED
    BY <1>4, <2>1, LinksStay
<1>7. RidesAs(Closed(acc), rows, n)
  <2>1. n - 1 <= n /\ \A j \in n - 1 + 1 .. n : rows[j].rel # "BOARD"
    BY <1>5
  <2> QED
    BY <1>4, <1>6, <2>1, RidesStay
<1>8. RidesAs(new.segs, rows, n)
  BY <1>1, <1>2, <1>3, <1>7, RidesWalk
<1>9. \A b \in Boards(rows, n) : \E k \in b + 1 .. n : Ends(rows[k])
  <2> SUFFICES ASSUME NEW b \in Boards(rows, n) PROVE n \in b + 1 .. n /\ Ends(rows[n])
    OBVIOUS
  <2>1. b \in 1 .. n /\ b # n
    BY DEF Boards
  <2> QED
    BY <2>1 DEF Ends
<1>10. Matched(new, rows, n)
  BY <1>1, <1>8, <1>9 DEF Matched, Ashore
<1> QED
  BY <1>10 DEF new

(* Reading a row that goes on: one more link is ridden.                    *)
LEMMA RideMatches ==
    ASSUME NEW Names, NEW Lines, Unknown \in Lines, NEW acc \in AccsOver(Names, Lines), acc.cur # NoRide, NEW rows,
           NEW n \in Nat \ {0}, Matched(acc, rows, n - 1), IsRow(rows[n], Names, Lines),
           rows[n].rel = "NEXT_STOP", OneLine(rows, n)
    PROVE  Matched(Read(acc, rows[n]), rows, n)
<1> DEFINE row == rows[n]
           new == Read(acc, row)
           old == Riding(acc)
<1>1. PICK c : Aboard(acc, rows, c, n - 1)
  BY DEF Matched
<1>2. c \in 1 .. n - 1 /\ rows[c].rel = "BOARD" /\ \A k \in c + 1 .. n - 1 : ~Ends(rows[k])
  BY <1>1 DEF Aboard, Boards
<1>3. /\ new.segs = acc.segs /\ new.cur.type = "TRANSIT" /\ new.cur.stops = acc.cur.stops + 1
      /\ new.cur.stations = Visit(acc.cur.stations, row.to)
      /\ new.active = LinesOn(acc, row) /\ new.first = FALSE
  <2>1. GoneOn(acc, row, new)
    BY ReadGoesOn
  <2> HIDE DEF new
  <2> QED
    BY <2>1 DEF GoneOn
<1>4. /\ acc.cur \in RidesOver(Names, Lines) /\ acc.cur.stops \in Nat
      /\ acc.cur.stations \in Seq(Names) \ {<<>>} /\ row.to \in Names
  BY DEF AccsOver, RidesOver, SegsOver, IsRow
<1>5. old.stations = acc.cur.stations /\ old.stops = acc.cur.stops /\ old.lines = acc.active
  BY <1>4 DEF Riding, RidesOver, SegsOver
<1>6. /\ Riding(new).stations = new.cur.stations /\ Riding(new).stops = new.cur.stops
      /\ Riding(new).lines = new.active
  <2>1. new \in AccsOver(Names, Lines) /\ new.cur # NoRide
    BY <1>3, ReadTyped DEF NoRide
  <2>2. new.cur \in RidesOver(Names, Lines)
    BY <2>1 DEF AccsOver
  <2> HIDE DEF new
  <2> QED
    BY <2>2 DEF Riding, RidesOver, SegsOver
<1> DEFINE L == LinksRidden(rows, c, n - 1)
           M == LinksRidden(rows, c, n)
<1>7. M = L \cup {n} /\ n \notin L
  <2>1. \A j : j \in c + 1 .. n <=> j \in c + 1 .. n - 1 \/ j = n
    BY <1>2
  <2>2. \A k \in c + 1 .. n : ~Ends(rows[k])
    BY <1>2, <2>1 DEF Ends
  <2>3. n \notin c + 1 .. n - 1
    OBVIOUS
  <2> QED
    BY <1>2, <2>1, <2>2, <2>3 DEF LinksRidden, Ends
<1>8. Cardinality(M) = Cardinality(L) + 1
  <2>1. c + 1 \in Int /\ n - 1 \in Int /\ L \subseteq c + 1 .. n - 1
    BY <1>2 DEF LinksRidden
  <2>2. IsFiniteSet(L)
    BY <2>1, FS_Interval, FS_Subset
  <2> HIDE DEF L, M
  <2> QED
    BY <1>7, <2>2, FS_AddElement
<1>9. /\ Head(old.stations) = rows[c].from /\ old.stops = Cardinality(L)
      /\ (\A j \in L : rows[j].to \in ToSet(old.stations))
      /\ (\A j \in L : old.lines \subseteq rows[j].lines \/ rows[j].lines \subseteq FakeIds)
      /\ (rows[c].lines \cap FakeIds = {} => rows[c].lines \subseteq old.lines)
      /\ (acc.first => L = {}) /\ RidesAs(acc.segs, rows, c - 1)
  BY <1>1 DEF Aboard, ShowsRide
<1>10. /\ Head(new.cur.stations) = rows[c].from
       /\ \A j \in M : rows[j].to \in ToSet(new.cur.stations)
  <2>1. /\ Head(new.cur.stations) = Head(acc.cur.stations) /\ row.to \in ToSet(new.cur.stations)
        /\ ToSet(acc.cur.stations) \subseteq ToSet(new.cur.stations)
    BY <1>3, <1>4, VisitShows
  <2> HIDE DEF new, old, L, M
  <2>2. ASSUME NEW j \in M PROVE rows[j].to \in ToSet(new.cur.stations)
    <3>1. CASE j = n
      BY <2>1, <3>1
    <3>2. CASE j \in L
      <4>1. rows[j].to \in ToSet(old.stations)
        BY <1>9, <3>2
      <4> QED
        BY <1>5, <2>1, <4>1
    <3> QED
      BY <1>7, <3>1, <3>2
  <2> QED
    BY <1>5, <1>9, <2>1, <2>2
<1>11. rows[c].lines \subseteq row.lines
  <2>1. c \in Boards(rows, n) /\ n \in LinksRidden(rows, c, n)
    BY <1>2, <1>7 DEF Boards
  <2> QED
    BY <2>1 DEF OneLine
<1>12. /\ \A j \in M : new.active \subseteq rows[j].lines \/ rows[j].lines \subseteq FakeIds
       /\ rows[c].lines \cap FakeIds = {} => rows[c].lines \subseteq new.active
  <2> HIDE DEF new, old, L, M
  <2>1. CASE row.lines \ FakeIds = {}
    <3>1. new.active = old.lines /\ row.lines \subseteq FakeIds
      BY <1>3, <1>5, <2>1 DEF LinesOn
    <3> QED
      BY <1>7, <1>9, <3>1
  <2>2. CASE row.lines \ FakeIds # {} /\ acc.first
    <3>1. new.active = row.lines \ FakeIds /\ M = {n}
      BY <1>3, <1>7, <1>9, <2>2 DEF LinesOn
    <3> QED
      BY <1>11, <3>1
  <2>3. CASE row.lines \ FakeIds # {} /\ ~acc.first
    <3>1. new.active = old.lines \cap (row.lines \ FakeIds)
      BY <1>3, <1>5, <2>3 DEF LinesOn
    <3> QED
      BY <1>7, <1>9, <1>11, <3>1
  <2> QED
    BY <2>1, <2>2, <2>3
<1>13. new.cur # NoRide
  BY <1>3 DEF NoRide
<1> HIDE DEF new, old
<1>14. ShowsRide(Riding(new), rows, c, n)
  BY <1>3, <1>5, <1>6, <1>8, <1>9, <1>10, <1>12 DEF ShowsRide
<1>15. c \in Boards(rows, n) /\ \A k \in c + 1 .. n : ~Ends(rows[k])
  <2>1. \A k \in c + 1 .. n : k \in c + 1 .. n - 1 \/ k = n
    BY <1>2
  <2> QED
    BY <1>2, <2>1 DEF Boards, Ends
<1>16. Aboard(new, rows, c, n)
  BY <1>3, <1>9, <1>14, <1>15 DEF Aboard
<1>17. Matched(new, rows, n)
  BY <1>13, <1>16 DEF Matched
<1> QED
  BY <1>17 DEF new

(* Reading a row that alights: it is no link.                              *)
LEMMA AlightMatches ==
    ASSUME NEW Names, NEW Lines, Unknown \in Lines, NEW acc \in AccsOver(Names, Lines), acc.cur # NoRide, NEW rows,
           NEW n \in Nat \ {0}, Matched(acc, rows, n - 1), IsRow(rows[n], Names, Lines),
           rows[n].rel = "ALIGHT"
    PROVE  Matched(Read(acc, rows[n]), rows, n)
<1> DEFINE row == rows[n]
           new == Read(acc, row)
           old == Riding(acc)
<1>1. PICK c : Aboard(acc, rows, c, n - 1)
  BY DEF Matched
<1>2. c \in 1 .. n - 1 /\ rows[c].rel = "BOARD" /\ \A k \in c + 1 .. n - 1 : ~Ends(rows[k])
  BY <1>1 DEF Aboard, Boards
<1>3. /\ new.segs = acc.segs /\ new.cur.type = "TRANSIT" /\ new.cur.stops = acc.cur.stops
      /\ new.cur.stations = Visit(acc.cur.stations, row.to)
      /\ new.active = acc.active /\ new.first = acc.first
  <2>1. GoneOn(acc, row, new)
    BY ReadGoesOn
  <2> HIDE DEF new
  <2> QED
    BY <2>1 DEF GoneOn
<1>4. /\ acc.cur \in RidesOver(Names, Lines)
      /\ acc.cur.stations \in Seq(Names) \ {<<>>} /\ row.to \in Names
  BY DEF AccsOver, RidesOver, SegsOver, IsRow
<1>5. old.stations = acc.cur.stations /\ old.stops = acc.cur.stops /\ old.lines = acc.active
  BY <1>4 DEF Riding, RidesOver, SegsOver
<1>6. /\ Riding(new).stations = new.cur.stations /\ Riding(new).stops = new.cur.stops
      /\ Riding(new).lines = new.active
  <2>1. new \in AccsOver(Names, Lines) /\ new.cur # NoRide
    BY <1>3, ReadTyped DEF NoRide
  <2>2. new.cur \in RidesOver(Names, Lines)
    BY <2>1 DEF AccsOver
  <2> HIDE DEF new
  <2> QED
    BY <2>2 DEF Riding, RidesOver, SegsOver
<1>7. LinksRidden(rows, c, n) = LinksRidden(rows, c, n - 1)
  <2>1. n - 1 \in Nat /\ n - 1 <= n /\ c \in Nat /\ \A j \in n - 1 + 1 .. n : j = n
    BY <1>2
  <2>2. \A j \in n - 1 + 1 .. n : rows[j].rel # "NEXT_STOP"
    BY <2>1
  <2> QED
    BY <2>1, <2>2, LinksStay
<1>8. /\ Head(new.cur.stations) = Head(acc.cur.stations)
      /\ ToSet(acc.cur.stations) \subseteq ToSet(new.cur.stations)
  BY <1>3, <1>4, VisitShows
<1>9. new.cur # NoRide
  BY <1>3 DEF NoRide
<1> HIDE DEF new, old
<1>10. ShowsRide(old, rows, c, n - 1) /\ RidesAs(acc.segs, rows, c - 1)
       /\ (acc.first => LinksRidden(rows, c, n - 1) = {})
  BY <1>1 DEF Aboard, old
<1>11. ShowsRide(Riding(new), rows, c, n)
  BY <1>3, <1>5, <1>6, <1>7, <1>8, <1>10 DEF ShowsRide
<1>12. c \in Boards(rows, n) /\ \A k \in c + 1 .. n : ~Ends(rows[k])
  <2>1. \A k \in c + 1 .. n : k \in c + 1 .. n - 1 \/ k = n
    BY <1>2
  <2> QED
    BY <1>2, <2>1 DEF Boards, Ends
<1>13. Aboard(new, rows, c, n)
  BY <1>3, <1>7, <1>10, <1>11, <1>12 DEF Aboard
<1>14. Matched(new, rows, n)
  BY <1>9, <1>13 DEF Matched
<1> QED
  BY <1>14 DEF new

(* Between rides, a row that goes on or alights is passed over.            *)
LEMMA IdleMatches ==
    ASSUME NEW Names, NEW Lines, NEW acc \in AccsOver(Names, Lines), acc.cur = NoRide, NEW rows,
           NEW n \in Nat \ {0}, Matched(acc, rows, n - 1), rows[n].rel \in {"NEXT_STOP", "ALIGHT"}
    PROVE  Matched(Read(acc, rows[n]), rows, n)
<1>1. Read(acc, rows[n]) = acc
  BY DEF Read
<1>2. /\ RidesAs(acc.segs, rows, n - 1)
      /\ \A b \in Boards(rows, n - 1) : \E k \in b + 1 .. n - 1 : Ends(rows[k])
  BY DEF Matched, Ashore
<1>3. n - 1 \in Nat /\ n - 1 <= n /\ \A j \in n - 1 + 1 .. n : j = n
  OBVIOUS
<1>4. \A b \in Boards(rows, n - 1) : \E k \in b + 1 .. n : Ends(rows[k])
  <2> SUFFICES ASSUME NEW b \in Boards(rows, n - 1) PROVE \E k \in b + 1 .. n : Ends(rows[k])
    OBVIOUS
  <2>1. PICK k \in b + 1 .. n - 1 : Ends(rows[k])
    BY <1>2
  <2>2. b \in Int
    BY DEF Boards
  <2>3. k \in b + 1 .. n
    BY <2>2
  <2> QED
    BY <2>1, <2>3
<1>5. \A b \in Boards(rows, n - 1) : LinksRidden(rows, b, n) = LinksRidden(rows, b, n - 1)
  <2> SUFFICES ASSUME NEW b \in Boards(rows, n - 1)
               PROVE  LinksRidden(rows, b, n) = LinksRidden(rows, b, n - 1)
    OBVIOUS
  <2>1. b \in Nat
    BY DEF Boards
  <2>2. \A j \in n - 1 + 1 .. n : \E k \in b + 1 .. j : Ends(rows[k])
    BY <1>3, <1>4
  <2> QED
    BY <1>3, <2>1, <2>2, LinksStay
<1>6. RidesAs(acc.segs, rows, n)
  <2>1. \A j \in n - 1 + 1 .. n : rows[j].rel # "BOARD"
    BY <1>3
  <2> QED
    BY <1>2, <1>3, <1>5, <2>1, RidesStay
<1>7. Boards(rows, n) = Boards(rows, n - 1)
  <2>1. \A j : j \in 1 .. n <=> j \in 1 .. n - 1 \/ j = n
    OBVIOUS
  <2> QED
    BY <2>1 DEF Boards
<1> QED
  BY <1>1, <1>4, <1>6, <1>7 DEF Matched, Ashore

(* The segments of the first pass show the rides of the rows.              *)
LEMMA CompressRides ==
    ASSUME NEW Names, NEW Lines, NEW N \in Nat, NEW rows, IsPath(rows, N, Names, Lines),
           OneLine(rows, N)
    PROVE  RidesAs(Compress(rows), rows, N)
<1>1. PICK g : Reads(g, rows, N, Names, Lines)
  BY CompressReads
<1> DEFINE T == {i \in 0 .. N : Matched(g[i], rows, i)}
<1>2. 0 \in T
  <2>1. g[0] = Start /\ Start.cur = NoRide /\ Start.segs = <<>> /\ 0 \in 0 .. N
    BY <1>1 DEF Reads, Start
  <2>2. Rides(<<>>) = {} /\ Boards(rows, 0) = {}
    BY DEF Rides, Boards
  <2>3. [x \in {} |-> x] \in InOrder({}, {})
    BY DEF InOrder
  <2>4. RidesAs(<<>>, rows, 0)
    BY <2>2, <2>3 DEF RidesAs
  <2> QED
    BY <2>1, <2>2, <2>4 DEF Matched, Ashore
<1>3. ASSUME NEW i \in 1 .. N, i - 1 \in T PROVE i \in T
  <2> DEFINE acc == g[i - 1]
  <2>1. i - 1 \in 0 .. N /\ i \in 0 .. N /\ i \in Nat \ {0}
    OBVIOUS
  <2>2. acc \in AccsOver(Names, Lines) /\ g[i] = Read(acc, rows[i]) /\ IsRow(rows[i], Names, Lines)
    BY <1>1, <2>1 DEF Reads, IsPath
  <2>3. Matched(acc, rows, i - 1)
    BY <1>3
  <2>4. OneLine(rows, i)
    <3>1. \A b \in Boards(rows, i) : /\ b \in Boards(rows, N)
                                     /\ LinksRidden(rows, b, i) \subseteq LinksRidden(rows, b, N)
      <4>1. (\A j : j \in 1 .. i => j \in 1 .. N)
        OBVIOUS
      <4>2. \A b \in 1 .. i : \A j : j \in b + 1 .. i => j \in b + 1 .. N
        OBVIOUS
      <4> QED
        BY <4>1, <4>2 DEF Boards, LinksRidden
    <3> QED
      BY <3>1 DEF OneLine
  <2> HIDE DEF acc
  <2>5. Matched(Read(acc, rows[i]), rows, i)
    <3>1. CASE rows[i].rel = "BOARD"
      BY <2>1, <2>2, <2>3, <3>1, BoardMatches
    <3>2. CASE rows[i].rel = "TRANSFER"
      BY <2>1, <2>2, <2>3, <3>2, WalkMatches
    <3>3. CASE rows[i].rel \in {"NEXT_STOP", "ALIGHT"} /\ acc.cur = NoRide
      BY <2>1, <2>2, <2>3, <3>3, IdleMatches
    <3>4. CASE rows[i].rel = "NEXT_STOP" /\ acc.cur # NoRide
      BY <2>1, <2>2, <2>3, <2>4, <3>4, RideMatches DEF IsPath
    <3>5. CASE rows[i].rel = "ALIGHT" /\ acc.cur # NoRide
      BY <2>1, <2>2, <2>3, <3>5, AlightMatches DEF IsPath
    <3> QED
      BY <2>2, <3>1, <3>2, <3>3, <3>4, <3>5 DEF IsRow
  <2> QED
    BY <2>1, <2>2, <2>5
<1>4. N \in T
  <2> HIDE DEF T
  <2>1. 0 .. N \subseteq T
    BY <1>2, <1>3, StepUp
  <2>2. N \in 0 .. N
    OBVIOUS
  <2> QED
    BY <2>1, <2>2
<1>5. Matched(g[N], rows, N) /\ g[N] \in AccsOver(Names, Lines) /\ Compress(rows) = Closed(g[N])
  BY <1>1, <1>4 DEF Reads
<1> QED
  BY <1>5, ClosedRides

(* The rides of a list are those of others, in their order.                *)
RidesOf(out, segs, R) ==
    \E f \in InOrder(Rides(out), R) : \A k \in Rides(out) : out[k] = segs[f[k]]

RidesTo(segs, i) == {k \in Rides(segs) : k <= i}

(* Merging a segment keeps the rides: only walks are left out or joined    *)
(* (rerouting.py 692-709).                                                 *)
LEMMA PutRides ==
    ASSUME NEW Names, NEW Lines, NEW N \in Nat, NEW segs, AreSegs(segs, N, Names, Lines),
           NEW out \in Seq(SegsOver(Names, Lines)), NEW i \in 1 .. N,
           RidesOf(out, segs, RidesTo(segs, i - 1))
    PROVE  RidesOf(Put(out, segs[i]), segs, RidesTo(segs, i))
<1> DEFINE S == SegsOver(Names, Lines)
           seg == segs[i]
           R == Rides(out)
           B == RidesTo(segs, i - 1)
<1>1. seg \in S /\ DOMAIN segs = 1 .. N /\ i \in Int /\ seg.type \in {"TRANSIT", "TRANSFER"}
  BY DEF AreSegs, SegsOver
<1>2. RidesTo(segs, i) = IF seg.type = "TRANSIT" THEN B \cup {i} ELSE B
  <2>1. \A k \in 1 .. N : k <= i <=> k <= i - 1 \/ k = i
    OBVIOUS
  <2> QED
    BY <1>1, <2>1 DEF RidesTo, Rides
<1>3. B \in SUBSET Int /\ \A k \in B : k < i
  BY <1>1 DEF RidesTo, Rides
<1>4. PICK f : f \in InOrder(R, B) /\ \A k \in R : out[k] = segs[f[k]]
  BY DEF RidesOf
<1>5. CASE NoMove(seg)
  <2>1. Put(out, seg) = out /\ seg.type # "TRANSIT"
    BY <1>5 DEF Put, NoMove
  <2> HIDE DEF seg
  <2> QED
    BY <1>2, <2>1 DEF seg
<1>6. CASE Put(out, seg) = Append(out, seg) /\ seg.type = "TRANSIT"
  <2> DEFINE more == Append(out, seg)
             r == Len(out) + 1
  <2>1. /\ Rides(more) = R \cup {r} /\ (\A k \in R : more[k] = out[k] /\ k \in 1 .. Len(out))
        /\ more[r] = seg /\ Len(out) \in Nat
    BY <1>1, <1>6, RidesAppend
  <2>2. R \in SUBSET Int /\ r \in Int /\ (\A k \in R : k < r /\ k # r)
    BY <2>1
  <2> DEFINE new == [k \in R \cup {r} |-> IF k = r THEN i ELSE f[k]]
  <2> HIDE DEF R, B, S, more, r, new, seg
  <2>3. [k \in R \cup {r} |-> IF k = r THEN i ELSE f[k]] \in InOrder(R \cup {r}, B \cup {i})
    BY <1>1, <1>3, <1>4, <2>2, InOrderMore
  <2>4. new \in InOrder(R \cup {r}, B \cup {i})
    BY <2>3 DEF new
  <2>5. new[r] = i /\ \A k \in R : new[k] = f[k]
    BY <2>2 DEF new
  <2>6. \A k \in R \cup {r} : more[k] = segs[new[k]]
    BY <1>4, <2>1, <2>5 DEF seg
  <2>7. RidesOf(more, segs, B \cup {i})
    BY <2>1, <2>4, <2>6 DEF RidesOf
  <2> QED
    BY <1>2, <1>6, <2>7 DEF more, seg
<1>7. CASE Put(out, seg) = Append(out, seg) /\ seg.type = "TRANSFER"
  <2> DEFINE more == Append(out, seg)
  <2>1. Rides(more) = R /\ \A k \in R : more[k] = out[k]
    BY <1>1, <1>7, RidesAppend
  <2> HIDE DEF R, B, S, more, seg
  <2>2. RidesOf(more, segs, B)
    BY <1>4, <2>1 DEF RidesOf
  <2> QED
    BY <1>2, <1>7, <2>2 DEF more, seg
<1>8. CASE /\ out # <<>> /\ Last(out).type = "TRANSFER" /\ seg.type = "TRANSFER"
           /\ Put(out, seg) = Append(Front(out), Join(Last(out), seg))
  <2> DEFINE front == Front(out)
             x == Last(out)
             y == Join(x, seg)
             more == Append(front, y)
  <2>1. front \in Seq(S) /\ x \in S /\ out = Append(front, x) /\ x.type = "TRANSFER"
    BY <1>8, FrontLast
  <2>2. y \in S /\ y.type = "TRANSFER"
    <3>1. Put(out, seg) \in Seq(S)
      <4>1. "minutes" \in Measures
        BY DEF Measures
      <4> QED
        BY <1>1, <4>1, PutKeeps
    <3>2. y.type = "TRANSFER"
      <4> HIDE DEF x
      <4> QED
        BY <2>1 DEF Join, SegsOver
    <3> DEFINE new == Put(out, seg)
               n == Len(front)
    <3>3. new \in Seq(S) /\ new = Append(front, y) /\ n \in Nat
      BY <1>8, <2>1, <3>1
    <3> HIDE DEF new, front, y, S
    <3>4. n + 1 \in DOMAIN new /\ new[n + 1] = y
      BY <2>1, <3>3
    <3> QED
      BY <3>2, <3>3, <3>4
  <2> HIDE DEF front, x, y, S
  <2>3. R = Rides(front) /\ \A k \in R : out[k] = front[k]
    BY <2>1, RidesAppend
  <2>4. Rides(more) = Rides(front) /\ \A k \in Rides(front) : more[k] = front[k]
    BY <2>1, <2>2, RidesAppend
  <2> HIDE DEF R, B, more
  <2>5. RidesOf(more, segs, B)
    <3>1. Rides(more) = R /\ \A k \in R : more[k] = segs[f[k]]
      BY <1>4, <2>3, <2>4
    <3> QED
      BY <1>4, <3>1 DEF RidesOf
  <2>6. RidesTo(segs, i) = B /\ Put(out, seg) = more
    BY <1>2, <1>8 DEF more, front, x, y
  <2> QED
    BY <2>5, <2>6
<1>9. Put(out, seg) = Append(out, seg) => seg.type = "TRANSIT" \/ seg.type = "TRANSFER"
  BY <1>1
<1> QED
  BY <1>5, <1>6, <1>7, <1>8, <1>9 DEF Put

(* A list with the rides of another shows what it shows.                   *)
LEMMA RidesThrough ==
    ASSUME NEW out, NEW segs, NEW rows, NEW n, RidesOf(out, segs, Rides(segs)),
           RidesAs(segs, rows, n)
    PROVE  RidesAs(out, rows, n)
<1>1. PICK f : /\ f \in InOrder(Rides(out), Rides(segs))
               /\ \A k \in Rides(out) : out[k] = segs[f[k]]
  BY DEF RidesOf
<1>2. PICK at : /\ at \in InOrder(Rides(segs), Boards(rows, n))
                /\ \A i \in Rides(segs) : ShowsRide(segs[i], rows, at[i], n)
  BY DEF RidesAs
<1> DEFINE R == Rides(out)
           new == [k \in R |-> at[f[k]]]
<1>3. new \in InOrder(R, Boards(rows, n))
  BY <1>1, <1>2, InOrderThen
<1>4. ASSUME NEW k \in R PROVE ShowsRide(out[k], rows, new[k], n)
  <2>1. f[k] \in Rides(segs) /\ out[k] = segs[f[k]] /\ new[k] = at[f[k]]
    BY <1>1 DEF InOrder
  <2> HIDE DEF new
  <2> QED
    BY <1>2, <2>1
<1> HIDE DEF new
<1> QED
  BY <1>3, <1>4 DEF RidesAs

(* The merged segments show the rides of those they are made of.           *)
LEMMA MergeRides ==
    ASSUME NEW Names, NEW Lines, NEW segs \in Seq(SegsOver(Names, Lines)), NEW rows, NEW n,
           RidesAs(segs, rows, n)
    PROVE  RidesAs(FoldLeft(Put, <<>>, segs), rows, n)
<1> DEFINE N == Len(segs)
<1>1. N \in Nat /\ AreSegs(segs, N, Names, Lines) /\ DOMAIN segs = 1 .. N
  BY DEF AreSegs
<1> HIDE DEF N
<1>2. PICK g : Puts(g, segs, N, Names, Lines)
  BY <1>1, MergePuts
<1> DEFINE T == {i \in 0 .. N : RidesOf(g[i], segs, RidesTo(segs, i))}
<1>3. 0 \in T
  <2>1. g[0] = <<>> /\ 0 \in 0 .. N /\ Rides(<<>>) = {} /\ RidesTo(segs, 0) = {}
    BY <1>1, <1>2 DEF Puts, Rides, RidesTo
  <2>2. [x \in {} |-> x] \in InOrder({}, {})
    BY DEF InOrder
  <2>3. RidesOf(<<>>, segs, {})
    BY <2>1, <2>2 DEF RidesOf
  <2> QED
    BY <2>1, <2>3
<1>4. ASSUME NEW i \in 1 .. N, i - 1 \in T PROVE i \in T
  <2> DEFINE out == g[i - 1]
  <2>1. i - 1 \in 0 .. N /\ i \in 0 .. N
    BY <1>1
  <2>2. out \in Seq(SegsOver(Names, Lines)) /\ g[i] = Put(out, segs[i])
    BY <1>2, <2>1 DEF Puts
  <2>3. RidesOf(out, segs, RidesTo(segs, i - 1))
    BY <1>4
  <2> HIDE DEF out
  <2>4. RidesOf(Put(out, segs[i]), segs, RidesTo(segs, i))
    BY <1>1, <2>2, <2>3, PutRides
  <2> QED
    BY <2>1, <2>2, <2>4
<1>5. N \in T
  <2> HIDE DEF T
  <2>1. 0 .. N \subseteq T
    BY <1>1, <1>3, <1>4, StepUp
  <2>2. N \in 0 .. N
    BY <1>1
  <2> QED
    BY <2>1, <2>2
<1>6. RidesTo(segs, N) = Rides(segs)
  BY <1>1 DEF RidesTo, Rides
<1> QED
  BY <1>2, <1>5, <1>6, RidesThrough DEF Puts

(* Hiding repeated names shows them still.                                 *)
LEMMA TidyRides ==
    ASSUME NEW Names, NEW Lines, NEW segs \in Seq(SegsOver(Names, Lines)), NEW rows, NEW n,
           RidesAs(segs, rows, n)
    PROVE  RidesAs([i \in DOMAIN segs |-> Tidy(segs[i])], rows, n)
<1> DEFINE tidy == [i \in DOMAIN segs |-> Tidy(segs[i])]
<1>1. ASSUME NEW i \in DOMAIN segs
      PROVE  /\ tidy[i].type = segs[i].type /\ Head(tidy[i].stations) = Head(segs[i].stations)
             /\ tidy[i].lines = segs[i].lines /\ tidy[i].stops = segs[i].stops
             /\ segs[i].type = "TRANSIT" => ToSet(segs[i].stations) \subseteq ToSet(tidy[i].stations)
  <2> DEFINE seg == segs[i]
             out == FoldLeft(Show, <<>>, seg.stations)
  <2>1. seg \in SegsOver(Names, Lines) /\ tidy[i] = Tidy(seg)
    OBVIOUS
  <2> HIDE DEF seg, tidy, out
  <2>2. Tidy(seg) = [seg EXCEPT !.stations = out]
    BY Zenon DEF Tidy, out
  <2>3. Tidy(seg).lines = seg.lines /\ Tidy(seg).stops = seg.stops
    BY <2>1, <2>2 DEF SegsOver
  <2>4. /\ Tidy(seg).type = seg.type /\ Head(Tidy(seg).stations) = Head(seg.stations)
        /\ \A b : EndsAt(seg, b) => EndsAt(Tidy(seg), b)
    BY <2>1, TidyShows
  <2>5. seg.type = "TRANSIT" => ToSet(seg.stations) \subseteq ToSet(Tidy(seg).stations)
    BY <2>4 DEF EndsAt
  <2> QED
    BY <2>1, <2>3, <2>4, <2>5 DEF seg
<1>2. DOMAIN tidy = DOMAIN segs
  OBVIOUS
<1> HIDE DEF tidy
<1>3. Rides(tidy) = Rides(segs)
  BY <1>1, <1>2 DEF Rides
<1>4. PICK at : /\ at \in InOrder(Rides(segs), Boards(rows, n))
                /\ \A i \in Rides(segs) : ShowsRide(segs[i], rows, at[i], n)
  BY DEF RidesAs
<1>5. ASSUME NEW i \in Rides(segs) PROVE ShowsRide(tidy[i], rows, at[i], n)
  <2>1. i \in DOMAIN segs /\ segs[i].type = "TRANSIT" /\ ShowsRide(segs[i], rows, at[i], n)
    BY <1>4 DEF Rides
  <2> QED
    BY <1>1, <2>1 DEF ShowsRide
<1>6. RidesAs(tidy, rows, n)
  BY <1>3, <1>4, <1>5 DEF RidesAs
<1> QED
  BY <1>6 DEF tidy

(* Segments that show the rides of a path are as many rides as rows board. *)
LEMMA RidesCount ==
    ASSUME NEW n \in Nat, NEW segs, DOMAIN segs = 1 .. n, NEW rows, NEW N \in Nat,
           RidesAs(segs, rows, N)
    PROVE  /\ Cardinality(Rides(segs)) = Cardinality(Boards(rows, N))
           /\ Rides(segs) = {} <=> Cardinality(Boards(rows, N)) = 0
<1> DEFINE R == Rides(segs)
           B == Boards(rows, N)
<1>1. R \subseteq 1 .. n /\ IsFiniteSet(R)
  <2>1. R \subseteq 1 .. n
    BY DEF Rides
  <2>2. IsFiniteSet(1 .. n)
    BY FS_Interval
  <2> HIDE DEF R
  <2> QED
    BY <2>1, <2>2, FS_Subset
<1>2. PICK at : /\ at \in [R -> B] /\ \A b \in B : \E i \in R : at[i] = b
                /\ \A i, j \in R : i < j => at[i] < at[j]
  BY DEF RidesAs, InOrder
<1>3. B \subseteq Int /\ R \subseteq Int
  BY <1>1 DEF Boards
<1> HIDE DEF R, B
<1>4. \A i, j \in R : at[i] = at[j] => i = j
  <2> SUFFICES ASSUME NEW i \in R, NEW j \in R, at[i] = at[j] PROVE i = j
    OBVIOUS
  <2>1. i \in Int /\ j \in Int /\ at[i] \in Int /\ at[j] \in Int
    BY <1>2, <1>3
  <2>2. ~(i < j) /\ ~(j < i)
    BY <1>2, <2>1
  <2> QED
    BY <2>1, <2>2
<1>5. ExistsBijection(R, B)
  BY <1>2, <1>4 DEF ExistsBijection, Bijection, Injection, Surjection, IsInjective
<1>6. IsFiniteSet(B) /\ Cardinality(B) = Cardinality(R)
  BY <1>1, <1>5, FS_Bijection
<1>7. R = {} <=> Cardinality(R) = 0
  BY <1>1, FS_EmptySet
<1> QED
  BY <1>6, <1>7 DEF R, B

(* What is shown of a path are its rides, in their order, each with the    *)
(* stops it passes, their number, and lines that run on all its links.     *)
THEOREM SegmentsRide ==
    ASSUME NEW Names, NEW Lines, NEW N \in Nat, NEW rows, IsPath(rows, N, Names, Lines),
           Boarded(rows, N), OneLine(rows, N)
    PROVE  /\ RidesAs(Segments(rows), rows, N)
           /\ Cardinality(Rides(Segments(rows))) = Cardinality(Boards(rows, N))
           /\ Rides(Segments(rows)) = {} <=> Cardinality(Boards(rows, N)) = 0
<1> DEFINE first == Compress(rows)
           merged == FoldLeft(Put, <<>>, first)
<1>0. "minutes" \in Measures
  BY DEF Measures
<1>1. first \in Seq(SegsOver(Names, Lines)) /\ RidesAs(first, rows, N)
  BY <1>0, CompressKeeps, CompressRides
<1> HIDE DEF first
<1>2. merged \in Seq(SegsOver(Names, Lines)) /\ RidesAs(merged, rows, N)
  BY <1>0, <1>1, MergeKeeps, MergeRides
<1>3. Segments(rows) = [i \in DOMAIN merged |-> Tidy(merged[i])]
  BY DEF Segments, first
<1>4. DOMAIN Segments(rows) = 1 .. Len(merged) /\ Len(merged) \in Nat
  BY <1>2, <1>3
<1> HIDE DEF merged
<1>5. RidesAs(Segments(rows), rows, N)
  BY <1>2, <1>3, TidyRides
<1> QED
  BY <1>4, <1>5, RidesCount


-----------------------------------------------------------------------------
(* A sequence in the order of the weights of its elements.                 *)
Order(p, seq, w, N) ==
    /\ p \in [1 .. N -> 1 .. N] /\ (\A i \in 1 .. N : \E k \in 1 .. N : p[k] = i)
    /\ Sorted(seq, w) = [k \in 1 .. N |-> seq[p[k]]]
    /\ \A k, l \in 1 .. N : k < l => p[k] # p[l] /\ w[p[k]] <= w[p[l]]

(* Sorted rearranges a sequence, each element once, the least first.       *)
LEMMA SortedOrder ==
    ASSUME NEW N \in Nat, NEW seq, DOMAIN seq = 1 .. N, NEW w, \A i \in 1 .. N : w[i] \in Int
    PROVE  \E p : Order(p, seq, w, N)
<1> DEFINE Prec(j, i) == w[j] < w[i] \/ (w[j] = w[i] /\ j < i)
           before(i) == {j \in 1 .. N : Prec(j, i)}
           rank == [i \in 1 .. N |-> Cardinality(before(i))]
           p == [k \in 1 .. N |-> CHOOSE i \in 1 .. N : rank[i] = k - 1]
<1>1. \A i, j, k \in 1 .. N : /\ ~Prec(i, i) /\ (Prec(i, j) /\ Prec(j, k) => Prec(i, k))
                              /\ i # j => Prec(i, j) \/ Prec(j, i)
  OBVIOUS
<1>2. ASSUME NEW i \in 1 .. N
      PROVE  /\ IsFiniteSet(before(i)) /\ Cardinality(before(i)) \in 0 .. N - 1
  <2>1. IsFiniteSet(1 .. N) /\ Cardinality(1 .. N) = N
    BY FS_Interval
  <2>2. IsFiniteSet((1 .. N) \ {i}) /\ Cardinality((1 .. N) \ {i}) = N - 1
    BY <2>1, FS_RemoveElement
  <2>3. before(i) \in SUBSET ((1 .. N) \ {i})
    BY <1>1
  <2> HIDE DEF before
  <2>4. IsFiniteSet(before(i)) /\ Cardinality(before(i)) <= N - 1
    BY <2>2, <2>3, FS_Subset
  <2>5. Cardinality(before(i)) \in Nat
    BY <2>4, FS_CardinalityType
  <2> QED
    BY <2>4, <2>5
<1>3. ASSUME NEW i \in 1 .. N, NEW j \in 1 .. N, Prec(j, i)
      PROVE  Cardinality(before(j)) < Cardinality(before(i))
  <2>1. before(j) \in SUBSET before(i) /\ j \in before(i) /\ j \notin before(j)
    BY <1>1, <1>3
  <2> HIDE DEF before
  <2>2. Cardinality(before(j)) <= Cardinality(before(i)) /\ Cardinality(before(i)) # Cardinality(before(j))
    BY <1>2, <2>1, FS_Subset
  <2> QED
    BY <1>2, <2>2
<1>4. rank \in [1 .. N -> 0 .. N - 1]
  <2> HIDE DEF before
  <2> QED
    BY <1>2
<1>5. \A i, j \in 1 .. N : Prec(j, i) => rank[j] < rank[i]
  <2> HIDE DEF before
  <2> QED
    BY <1>3
<1>6. Sorted(seq, w) = [k \in 1 .. N |-> seq[p[k]]]
  <2>1. Sorted(seq, w) = [k \in 1 .. N |-> seq[CHOOSE i \in 1 .. N : rank[i] = k - 1]]
    BY DEF Sorted
  <2> HIDE DEF rank
  <2> QED
    BY <2>1
<1> HIDE DEF rank, Prec
<1>7. \A i, j \in 1 .. N : rank[i] = rank[j] => i = j
  BY <1>1, <1>4, <1>5
<1>8. \A k \in 0 .. N - 1 : \E i \in 1 .. N : rank[i] = k
  BY <1>4, <1>7, RanksOnto
<1>9. p \in [1 .. N -> 1 .. N] /\ \A k \in 1 .. N : rank[p[k]] = k - 1
  <2>1. ASSUME NEW k \in 1 .. N PROVE p[k] \in 1 .. N /\ rank[p[k]] = k - 1
    <3>1. k - 1 \in 0 .. N - 1
      OBVIOUS
    <3>2. \E i \in 1 .. N : rank[i] = k - 1
      BY <1>8, <3>1
    <3> QED
      BY <3>2
  <2> QED
    BY <2>1
<1>10. ASSUME NEW k \in 1 .. N, NEW l \in 1 .. N, k < l
       PROVE  p[k] # p[l] /\ w[p[k]] <= w[p[l]]
  <2>1. p[k] \in 1 .. N /\ p[l] \in 1 .. N /\ rank[p[k]] = k - 1 /\ rank[p[l]] = l - 1
    BY <1>9
  <2>2. p[k] # p[l] /\ ~Prec(p[l], p[k])
    <3> HIDE DEF p
    <3> QED
      BY <1>5, <1>10, <2>1
  <2>3. Prec(p[k], p[l])
    BY <1>1, <2>1, <2>2
  <2> HIDE DEF p
  <2> QED
    BY <2>1, <2>2, <2>3 DEF Prec
<1>11. ASSUME NEW i \in 1 .. N PROVE \E k \in 1 .. N : p[k] = i
  <2> DEFINE k == rank[i] + 1
  <2>1. k \in 1 .. N /\ rank[i] = k - 1
    BY <1>4
  <2>2. p[k] \in 1 .. N /\ rank[p[k]] = k - 1
    BY <1>9, <2>1
  <2> HIDE DEF k, p
  <2>3. p[k] = i
    BY <1>7, <2>1, <2>2
  <2> QED
    BY <2>1, <2>3
<1>12. Order(p, seq, w, N)
  <2> HIDE DEF p
  <2> QED
    BY <1>6, <1>9, <1>10, <1>11 DEF Order
<1> QED
  BY <1>12

-----------------------------------------------------------------------------
(* What is selected: a route for some of the paths, no later one of them   *)
(* like an earlier one; seen is what each selected route left behind.      *)
Apart(routes) ==
    \A i, j \in DOMAIN routes : i < j => ~Similar(Stops(routes[j].segs), Stops(routes[i].segs))

Accepted(paths, N) ==
    {acc \in [routes : Seq({Route(paths[i], Segments(paths[i])) : i \in 1 .. N}),
              seen   : SUBSET {Stops(Segments(paths[i])) : i \in 1 .. N}] :
        (\A k \in DOMAIN acc.routes : Stops(acc.routes[k].segs) \in acc.seen) /\ Apart(acc.routes)}

(* One more path keeps the selection (rerouting.py 721-759): a route that  *)
(* is like an earlier one is not taken.                                    *)
LEMMA ConsiderKeeps ==
    ASSUME NEW N \in Nat, NEW paths, NEW acc \in Accepted(paths, N), NEW i \in 1 .. N
    PROVE  Consider(acc, paths[i]) \in Accepted(paths, N)
<1> DEFINE segs == Segments(paths[i])
           new == Stops(segs)
           route == Route(paths[i], segs)
           R == {Route(paths[j], Segments(paths[j])) : j \in 1 .. N}
           T == {Stops(Segments(paths[j])) : j \in 1 .. N}
           more == Append(acc.routes, route)
           seen == acc.seen \cup {new}
<1>1. /\ route \in R /\ new \in T /\ route.segs = segs
  BY DEF Route
<1>2. /\ acc.routes \in Seq(R) /\ acc.seen \subseteq T /\ Apart(acc.routes)
      /\ \A k \in DOMAIN acc.routes : Stops(acc.routes[k].segs) \in acc.seen
      /\ acc = [routes |-> acc.routes, seen |-> acc.seen]
  BY DEF Accepted
<1>3. \A a : a \in Accepted(paths, N) <=>
                /\ a \in [routes : Seq(R), seen : SUBSET T] /\ Apart(a.routes)
                /\ \A k \in DOMAIN a.routes : Stops(a.routes[k].segs) \in a.seen
  BY DEF Accepted
<1>4. Consider(acc, paths[i]) = IF \E old \in acc.seen : Similar(new, old) THEN acc
                                ELSE [routes |-> IF Marathon(segs) THEN acc.routes ELSE more, seen |-> seen]
  BY DEF Consider
<1>5. seen \subseteq T /\ \A k \in DOMAIN acc.routes : Stops(acc.routes[k].segs) \in seen
  BY <1>1, <1>2
<1> DEFINE n == Len(acc.routes)
<1>6. /\ n \in Nat /\ DOMAIN acc.routes = 1 .. n /\ DOMAIN more = 1 .. n + 1
      /\ more[n + 1] = route /\ \A k \in 1 .. n : more[k] = acc.routes[k]
  BY <1>2
<1>7. more \in Seq(R)
  BY <1>1, <1>2
<1> HIDE DEF R, T, more, seen, route, new, segs, n
<1>8. CASE \E old \in acc.seen : Similar(new, old)
  BY <1>4, <1>8
<1>9. CASE ~ \E old \in acc.seen : Similar(new, old)
  <2>1. Stops(route.segs) = new /\ new \in seen
    BY <1>1 DEF new, seen
  <2>2. \A k \in DOMAIN more : Stops(more[k].segs) \in seen
    BY <1>5, <1>6, <2>1
  <2>3. Apart(more)
    <3> SUFFICES ASSUME NEW j \in DOMAIN more, NEW k \in DOMAIN more, j < k
                 PROVE  ~Similar(Stops(more[k].segs), Stops(more[j].segs))
      BY DEF Apart
    <3>1. j \in 1 .. n /\ more[j] = acc.routes[j] /\ ((k \in 1 .. n /\ more[k] = acc.routes[k]) \/ more[k] = route)
      BY <1>6
    <3>2. CASE k \in 1 .. n /\ more[k] = acc.routes[k]
      BY <1>2, <1>6, <3>1, <3>2 DEF Apart
    <3>3. CASE more[k] = route
      BY <1>2, <1>6, <1>9, <2>1, <3>1, <3>3
    <3> QED
      BY <3>1, <3>2, <3>3
  <2>4. Consider(acc, paths[i]) = [routes |-> IF Marathon(segs) THEN acc.routes ELSE more, seen |-> seen]
    BY <1>4, <1>9
  <2> QED
    BY <1>2, <1>3, <1>5, <1>7, <2>2, <2>3, <2>4
<1> QED
  BY <1>8, <1>9

(* So what is selected is of some of the paths, and apart.                 *)
LEMMA SelectAccepts ==
    ASSUME NEW N \in Nat, NEW paths, DOMAIN paths = 1 .. N
    PROVE  \E acc \in Accepted(paths, N) : Select(paths) = acc.routes
<1> DEFINE V == Accepted(paths, N)
           base == [routes |-> <<>>, seen |-> {}]
           F == [p \in (1 .. N) \X V |-> Consider(p[2], paths[p[1]])]
           E(it) == it = [t \in SUBSET (1 .. N) |->
                            IF t = {} THEN base ELSE Consider(it[t \ {Max(t)}], paths[Max(t)])]
           it == CHOOSE it : E(it)
<1>1. F \in [(1 .. N) \X V -> V] /\ base \in V
  <2>1. ASSUME NEW i \in 1 .. N, NEW acc \in V PROVE Consider(acc, paths[i]) \in V
    BY ConsiderKeeps
  <2>2. base \in V
    BY DEF Accepted, Apart
  <2> HIDE DEF V, base
  <2> QED
    BY <2>1, <2>2
<1>2. Select(paths) = it[1 .. N].routes
  BY DEF Select, FoldLeft, MapThenFoldSet
<1> HIDE DEF V, base
<1>3. \E f : E(f)
  <2>1. PICK f : f \in [SUBSET (1 .. N) -> V] /\ Folds(f, N, base, F)
    <3> HIDE DEF E, F
    <3> QED
      BY <1>1, FoldExists
  <2>2. ASSUME NEW t \in SUBSET (1 .. N), t # {}
        PROVE  F[<<Max(t), f[t \ {Max(t)}]>>] = Consider(f[t \ {Max(t)}], paths[Max(t)])
    <3>1. Max(t) \in 1 .. N /\ t \ {Max(t)} \in SUBSET (1 .. N)
      BY <2>2, MaxOf
    <3>2. <<Max(t), f[t \ {Max(t)}]>> \in (1 .. N) \X V
      BY <2>1, <3>1
    <3> QED
      BY <3>2
  <2> HIDE DEF F
  <2>3. E(f)
    BY <2>1, <2>2 DEF Folds
  <2> HIDE DEF E
  <2> QED
    BY <2>3
<1>4. E(it)
  <2> HIDE DEF E
  <2> QED
    BY <1>3
<1>5. FoldsIn(it, N, V, base, F)
  <2> HIDE DEF it
  <2>1. it[{}] = base
    BY <1>4
  <2>2. ASSUME NEW t \in SUBSET (1 .. N), t # {}, it[t \ {Max(t)}] \in V
        PROVE  it[t] = F[<<Max(t), it[t \ {Max(t)}]>>]
    <3>1. Max(t) \in 1 .. N
      BY <2>2, MaxOf
    <3>2. it[t] = Consider(it[t \ {Max(t)}], paths[Max(t)])
      BY <1>4, <2>2
    <3>3. <<Max(t), it[t \ {Max(t)}]>> \in (1 .. N) \X V
      BY <2>2, <3>1
    <3> QED
      BY <3>2, <3>3
  <2> HIDE DEF F
  <2> QED
    BY <2>1, <2>2 DEF FoldsIn
<1>6. PICK g \in [0 .. N -> V] : g[N] = it[1 .. N] /\ Climbs(g, N, base, F)
  <2> HIDE DEF E, F, it
  <2> QED
    BY <1>1, <1>5, FoldClimbs
<1> HIDE DEF it
<1>7. g[N] \in V /\ Select(paths) = g[N].routes
  BY <1>2, <1>6
<1> QED
  BY <1>7 DEF V

-----------------------------------------------------------------------------
(* A path that the formatter is given, from a stop called a to one called  *)
(* b.                                                                      *)
Proper(rows, Names, Lines, a, b) ==
    \E n \in Nat : /\ IsPath(rows, n, Names, Lines) /\ Len(rows) = n /\ Boarded(rows, n)
                   /\ Through(rows, n, a, b) /\ OneLine(rows, n)

(* The segments of such a path show its rides.                             *)
LEMMA ProperRides ==
    ASSUME NEW Names, NEW Lines, NEW rows, NEW a, NEW b, Proper(rows, Names, Lines, a, b)
    PROVE  ShowsRides(Route(rows, Segments(rows)))
<1> DEFINE N == Len(rows)
           segs == Segments(rows)
           r == Route(rows, segs)
<1>1. N \in Nat /\ IsPath(rows, N, Names, Lines) /\ Boarded(rows, N) /\ OneLine(rows, N)
  BY DEF Proper
<1>2. /\ r.segs = segs /\ r.rows = rows
      /\ r.transfers = IF Rides(segs) = {} THEN 0 ELSE Cardinality(Rides(segs)) - 1
  BY DEF Route
<1> HIDE DEF N, segs, r
<1>3. /\ RidesAs(segs, rows, N) /\ Cardinality(Rides(segs)) = Cardinality(Boards(rows, N))
      /\ Rides(segs) = {} <=> Cardinality(Boards(rows, N)) = 0
  BY <1>1, SegmentsRide DEF segs
<1>4. ShowsRides(r)
  BY <1>2, <1>3 DEF ShowsRides, N
<1> QED
  BY <1>4 DEF r, segs

(* The segments of such a path are as long, and lead as far.               *)
LEMMA ProperLength ==
    ASSUME NEW m \in Measures, NEW Names, NEW Lines, NEW rows, NEW a, NEW b,
           Proper(rows, Names, Lines, a, b)
    PROVE  /\ Measure(m, Segments(rows)) = Length(m, rows) /\ Length(m, rows) \in Nat
           /\ Leads(Segments(rows), a, b)
<1>1. PICK n \in Nat : IsPath(rows, n, Names, Lines) /\ Boarded(rows, n) /\ Through(rows, n, a, b)
  BY DEF Proper
<1>2. Measure(m, Segments(rows)) = Length(m, rows) /\ Leads(Segments(rows), a, b)
  BY <1>1, LengthKept, SegmentsLead
<1> DEFINE w == [i \in DOMAIN rows |-> OfRow(m, rows[i])]
<1>3. w \in [1 .. n -> Nat] /\ Length(m, rows) = Sum(w)
  BY <1>1, OfNat DEF IsPath, Length
<1> HIDE DEF w
<1>4. PICK h : h \in [0 .. n -> Nat] /\ h[n] = Sum(w) /\ Sums(h, n, w)
  BY <1>3, SumSums
<1>5. n \in 0 .. n
  OBVIOUS
<1> QED
  BY <1>2, <1>3, <1>4, <1>5

(* A route of the offer: it shows one of the paths and its rides, takes    *)
(* its minutes and rides its metres.                                       *)
Shows(r, rows) ==
    /\ r.rows = rows /\ r.segs = Segments(rows) /\ r.tenths = Length("minutes", rows)
    /\ Ridden(r.segs) = Length("metres", rows) /\ Length("metres", rows) \in Nat
    /\ ShowsRides(r)

Ordered(routes) ==
    \A k, l \in DOMAIN routes :
        k < l => /\ routes[k].tenths <= routes[l].tenths
                 /\ ~(/\ Similar(Stops(routes[k].segs), Stops(routes[l].segs))
                      /\ Similar(Stops(routes[l].segs), Stops(routes[k].segs)))

(* Every route that is offered shows one of the paths and leads from where *)
(* they start to where they end; the quickest comes first, and no two are  *)
(* alike in both directions.                                               *)
LEMMA FormatOrders ==
    ASSUME NEW Names, NEW Lines, NEW N \in Nat, NEW paths, DOMAIN paths = 1 .. N,
           NEW a, NEW b, \A i \in 1 .. N : Proper(paths[i], Names, Lines, a, b)
    PROVE  /\ \A k \in DOMAIN Priced(Format(paths)) :
                 /\ \E i \in 1 .. N : Shows(Priced(Format(paths))[k], paths[i])
                 /\ Priced(Format(paths))[k].cost = Cost(Priced(Format(paths))[k])
                 /\ Leads(Priced(Format(paths))[k].segs, a, b)
           /\ Ordered(Priced(Format(paths)))
<1> DEFINE R == {Route(paths[i], Segments(paths[i])) : i \in 1 .. N}
           found == Select(paths)
           M == Len(found)
           w == [k \in DOMAIN found |-> found[k].tenths]
           routes == Priced(Format(paths))
<1>1. found \in Seq(R) /\ Apart(found)
  <2>1. PICK acc \in Accepted(paths, N) : found = acc.routes
    BY SelectAccepts
  <2>2. acc.routes \in Seq(R) /\ Apart(acc.routes)
    BY DEF Accepted
  <2> HIDE DEF found, R
  <2> QED
    BY <2>1, <2>2
<1>2. ASSUME NEW r \in R
      PROVE  (\E i \in 1 .. N : Shows(r, paths[i])) /\ r.tenths \in Nat /\ Leads(r.segs, a, b)
  <2>1. PICK i \in 1 .. N : r = Route(paths[i], Segments(paths[i]))
    OBVIOUS
  <2>2. r.rows = paths[i] /\ r.segs = Segments(paths[i]) /\ r.tenths = Total(Segments(paths[i]))
    BY <2>1 DEF Route
  <2>3. /\ Total(Segments(paths[i])) = Length("minutes", paths[i])
        /\ Length("minutes", paths[i]) \in Nat
        /\ Ridden(Segments(paths[i])) = Length("metres", paths[i])
        /\ Length("metres", paths[i]) \in Nat /\ Leads(Segments(paths[i]), a, b)
    <3>1. Proper(paths[i], Names, Lines, a, b) /\ "minutes" \in Measures /\ "metres" \in Measures
      BY DEF Measures
    <3>2. \A segs : Total(segs) = Measure("minutes", segs) /\ Ridden(segs) = Measure("metres", segs)
      BY DEF Total, Ridden, Rides, Measure, OfSeg
    <3> QED
      BY <3>1, <3>2, ProperLength
  <2>4. ShowsRides(r)
    BY <2>1, ProperRides
  <2> HIDE DEF R
  <2> QED
    BY <2>2, <2>3, <2>4 DEF Shows
<1>3. \A r \in R : r = [tenths |-> r.tenths, segs |-> r.segs, rows |-> r.rows, cost |-> r.cost,
                        transfers |-> r.transfers]
  BY DEF Route
<1> HIDE DEF R, found
<1>4. M \in Nat /\ DOMAIN found = 1 .. M /\ \A k \in 1 .. M : found[k] \in R
  BY <1>1
<1>5. \A k \in 1 .. M : w[k] = found[k].tenths /\ w[k] \in Int
  BY <1>2, <1>4
<1> HIDE DEF M, w
<1>6. Format(paths) = Sorted(found, w)
  BY DEF Format, found, w
<1>7. PICK p : Order(p, found, w, M)
  BY <1>4, <1>5, SortedOrder
<1> DEFINE sorted == Sorted(found, w)
<1>8. /\ DOMAIN sorted = 1 .. M /\ p \in [1 .. M -> 1 .. M]
      /\ \A k \in 1 .. M : sorted[k] = found[p[k]]
      /\ \A k, l \in 1 .. M : k < l => p[k] # p[l] /\ w[p[k]] <= w[p[l]]
  BY <1>7 DEF Order
<1>9. routes = [k \in DOMAIN sorted |-> [sorted[k] EXCEPT !.cost = Cost(sorted[k])]]
  BY <1>6 DEF Priced
<1> HIDE DEF sorted, routes
<1>10. \A k \in 1 .. M : sorted[k] \in R
  BY <1>4, <1>8
<1>11. /\ DOMAIN routes = 1 .. M
       /\ \A k \in 1 .. M : /\ routes[k].tenths = found[p[k]].tenths /\ routes[k].segs = found[p[k]].segs
                            /\ routes[k].rows = found[p[k]].rows /\ routes[k].cost = Cost(routes[k])
                            /\ routes[k].transfers = found[p[k]].transfers
  <2>1. ASSUME NEW k \in 1 .. M
        PROVE  /\ routes[k].tenths = found[p[k]].tenths /\ routes[k].segs = found[p[k]].segs
               /\ routes[k].rows = found[p[k]].rows /\ routes[k].cost = Cost(routes[k])
               /\ routes[k].transfers = found[p[k]].transfers
    <3>1. routes[k] = [sorted[k] EXCEPT !.cost = Cost(sorted[k])] /\ sorted[k] = found[p[k]]
      BY <1>8, <1>9
    <3>2. sorted[k] = [tenths |-> sorted[k].tenths, segs |-> sorted[k].segs, rows |-> sorted[k].rows,
                       cost |-> sorted[k].cost, transfers |-> sorted[k].transfers]
      BY <1>3, <1>10
    <3> DEFINE old == sorted[k]
               new == [old EXCEPT !.cost = Cost(old)]
    <3>3. /\ new.tenths = old.tenths /\ new.segs = old.segs /\ new.rows = old.rows
          /\ new.cost = Cost(old) /\ new.transfers = old.transfers
      <4> HIDE DEF old
      <4> QED
        BY <3>2 DEF old
    <3>4. Cost(new) = Cost(old)
      <4> HIDE DEF old, new
      <4> QED
        BY <3>3 DEF Cost
    <3> HIDE DEF new, old
    <3> QED
      BY <3>1, <3>3, <3>4 DEF new, old
  <2> QED
    BY <1>8, <1>9, <2>1
<1>12. ASSUME NEW k \in DOMAIN routes
       PROVE  /\ \E i \in 1 .. N : Shows(routes[k], paths[i])
              /\ routes[k].cost = Cost(routes[k]) /\ Leads(routes[k].segs, a, b)
  <2>1. k \in 1 .. M /\ p[k] \in 1 .. M /\ found[p[k]] \in R
    BY <1>4, <1>8, <1>11
  <2>2. Leads(found[p[k]].segs, a, b) /\ \E i \in 1 .. N : Shows(found[p[k]], paths[i])
    BY <1>2, <2>1
  <2> QED
    BY <1>11, <2>1, <2>2 DEF Shows, ShowsRides
<1>13. Ordered(routes)
  <2> SUFFICES ASSUME NEW k \in 1 .. M, NEW l \in 1 .. M, k < l
               PROVE  /\ routes[k].tenths <= routes[l].tenths
                      /\ ~(/\ Similar(Stops(routes[k].segs), Stops(routes[l].segs))
                           /\ Similar(Stops(routes[l].segs), Stops(routes[k].segs)))
    BY <1>11 DEF Ordered
  <2>1. /\ p[k] \in 1 .. M /\ p[l] \in 1 .. M /\ p[k] # p[l] /\ w[p[k]] <= w[p[l]]
        /\ routes[k].segs = found[p[k]].segs /\ routes[l].segs = found[p[l]].segs
        /\ routes[k].tenths = found[p[k]].tenths /\ routes[l].tenths = found[p[l]].tenths
    BY <1>8, <1>11
  <2>2. routes[k].tenths <= routes[l].tenths
    BY <1>5, <2>1
  <2>3. p[k] < p[l] \/ p[l] < p[k]
    BY <2>1
  <2>4. CASE p[k] < p[l]
    BY <1>1, <1>4, <2>1, <2>2, <2>4 DEF Apart
  <2>5. CASE p[l] < p[k]
    BY <1>1, <1>4, <2>1, <2>2, <2>5 DEF Apart
  <2> QED
    BY <2>3, <2>4, <2>5
<1> QED
  BY <1>12, <1>13 DEF routes

-----------------------------------------------------------------------------
(* The base of a ride is one of four.                                      *)
LEMMA BaseOneOf == ASSUME NEW seg PROVE Base(seg) \in {1200, 1500, 1550, 3000}
<1> DEFINE words == {Fare[l] : l \in seg.lines \cap DOMAIN Fare}
           hits == {i \in DOMAIN Kinds : Kinds[i] \in words}
<1>1. Base(seg) = IF hits = {} THEN 1500 ELSE Kinds[CHOOSE i \in hits : \A j \in hits : i <= j]
  BY DEF Base
<1>2. DOMAIN Kinds = 1 .. 3 /\ \A i \in 1 .. 3 : Kinds[i] \in {1200, 3000, 1550}
  BY DEF Kinds
<1>3. hits \subseteq {1, 2, 3}
  BY <1>2
<1> HIDE DEF hits
<1>4. hits # {} => \E i \in hits : \A j \in hits : i <= j
  <2>1. CASE 1 \in hits
    BY <1>3, <2>1
  <2>2. CASE 1 \notin hits /\ 2 \in hits
    BY <1>3, <2>2
  <2>3. CASE 1 \notin hits /\ 2 \notin hits
    <3>1. \A j \in hits : j = 3
      BY <1>3, <2>3
    <3> QED
      BY <3>1
  <2> QED
    BY <2>1, <2>2, <2>3
<1>5. hits # {} => (CHOOSE i \in hits : \A j \in hits : i <= j) \in hits
  BY <1>4, Zenon
<1>6. \A i \in hits : Kinds[i] \in {1200, 3000, 1550}
  BY <1>2, <1>3
<1> QED
  BY <1>1, <1>5, <1>6

(* The dearest base is that of a ride, if there is one.                    *)
LEMMA DearestOf ==
    ASSUME NEW segs
    PROVE  IF Rides(segs) = {} THEN Dearest(segs) = 0
           ELSE /\ \E i \in Rides(segs) : Dearest(segs) = Base(segs[i])
                /\ Dearest(segs) \in {1200, 1500, 1550, 3000}
                /\ \A i \in Rides(segs) : Base(segs[i]) <= Dearest(segs)
<1> DEFINE bases == {Base(segs[i]) : i \in Rides(segs)}
           All == {0} \cup bases
           Top(x) == x \in All /\ \A y \in All : x >= y
<1>1. Dearest(segs) = CHOOSE x \in All : \A y \in All : x >= y
  BY DEF Dearest, Max
<1>2. All \subseteq {0, 1200, 1500, 1550, 3000} /\ 0 \in All
  BY BaseOneOf
<1> HIDE DEF All
<1>3. \E x : Top(x)
  <2>1. CASE 3000 \in All
    BY <1>2, <2>1
  <2>2. CASE 3000 \notin All /\ 1550 \in All
    BY <1>2, <2>2
  <2>3. CASE 3000 \notin All /\ 1550 \notin All /\ 1500 \in All
    BY <1>2, <2>3
  <2>4. CASE 3000 \notin All /\ 1550 \notin All /\ 1500 \notin All
    BY <1>2, <2>4
  <2> QED
    BY <2>1, <2>2, <2>3, <2>4
<1>4. Dearest(segs) \in All /\ \A y \in All : Dearest(segs) >= y
  BY <1>1, <1>3
<1>5. CASE Rides(segs) = {}
  <2>1. All = {0}
    BY <1>5 DEF All
  <2> QED
    BY <1>4, <1>5, <2>1
<1>6. CASE Rides(segs) # {}
  <2>1. \A i \in Rides(segs) : Base(segs[i]) \in All /\ Base(segs[i]) \in {1200, 1500, 1550, 3000}
    BY BaseOneOf DEF All
  <2>2. Dearest(segs) # 0
    BY <1>2, <1>4, <1>6, <2>1
  <2>3. Dearest(segs) \in bases
    BY <1>4, <2>2 DEF All
  <2>4. \A i \in Rides(segs) : Base(segs[i]) <= Dearest(segs)
    BY <1>2, <1>4, <2>1
  <2> QED
    BY <1>6, <2>1, <2>3, <2>4
<1> QED
  BY <1>5, <1>6
=============================================================================
