------------------------------- MODULE Paths -------------------------------
(***************************************************************************)
(* What TransportApp makes of the paths that the three searches return     *)
(* (format_perfect_routing_paths of apps/mas02_reroute/rerouting.py) and   *)
(* what it says they cost (total_cost of tools.py).                        *)
(*                                                                         *)
(* A path is a sequence of rows, one per link of the network, with         *)
(*   rel    BOARD, NEXT_STOP, ALIGHT or TRANSFER                           *)
(*   from, to   the names of the two stops; two stops can share a name     *)
(*   lines  the line waited for (BOARD), the lines on the link (NEXT_STOP) *)
(*   sec, dist  how long it takes and how long it is, in metres            *)
(* Minutes are kept in tenths, as they are rounded to one decimal; lines   *)
(* are sets, which the code sorts for display.                             *)
(***************************************************************************)
EXTENDS Integers, FiniteSets, Sequences, SequencesExt

CONSTANTS
    Core,    \* the stop names, each with its name without exit and remark
    FakeIds, \* lines that are only an identifier of five digits or more
    Unknown, \* the name given to a line without one
    Fare     \* the base fare of each line, by the words in its name

Rides(segs) == {i \in DOMAIN segs : segs[i].type = "TRANSIT"}
Sum(numbers) == FoldLeft(LAMBDA acc, n : acc + n, 0, numbers)
Elems(seq) == {seq[i] : i \in DOMAIN seq}

(* A sequence by the weights of its elements, the least first; those of    *)
(* one weight stay in their order.                                         *)
Sorted(seq, w) ==
    LET before(i) == {j \in DOMAIN seq : w[j] < w[i] \/ (w[j] = w[i] /\ j < i)}
        rank == [i \in DOMAIN seq |-> Cardinality(before(i))]
    IN [k \in DOMAIN seq |-> seq[CHOOSE i \in DOMAIN seq : rank[i] = k - 1]]

(* round(sec / 60, 1); no duration used here lies half-way between tenths. *)
Tenths(sec) == (sec + 3) \div 6

-----------------------------------------------------------------------------
(* One pass over the rows: segs are the finished segments, cur is the ride *)
(* in progress, active the lines that run on all its links so far.         *)
NoRide == [type |-> "NONE"]
Start  == [segs |-> <<>>, cur |-> NoRide, active |-> {}, first |-> FALSE]

Closed(acc) == IF acc.cur = NoRide THEN acc.segs
               ELSE Append(acc.segs, [acc.cur EXCEPT !.lines = acc.active])

Seg(type, row, stops) == [type |-> type, lines |-> {}, tenths |-> Tenths(row.sec), dist |-> 0,
                          stops |-> 0, stations |-> stops]

Visit(stations, name) == IF name \in Elems(stations) THEN stations ELSE Append(stations, name)

Board(acc, row) ==
    [segs |-> Closed(acc), cur |-> Seg("TRANSIT", row, <<row.from>>), first |-> TRUE,
     active |-> IF row.lines = {} THEN {Unknown} ELSE row.lines]

MUT_FirstLink(acc, row) ==
    [acc EXCEPT !.cur.tenths = @ + Tenths(row.sec), !.cur.dist = @ + row.dist,
                !.cur.stops = @ + 1, !.cur.stations = Visit(@, row.to),
                !.active = IF acc.first THEN row.lines \ FakeIds ELSE @, !.first = FALSE]

Ride(acc, row) ==
    LET named == row.lines \ FakeIds
        kept  == IF acc.first THEN named ELSE acc.active \cap named IN
    [acc EXCEPT !.cur.tenths = @ + Tenths(row.sec), !.cur.dist = @ + row.dist,
                !.cur.stops = @ + 1, !.cur.stations = Visit(@, row.to),
                !.active = IF named = {} THEN @ ELSE kept, !.first = FALSE]

Alight(acc, row) ==
    [acc EXCEPT !.cur.tenths = @ + Tenths(row.sec), !.cur.stations = Visit(@, row.to)]

Walk(acc, row) ==
    LET seg == [Seg("TRANSFER", row, <<row.from, row.to>>) EXCEPT !.dist = row.dist] IN
    [Start EXCEPT !.segs = Append(Closed(acc), seg)]

Read(acc, row) ==
    CASE row.rel = "BOARD"    -> Board(acc, row)
      [] row.rel = "TRANSFER" -> Walk(acc, row)
      [] row.rel = "NEXT_STOP" /\ acc.cur # NoRide -> Ride(acc, row)
      [] row.rel = "ALIGHT" /\ acc.cur # NoRide -> Alight(acc, row)
      [] OTHER -> acc

Compress(rows) == Closed(FoldLeft(Read, Start, rows))

-----------------------------------------------------------------------------
(* Walks that follow each other become one; a walk of no time between two  *)
(* stops of one name goes; a name is not shown twice in a row.             *)
NoMove(seg) == seg.type = "TRANSFER" /\ seg.tenths = 0 /\ Head(seg.stations) = Last(seg.stations)

MUT_JoinTime(prev, seg) ==
    [prev EXCEPT !.dist = @ + seg.dist, !.stations = <<Head(@), Last(seg.stations)>>]

MUT_JoinStops(prev, seg) == [prev EXCEPT !.tenths = @ + seg.tenths, !.dist = @ + seg.dist]

Join(prev, seg) ==
    [prev EXCEPT !.tenths = @ + seg.tenths, !.dist = @ + seg.dist,
                 !.stations = <<Head(@), Last(seg.stations)>>]

Show(out, name) == IF out # <<>> /\ Last(out) = name THEN out ELSE Append(out, name)

Tidy(seg) == [seg EXCEPT !.stations = FoldLeft(Show, <<>>, @)]

Put(out, seg) ==
    IF NoMove(seg) THEN out
    ELSE IF out # <<>> /\ Last(out).type = "TRANSFER" /\ seg.type = "TRANSFER"
    THEN Append(Front(out), Join(Last(out), seg))
    ELSE Append(out, seg)

Segments(rows) ==
    LET merged == FoldLeft(Put, <<>>, Compress(rows))
    IN [i \in DOMAIN merged |-> Tidy(merged[i])]

(* What the segments should do: lead from a name to another without a gap. *)
(* A walk ends at its last stop, a ride at a stop it shows: not always at  *)
(* its last, since a stop whose name was passed before is not shown again. *)
EndsAt(seg, name) == IF seg.type = "TRANSIT" THEN name \in ToSet(seg.stations)
                     ELSE Last(seg.stations) = name

Leads(segs, a, b) ==
    IF segs = <<>> THEN a = b
    ELSE /\ Head(segs[1].stations) = a /\ EndsAt(Last(segs), b)
         /\ \A i \in 1 .. Len(segs) - 1 : EndsAt(segs[i], Head(segs[i + 1].stations))

(* And show the rides of the path, in their order.  A row boards a ride,   *)
(* which goes over the links after it, up to the next row that boards or   *)
(* walks; here among the first n rows.                                     *)
Boards(rows, n) == {b \in 1 .. n : rows[b].rel = "BOARD"}

LinksRidden(rows, b, n) ==
    {j \in b + 1 .. n : /\ rows[j].rel = "NEXT_STOP"
                        /\ \A k \in b + 1 .. j : rows[k].rel \notin {"BOARD", "TRANSFER"}}

(* A ride begins where it is boarded, counts and shows the stops it passes *)
(* and says lines that run on each of its links, where a line has a name;  *)
(* among them is the line waited for, if that has one.                     *)
ShowsRide(seg, rows, b, n) ==
    /\ Head(seg.stations) = rows[b].from
    /\ seg.stops = Cardinality(LinksRidden(rows, b, n))
    /\ \A j \in LinksRidden(rows, b, n) :
          /\ rows[j].to \in ToSet(seg.stations)
          /\ seg.lines \subseteq rows[j].lines \/ rows[j].lines \subseteq FakeIds
    /\ rows[b].lines \cap FakeIds = {} => rows[b].lines \subseteq seg.lines

(* The ways to match two sets of numbers in their order.                   *)
InOrder(R, B) ==
    {at \in [R -> B] : /\ \A b \in B : \E i \in R : at[i] = b
                      /\ \A i, j \in R : i < j => at[i] < at[j]}

RidesAs(segs, rows, n) ==
    \E at \in InOrder(Rides(segs), Boards(rows, n)) :
        \A i \in Rides(segs) : ShowsRide(segs[i], rows, at[i], n)

ShowsRides(r) ==
    LET boards == Cardinality(Boards(r.rows, Len(r.rows))) IN
    /\ RidesAs(r.segs, r.rows, Len(r.rows))
    /\ r.transfers = IF boards = 0 THEN 0 ELSE boards - 1

-----------------------------------------------------------------------------
(* A route is left out when 85 per cent of its stops are on an earlier     *)
(* candidate, or when it walks more than 400 m between rides.  A candidate *)
(* counts as earlier before its walks are looked at.                       *)
Stops(segs) == {Core[n] : n \in UNION {Elems(segs[i].stations) : i \in DOMAIN segs}}

Similar(new, old) ==
    new # {} /\ (100 * Cardinality(new \cap old) >= 85 * Cardinality(new) \/ new \subseteq old)

Marathon(segs) ==
    \E i \in 2 .. Len(segs) - 1 : segs[i].type = "TRANSFER" /\ segs[i].dist > 400

Total(segs) == Sum([i \in DOMAIN segs |-> segs[i].tenths])

(* It has no price yet.                                                    *)
Route(rows, segs) ==
    [tenths |-> Total(segs), segs |-> segs, rows |-> rows, cost |-> 0,
     transfers |-> IF Rides(segs) = {} THEN 0 ELSE Cardinality(Rides(segs)) - 1]

MUT_NotRecorded(acc, rows) ==
    LET segs == Segments(rows)
        new  == Stops(segs) IN
    IF \E old \in acc.seen : Similar(new, old) THEN acc
    ELSE [acc EXCEPT !.routes = IF Marathon(segs) THEN @ ELSE Append(@, Route(rows, segs))]

Consider(acc, rows) ==
    LET segs == Segments(rows)
        new  == Stops(segs) IN
    IF \E old \in acc.seen : Similar(new, old) THEN acc
    ELSE [routes |-> IF Marathon(segs) THEN acc.routes ELSE Append(acc.routes, Route(rows, segs)),
          seen |-> acc.seen \cup {new}]

Select(paths) == FoldLeft(Consider, [routes |-> <<>>, seen |-> {}], paths).routes

(* The quickest first; those that take as long stay in the order found.    *)
Format(paths) ==
    LET found == Select(paths) IN Sorted(found, [i \in DOMAIN found |-> found[i].tenths])

-----------------------------------------------------------------------------
(* The fare: the highest base of the rides, and 100 for each 5 km begun    *)
(* beyond 10 km.  A ride is of one kind: that of the dearest word that     *)
(* total_cost finds in its joined lines, tested in the order below.        *)
Kinds == <<1200, 3000, 1550>>

Base(seg) ==
    LET words == {Fare[l] : l \in seg.lines \cap DOMAIN Fare}
        hits  == {i \in DOMAIN Kinds : Kinds[i] \in words}
    IN IF hits = {} THEN 1500 ELSE Kinds[CHOOSE i \in hits : \A j \in hits : i <= j]

Dearest(segs) == Max({0} \cup {Base(segs[i]) : i \in Rides(segs)})
Ridden(segs) == Sum([i \in DOMAIN segs |-> IF i \in Rides(segs) THEN segs[i].dist ELSE 0])

MUT_Floor(route) ==
    LET base  == Dearest(route.segs)
        over  == Ridden(route.segs) - 10000
        extra == IF over > 0 THEN (over \div 5000) * 100 ELSE 0
    IN IF base = 0 THEN 0 ELSE base + extra

Cost(route) ==
    LET base  == Dearest(route.segs)
        over  == Ridden(route.segs) - 10000
        extra == IF over > 0 THEN ((over + 4999) \div 5000) * 100 ELSE 0
    IN IF base = 0 THEN 0 ELSE base + extra

Priced(routes) == [k \in DOMAIN routes |-> [routes[k] EXCEPT !.cost = Cost(routes[k])]]
=============================================================================
