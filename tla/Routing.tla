------------------------------ MODULE Routing ------------------------------
(***************************************************************************)
(* The routing agent of MAS02: the three projections of the transport      *)
(* graph that TransportApp builds at the start, the searches it runs on    *)
(* them (apps/mas02_reroute/rerouting.py) and the agent that works out     *)
(* where a user's detour begins and ends, searches, formats and prices the *)
(* routes (apps/mas02_reroute/agents.py).                                  *)
(*                                                                         *)
(* Neo4j holds the network: masters, which are what a passenger calls a    *)
(* stop, and platforms, one per stop and line.  Incidents affect           *)
(* platforms.  A projection is represented by the platforms that were      *)
(* affected when it was built, since nothing else in it changes.           *)
(***************************************************************************)
EXTENDS Paths

CONSTANTS
    Master,     \* stops
    Platform,   \* their platforms
    Name,       \* the name of each node
    Line,       \* the line of each platform
    Subway,     \* the nodes whose type is SUBWAY
    Barred,     \* those whose id begins with SUBWAY: of the masters, if any
    Links,      \* [src, dst, rel, sec, dist]
    Passages,   \* the walks among them whose sub_type is SUBWAY_TRANSFER
    Footprints, \* the sets of platforms an incident can affect
    Trips,      \* the remaining stops of a user's trip, see Located
    Station,    \* "서울역", the last resort for a destination
    ModelBound, \* whether config carries the model client the agent calls
    NoNode,     \* no such node
    NoGraph     \* there is no such projection

ASSUME ProjectionAssumption ==
    /\ \A s \in SUBSET Platform : s # NoGraph
    /\ \A f \in Footprints : f \subseteq Platform

(* Neo4j holds a finite network.  The queries read it as masters and       *)
(* platforms: boarding leads from one to the other, a ride from platform   *)
(* to platform, alighting back, and walks from master to master.           *)
ASSUME NetworkAssumption ==
    /\ IsFiniteSet(Master) /\ IsFiniteSet(Platform) /\ Master \cap Platform = {}
    /\ IsFiniteSet(Links)
    /\ \A l \in Links :
          /\ l.rel \in {"BOARD", "NEXT_STOP", "ALIGHT", "TRANSFER"}
          /\ l.src \in (IF l.rel \in {"BOARD", "TRANSFER"} THEN Master ELSE Platform)
          /\ l.dst \in (IF l.rel \in {"ALIGHT", "TRANSFER"} THEN Master ELSE Platform)
          /\ l.sec \in Nat /\ l.dist \in Nat

(* A platform is of one route and NEXT_STOP joins those of one (its own    *)
(* route_id is what rerouting.py 286 names the link by, agents_new.py 482  *)
(* follows it from platform to platform of a line).                        *)
ASSUME LineAssumption == \A l \in Links : l.rel = "NEXT_STOP" => Line[l.src] = Line[l.dst]

ASSUME TripsAssumption ==
    /\ Station \in Master /\ ModelBound \in BOOLEAN
    /\ \A trip \in Trips : \A i \in DOMAIN trip :
            trip[i].id \in Master \cup {NoNode} /\ trip[i].near \in Master \cup {NoNode}

VARIABLES
    affected,   \* platforms with an AFFECTED_BY relation
    proj,       \* for each projection, the platforms affected when it was built
    built,      \* history: the projections that this start has built
    job,        \* the agent at work
    offer       \* history: the last routes, and what was affected at their search

routing == <<affected, proj, built, job, offer>>

Graph  == 1 .. 3
NoJob  == [at |-> "idle", from |-> NoNode, to |-> NoNode, found |-> <<>>, known |-> {}]
NoOffer == [routes |-> <<>>, known |-> {}, first |-> <<>>, from |-> NoNode, to |-> NoNode]

Snapshots == {UNION fs : fs \in SUBSET Footprints}

(* Incidents and projections are what former processes left: a start that  *)
(* failed half-way leaves some of the projections and not the others.      *)
RoutingInit ==
    /\ affected \in Snapshots
    /\ proj \in [Graph -> {NoGraph, {}}] /\ built = {}
    /\ job = NoJob /\ offer = NoOffer

-----------------------------------------------------------------------------
(* Weights, in twentieths of a second.  An incident adds an hour to each   *)
(* link that touches an affected platform, except to walks.                *)
Penalty == 20 * 3600

Touches(l, aff) == \/ l.dst \in aff
                   \/ l.src \in aff /\ l.rel # "BOARD"

OnSubway(l) == l.src \in Subway \/ l.dst \in Subway

WalkWeight(k, sec) ==
    CASE k = 1 -> IF sec > 180 THEN 20 * (1170 + 10 * (sec - 180)) ELSE 20 * 300 + 24 * sec
      [] k = 2 -> IF sec > 180 THEN 20 * (2100 + 15 * (sec - 180)) ELSE 20 * 120 + 22 * sec
      [] OTHER -> 20 * sec

RideWeight(k, l) ==
    IF l.rel = "BOARD"
    THEN CASE k # 2                      -> 20 * (l.sec + 120)
           [] k = 2 /\ l.dst \in Subway    -> 2 * l.sec
           [] k = 2 /\ l.dst \notin Subway -> 20 * (l.sec + 720)
    ELSE IF k = 2 /\ OnSubway(l) THEN 5 * l.sec ELSE 20 * l.sec

MUT_SourceOnly(k, l, aff) ==
    IF l.rel = "TRANSFER" THEN WalkWeight(k, l.sec)
    ELSE RideWeight(k, l) + (IF l.src \in aff /\ l.rel = "ALIGHT" THEN Penalty ELSE 0)

Weight(k, l, aff) ==
    IF l.rel = "TRANSFER" THEN WalkWeight(k, l.sec)
    ELSE RideWeight(k, l) + (IF Touches(l, aff) THEN Penalty ELSE 0)

(* The third projection leaves the subway out by the ids of the nodes, not *)
(* by their type: platforms have ids like 1907_1호선 and stay in it.        *)
OffBarred(l) == l.src \notin Barred /\ l.dst \notin Barred
LinksOf(k)   == IF k = 3 THEN {l \in Links \ Passages : OffBarred(l)} ELSE Links

-----------------------------------------------------------------------------
(* All paths without a repeated node, as sequences of links.  Dijkstra's   *)
(* and Yen's algorithms run in the Graph Data Science library; their       *)
(* results are the first and the first 15 of these by weight.              *)
Nodes(p) == {p[i].src : i \in DOMAIN p} \cup {p[i].dst : i \in DOMAIN p}

PathsFrom(k, s) ==
    LET longer[n \in 1 .. Cardinality(Master \cup Platform)] ==
            IF n = 1 THEN {<<l>> : l \in {l \in LinksOf(k) : l.src = s}}
            ELSE UNION {{Append(p, l) : l \in {l \in LinksOf(k) : l.src = Last(p).dst
                                                                  /\ l.dst \notin Nodes(p)}}
                        : p \in longer[n - 1]}
    IN UNION {longer[n] : n \in DOMAIN longer}

AllPaths == [k \in Graph |-> [s \in Master |-> PathsFrom(k, s)]]

PathWeight(k, p, aff) == Sum([i \in DOMAIN p |-> Weight(k, p[i], aff)])

Listed(set) == FoldSet(LAMBDA x, seq : Append(seq, x), <<>>, set)

Shortest(k, s, t, aff) ==
    LET ways == Listed({p \in AllPaths[k][s] : Last(p).dst = t})
    IN Sorted(ways, [i \in DOMAIN ways |-> PathWeight(k, ways[i], aff)])

Upto(seq, n) == SubSeq(seq, 1, IF Len(seq) < n THEN Len(seq) ELSE n)

(* A path is kept when enough of its links are new.                        *)
Diverse(paths, always, percent) ==
    LET Keep(acc, p) ==
            LET common == Elems(p) \cap UNION {Elems(acc[i]) : i \in DOMAIN acc} IN
            IF Len(acc) < always \/ 100 * Cardinality(common) <= percent * Len(p)
            THEN Append(acc, p) ELSE acc
    IN FoldLeft(Keep, <<>>, paths)

(* The lines that go from one stop to the next as this link does.  A       *)
(* platform's stop is found by the front of its id, which none has whose   *)
(* own id begins with SUBWAY.                                              *)
Sharing(l) ==
    {Line[m.src] : m \in {m \in Links :
        /\ m.rel = "NEXT_STOP"
        /\ \E b, c \in Links : /\ b.rel = "BOARD" /\ c.rel = "BOARD" /\ OffBarred(b)
                               /\ b.dst = m.src /\ c.dst = l.src /\ c.src = b.src
        /\ \E a, c \in Links : /\ a.rel = "ALIGHT" /\ c.rel = "ALIGHT" /\ OffBarred(a)
                               /\ a.src = m.dst /\ c.src = l.dst /\ c.dst = a.dst}}

Row(k, l) ==
    [rel |-> l.rel, from |-> Name[l.src], to |-> Name[l.dst], from_id |-> l.src, to_id |-> l.dst,
     sec |-> l.sec, dist |-> l.dist,
     lines |-> CASE l.rel = "BOARD" -> {Line[l.dst]}
                 [] l.rel = "NEXT_STOP" ->
                       {Line[l.src]} \cup (IF k = 3 THEN {} ELSE Sharing(l))
                 [] OTHER -> {}]

Records(k, paths) == [i \in DOMAIN paths |-> [j \in DOMAIN paths[i] |-> Row(k, paths[i][j])]]

(* get_optimal_path1, 2 and 3.  The first has one path, which it gives up  *)
(* when it begins with a walk.                                             *)
Search(k, s, t, aff) ==
    LET best == Shortest(k, s, t, aff) IN
    CASE k = 1 -> Records(1, IF best # <<>> /\ Head(best[1]).rel = "BOARD" THEN <<best[1]>> ELSE <<>>)
      [] k = 2 -> Records(2, Diverse(Upto(best, 15), 3, 85))
      [] k = 3 -> Records(3, Diverse(Upto(best, 15), 1, 80))

Results   == [q \in Graph \X Master \X Master \X Snapshots |-> Search(q[1], q[2], q[3], q[4])]

-----------------------------------------------------------------------------
(* Projections.  They live in Neo4j and outlive the process that built     *)
(* them; an exception of a drop is swallowed, and a projection that is     *)
(* still there makes the first build raise.  The other two builds drop     *)
(* theirs once more.                                                       *)
Drop(k) ==
    /\ proj' = [proj EXCEPT ![k] = NoGraph] /\ built' = built \ {k}
    /\ UNCHANGED <<affected, job, offer>>

CanBuild(k) == k # 1 \/ proj[k] = NoGraph

Build(k) ==
    /\ CanBuild(k)
    /\ proj' = [proj EXCEPT ![k] = affected] /\ built' = built \cup {k}
    /\ UNCHANGED <<affected, job, offer>>

(* MAS01 applies an incident; the server's start removes all of them.      *)
Affect ==
    /\ \E f \in Footprints : affected' = affected \cup f
    /\ UNCHANGED <<proj, built, job, offer>>

Wipe == affected' = {} /\ UNCHANGED <<proj, built, job, offer>>

-----------------------------------------------------------------------------
(* The agent.  A stop of the trip has the master the lookup by its number  *)
(* or name gives (id), the nearest within 1 km (near), either NoNode if    *)
(* there is none, and may lack coordinates.  The language model picks the  *)
(* start among them, or something else; nothing checks its choice.         *)
Located(trip) == {i \in DOMAIN trip : trip[i].located}

MUT_NoLastResort(stop) == IF stop.id # NoNode THEN stop.id ELSE stop.near

Arrival(stop) == IF stop.id # NoNode THEN stop.id
                 ELSE IF stop.near # NoNode THEN stop.near ELSE Station

(* Nodes 1 to 3; the trip ends at its last located stop.  An answer that   *)
(* is no JSON, or a trip without such a stop, raises and leaves nothing;   *)
(* so does an agent without the model client.                              *)
Begin ==
    /\ job.at = "idle" /\ ModelBound
    /\ \E trip \in Trips : \E last \in Located(trip) :
        /\ \A i \in Located(trip) : i <= last
        /\ \E s \in {trip[i].id : i \in DOMAIN trip} \cup {NoNode} :
            job' = [NoJob EXCEPT !.at = "search1", !.from = s, !.to = Arrival(trip[last]),
                                 !.known = affected]
    /\ offer' = NoOffer /\ UNCHANGED <<affected, proj, built>>

After == [search1 |-> "search2", search2 |-> "search3", search3 |-> "format"]
Found(k) == IF proj[k] = NoGraph \/ job.from \notin Master \/ job.to \notin Master
            THEN <<>> ELSE Results[<<k, job.from, job.to, proj[k]>>]

(* One search; whatever goes wrong in it gives no paths.                   *)
Searched(k, paths) ==
    /\ job.at = <<"search1", "search2", "search3">>[k]
    /\ job' = [job EXCEPT !.at = After[@], !.found = Append(@, paths)]
    /\ UNCHANGED <<affected, proj, built, offer>>

RunSearch(k) == Searched(k, Found(k))
SkipSearch(k) == Searched(k, <<>>)

(* Node 4 formats what was found, node 5 prices it.                        *)
Finish ==
    /\ job.at = "format"
    /\ offer' = [routes |-> Priced(Format(job.found[1] \o job.found[2] \o job.found[3])), known |-> job.known,
                 first |-> job.found[1], from |-> job.from, to |-> job.to]
    /\ job' = NoJob
    /\ UNCHANGED <<affected, proj, built>>

(* Anything but a search that raises ends the agent.                       *)
Abandon == job.at # "idle" /\ job' = NoJob /\ UNCHANGED <<affected, proj, built, offer>>

Agent == Begin \/ (\E k \in Graph : RunSearch(k)) \/ Finish
=============================================================================
