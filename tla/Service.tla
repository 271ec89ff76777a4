------------------------------ MODULE Service ------------------------------
(***************************************************************************)
(* The process and the routing agent together: the start prepares the      *)
(* graph that the agent searches, and the tasks it starts run the agent    *)
(* and apply incidents to the graph.                                       *)
(***************************************************************************)
EXTENDS Lifecycle, Routing

vars == <<lifecycle, routing>>

Init == LifecycleInit /\ RoutingInit

(* What the step of the preparation that is due does to Neo4j.             *)
StepEffect ==
    \/ Doing = "wipe" /\ Wipe
    \/ \E k \in Graph : Doing = <<"drop1", "drop2", "drop3">>[k] /\ Drop(k)
    \/ \E k \in Graph : Doing = <<"build1", "build2", "build3">>[k] /\ Build(k)

(* The agent runs in the consumer or in the patrol.  Only the daemon binds *)
(* config.app: in the server the first search raises.                      *)
AgentTask == task["consumer"] = "on" \/ task["patrol"] = "on"

StartStep   == Starting /\ UNCHANGED routing
PrepareStep == Prepare /\ StepEffect

(* The step raises, executed or not; building over a projection that is    *)
(* still there always raises.                                              *)
PrepareFails ==
    /\ PrepareRaises
    /\ \/ Fail /\ (StepEffect \/ UNCHANGED routing)
       \/ Doing = "build1" /\ ~CanBuild(1) /\ UNCHANGED <<routing, failures>>

Incident == (task["stream"] = "on" \/ task["notice"] = "on") /\ Affect /\ UNCHANGED lifecycle

AgentStep ==
    /\ AgentTask /\ UNCHANGED lifecycle
    /\ Begin \/ (mode = "daemon" /\ Agent)

SearchFails ==
    /\ AgentTask /\ mode = "daemon" /\ (\E k \in Graph : SkipSearch(k))
    /\ Fail /\ UNCHANGED <<mode, main, up, step, task, shut, signals>>

AgentFails == Abandon /\ UNCHANGED lifecycle

Next == \/ StartStep \/ PrepareStep \/ PrepareFails \/ Incident \/ AgentStep \/ SearchFails \/ AgentFails
        \/ Signal /\ UNCHANGED routing
        \/ Stopping /\ UNCHANGED routing

Spec == Init /\ [][Next]_vars

(* The event loop runs what is ready, and calls of the start and the stop  *)
(* return or raise.                                                        *)
FairSpec == Spec /\ WF_vars(StartStep) /\ WF_vars(PrepareStep \/ PrepareFails)
                 /\ WF_vars(Stopping /\ UNCHANGED routing)

-----------------------------------------------------------------------------
TypeOK ==
    /\ mode \in DOMAIN Steps /\ step \in 0 .. Len(Steps[mode])
    /\ main \in {"open", "load", "prepare", "run", "close", "cancel", "gather", "cancelled",
                 "returned", "exited", "failed"}
    /\ up \subseteq Connection /\ task \in [Task -> {"off", "on", "cancelled"}]
    /\ shut \in {"none", "wait"} /\ signals \in 0 .. MaxSignals /\ failures \in 0 .. MaxFailures
    /\ affected \subseteq Platform /\ proj \in [Graph -> (SUBSET Platform) \cup {NoGraph}]
    /\ built \subseteq Graph
    /\ job.at \in {"idle", "search1", "search2", "search3", "format"}
    /\ job.from \in Master \cup {NoNode} /\ job.to \in (IF job.at = "idle" THEN {NoNode} ELSE Master)

(* Tasks are only started when every connection is open and the graph is   *)
(* prepared: a connection or a projection that fails ends the start        *)
(* (config.py 141-143 and 176-178, rerouting.py 100-102).  So a search of  *)
(* the daemon never meets a missing projection, whatever failed before it. *)
WorkersReady ==
    \A t \in Started :
        task[t] = "on" /\ main = "run" =>
            /\ up = Connection
            /\ mode = "daemon" => \A k \in Graph : proj[k] # NoGraph

(* A projection that a former process left in Neo4j is not searched by     *)
(* this one: when the daemon runs, all three are of its own start, built   *)
(* with what was affected then, and alike (rerouting.py 100-102, 164-166   *)
(* and 216-218 raise again).  A drop that failed and left one behind ends  *)
(* the start or is made up for.                                            *)
OneSnapshot ==
    mode = "daemon" /\ main = "run" =>
        \A k \in Graph : k \in built /\ proj[k] = proj[1] /\ proj[k] \subseteq affected

(* When the server ends and no call failed, nothing is left open.          *)
ServerClosesAll == mode = "server" /\ main = "exited" /\ failures = 0 => up = {}

-----------------------------------------------------------------------------
(* What every step of the start and the stop keeps.                        *)
NoneStarted == main \in {"open", "load", "prepare", "failed"} => \A t \in Task : task[t] = "off"

WhatIsOpen ==
    /\ main = "open" => \E n \in DOMAIN OpenOrder : up = Opened(n - 1)
    /\ main \in {"load", "prepare", "run", "cancelled", "returned"} => up = Connection
    /\ main = "close" => \E n \in DOMAIN CloseOrder : up = StillOpen(n)
    /\ main \in {"cancel", "gather"} => up = {}

WhoseEnd ==
    /\ main \in {"close", "cancel", "gather"} => mode = "server"
    /\ main \in {"cancelled", "returned"} => mode = "daemon"

(* Nothing is affected while the daemon builds, since no task is on yet.   *)
BuiltAlike ==
    mode = "daemon" =>
        /\ main \in {"open", "load"} => step = 0
        /\ main = "prepare" => \A k \in Graph : step >= 3 + k => k \in built /\ proj[k] = affected
        /\ main = "run" => \A k \in Graph : /\ k \in built /\ proj[k] = proj[1]
                                             /\ proj[k] # NoGraph /\ proj[k] \subseteq affected

JobShape == job = [at |-> job.at, from |-> job.from, to |-> job.to, found |-> job.found, known |-> job.known]

ServiceInv == TypeOK /\ NoneStarted /\ WhatIsOpen /\ WhoseEnd /\ ServerClosesAll /\ BuiltAlike /\ JobShape

(* After a signal the process ends (main.py 59-83, run_pipeline.py 11-21). *)
StopsOnSignal == signals > 0 ~> main \in {"exited", "failed"}

-----------------------------------------------------------------------------
RowsAvoid(rows, aff) == \A i \in DOMAIN rows : rows[i].from_id \notin aff /\ rows[i].to_id \notin aff

(* The minutes of a route are those of all its links, each rounded on its  *)
(* own: compressing and merging lose none and count none twice             *)
(* (rerouting.py 612-709).                                                 *)
MinutesConserved ==
    \A k \in DOMAIN offer.routes :
        LET r == offer.routes[k] IN r.tenths = Sum([i \in DOMAIN r.rows |-> Tenths(r.rows[i].sec)])

(* The segments of a route lead from the start to the destination without  *)
(* a gap, although walks were merged and walks of no time left out: each   *)
(* begins where the one before it ends (rerouting.py 612-709).  A route    *)
(* without segments leads from a stop to one of the same name.             *)
RoutesConnected ==
    \A k \in DOMAIN offer.routes : Leads(offer.routes[k].segs, Name[offer.from], Name[offer.to])

(* Routes come quickest first, and no two of them cover 85 per cent of     *)
(* each other's stops, whichever of the searches found them.               *)
RoutesDiffer ==
    \A i, j \in DOMAIN offer.routes :
        i < j => LET a == offer.routes[i]
                     b == offer.routes[j] IN
                 /\ a.tenths <= b.tenths
                 /\ ~(Similar(Stops(a.segs), Stops(b.segs)) /\ Similar(Stops(b.segs), Stops(a.segs)))

(* The rides of a route are those of its path, in their order: none is     *)
(* lost or split where walks are merged, each shows its stops and counts   *)
(* its links, the lines it names run on all of them, and the line it was   *)
(* boarded for is named (rerouting.py 612-709); there is one transfer less *)
(* than there are boardings.                                               *)
RidesShown == \A k \in DOMAIN offer.routes : ShowsRides(offer.routes[k])

(* The fare is none exactly for a route on foot, and otherwise the base of *)
(* one of its rides and no less than that of any other, plus whole         *)
(* hundreds that cover the distance ridden beyond 10 km, with no more than *)
(* 5 km to spare (tools.py 190-231).                                       *)
Fits(r, metres) ==
    LET rides == {r.segs[i] : i \in Rides(r.segs)} IN
    IF rides = {} THEN r.cost = 0
    ELSE \E s \in rides :
            LET steps == (r.cost - Base(s)) \div 100 IN
            /\ r.cost = Base(s) + 100 * steps /\ steps >= 0
            /\ \A o \in rides : Base(o) <= Base(s)
            /\ metres <= 10000 + 5000 * steps
            /\ steps > 0 => metres > 10000 + 5000 * (steps - 1)

FareFits ==
    \A k \in DOMAIN offer.routes :
        LET r == offer.routes[k] IN
        Fits(r, Sum([i \in DOMAIN r.rows |-> IF r.rows[i].rel = "NEXT_STOP" THEN r.rows[i].dist ELSE 0]))

(* The first search rides through an affected stop only where every way    *)
(* around it weighs two hours more than the one it took, or longer: the    *)
(* hour is added to the link that reaches the stop and to the one that     *)
(* goes on from it.                                                        *)
Taken(rows) ==
    [i \in DOMAIN rows |-> [src |-> rows[i].from_id, dst |-> rows[i].to_id, rel |-> rows[i].rel,
                            sec |-> rows[i].sec, dist |-> rows[i].dist]]

FirstAvoids ==
    mode = "daemon" /\ main = "run" =>
        \A i \in DOMAIN offer.first :
            \/ RowsAvoid(offer.first[i], proj[1])
            \/ \A p \in AllPaths[1][offer.from] :
                  Last(p).dst = offer.to /\ Nodes(p) \cap proj[1] = {} =>
                      PathWeight(1, p, {}) >= PathWeight(1, Taken(offer.first[i]), {}) + 2 * Penalty

(* What workers.py 26 says: a detour is worked out as soon as an incident  *)
(* is seen.  One of the routes keeps clear of what is affected when the    *)
(* search begins, if any way does.                                         *)
DetourAvoidsIncident ==
    offer.routes # <<>> =>
        \/ \E k \in DOMAIN offer.routes : RowsAvoid(offer.routes[k].rows, offer.known)
        \/ \A p \in AllPaths[1][offer.from] : Last(p).dst = offer.to => Nodes(p) \cap offer.known # {}
=============================================================================
