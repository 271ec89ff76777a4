--------------------------- MODULE ServiceProofs ---------------------------
(***************************************************************************)
(* What the start and the stop of the process guarantee to the tasks and   *)
(* to the routing agent, whatever the network, the incidents, the trips    *)
(* and the number of failures: ServiceInv is an invariant.  Each part is   *)
(* shown on its own, from those before it.                                 *)
(*                                                                         *)
(* With it SearchInv is one: what the agent hands on are paths that the    *)
(* searches return, the first of them on the projection that is there.     *)
(* What RoutingProofs and PathsProofs show of such paths then holds of     *)
(* every offer.                                                            *)
(***************************************************************************)
EXTENDS Service, RoutingProofs

-----------------------------------------------------------------------------
(* The orders of config.py.  Each step of the opening adds one connection  *)
(* to the prefix that is open, and the sixth completes it; each step of    *)
(* the closing takes one off the rest, and the sixth leaves nothing.       *)
LEMMA Orders ==
    /\ Len(OpenOrder) = 6 /\ DOMAIN OpenOrder = 1 .. 6
    /\ Len(CloseOrder) = 6 /\ DOMAIN CloseOrder = 1 .. 6
  BY DEF OpenOrder, CloseOrder

(* What there is to connect.                                               *)
LEMMA AllConnections ==
    Connection = {"tunnel_redis", "tunnel_neo4j", "tunnel_mysql", "redis", "neo4j", "mysql"}
<1>1. Connection = {OpenOrder[i] : i \in 1 .. 6}
  BY Orders DEF Connection, ToSet
<1> QED  BY <1>1 DEF OpenOrder

(* At first nothing is open.                                               *)
LEMMA OpenFirst == Opened(0) = {}
  BY DEF Opened

(* Each opening adds the next connection of the order.                     *)
LEMMA OpenNext ==
    ASSUME NEW n \in 1 .. 6
    PROVE  Opened(n - 1) \cup {OpenOrder[n]} = Opened(n)
<1>1. 1 .. n = (1 .. n - 1) \cup {n}
  OBVIOUS
<1> QED  BY <1>1, Zenon DEF Opened

(* After the sixth all are open.                                           *)
LEMMA OpenAll == Opened(6) = Connection
  BY Orders DEF Opened, Connection, ToSet

(* Only connections are opened.                                            *)
LEMMA OpenSome ==
    ASSUME NEW n \in 0 .. 6
    PROVE  Opened(n) \subseteq Connection
  BY Orders DEF Opened, Connection, ToSet

(* Before the first closing all are open.                                  *)
LEMMA CloseAll == StillOpen(1) = Connection
<1>1. StillOpen(1) = {CloseOrder[i] : i \in 1 .. 6}
  BY Orders DEF StillOpen
<1> QED  BY <1>1, AllConnections DEF CloseOrder

(* Each closing takes the next of its order away, the sixth the last.      *)
LEMMA CloseNext ==
    ASSUME NEW n \in 1 .. 6
    PROVE  StillOpen(n) \ {CloseOrder[n]} = IF n = 6 THEN {} ELSE StillOpen(n + 1)
<1>1. \A i, j \in 1 .. 6 : CloseOrder[i] = CloseOrder[j] => i = j
  BY DEF CloseOrder
<1>2. n .. 6 = {n} \cup (n + 1 .. 6)
  OBVIOUS
<1>3. StillOpen(n) = {CloseOrder[i] : i \in n .. 6} /\ StillOpen(n + 1) = {CloseOrder[i] : i \in n + 1 .. 6}
  BY Orders DEF StillOpen
<1>4. StillOpen(n) \ {CloseOrder[n]} = StillOpen(n + 1)
  BY <1>1, <1>2, <1>3
<1>5. CASE n = 6
  BY <1>3, <1>4, <1>5
<1>6. CASE n # 6
  BY <1>4, <1>6
<1> QED  BY <1>5, <1>6

-----------------------------------------------------------------------------
(* The steps of the preparation.                                           *)
LEMMA StepsOf ==
    /\ DOMAIN Steps = {"server", "daemon"}
    /\ Len(Steps["server"]) = 1 /\ Len(Steps["daemon"]) = 6
  BY DEF Steps

(* Which step of the daemon's preparation is due.                          *)
LEMMA DaemonDoes ==
    ASSUME mode = "daemon", step \in 0 .. 6
    PROVE  /\ Doing = "done" <=> step = 6
           /\ \A k \in Graph : Doing = <<"build1", "build2", "build3">>[k] <=> step = 2 + k
           /\ Doing = "wipe" => FALSE
           /\ Doing \in {"build1", "build2", "build3"} <=> step \in 3 .. 5
           /\ \A k \in Graph : Doing = <<"drop1", "drop2", "drop3">>[k] <=> step = k - 1
<1>1. Doing = IF step < 6
              THEN <<"drop1", "drop2", "drop3", "build1", "build2", "build3">>[step + 1] ELSE "done"
  BY StepsOf DEF Doing, Steps
<1>2. step = 0 \/ step = 1 \/ step = 2 \/ step = 3 \/ step = 4 \/ step = 5 \/ step = 6
  OBVIOUS
<1>3. Doing = CASE step = 0 -> "drop1" [] step = 1 -> "drop2" [] step = 2 -> "drop3"
                [] step = 3 -> "build1" [] step = 4 -> "build2" [] step = 5 -> "build3" [] step = 6 -> "done"
  BY <1>1, <1>2
<1> QED  BY <1>2, <1>3 DEF Graph

-----------------------------------------------------------------------------
(* The start.                                                              *)
LEMMA InitInv == Init => ServiceInv
<1> SUFFICES ASSUME Init PROVE ServiceInv
  OBVIOUS
<1> USE LimitsAssumption, ProjectionAssumption, StepsOf DEF Init, LifecycleInit, RoutingInit
<1>1. TypeOK
  <2>1. /\ affected \subseteq Platform /\ built \subseteq Graph
        /\ proj \in [Graph -> (SUBSET Platform) \cup {NoGraph}]
    BY DEF Snapshots
  <2>2. job.at = "idle" /\ job.from = NoNode /\ job.to = NoNode
    BY DEF NoJob
  <2> QED  BY <2>1, <2>2 DEF TypeOK
<1>2. NoneStarted /\ WhoseEnd /\ ServerClosesAll
  BY DEF NoneStarted, WhoseEnd, ServerClosesAll
<1>3. WhatIsOpen
  BY Orders, OpenFirst DEF WhatIsOpen
<1>4. BuiltAlike
  BY DEF BuiltAlike, Graph
<1>5. JobShape
  BY DEF JobShape, NoJob
<1> QED  BY <1>1, <1>2, <1>3, <1>4, <1>5 DEF ServiceInv

(* Opening keeps the invariant.                                            *)
LEMMA OpenStep ==
    ASSUME ServiceInv, Open, UNCHANGED routing
    PROVE  ServiceInv'
<1> USE DEF ServiceInv, Open, routing
<1>1. CASE Fail /\ main' = "failed" /\ UNCHANGED up
  BY <1>1, LimitsAssumption
  DEF Fail, TypeOK, NoneStarted, WhatIsOpen, WhoseEnd, ServerClosesAll, BuiltAlike, JobShape
<1>2. CASE \E n \in DOMAIN OpenOrder : OpenOne(n)
  <2> PICK n \in 1 .. 6 : OpenOne(n)
    BY <1>2, Orders
  <2>1. up' = Opened(n) /\ main' = IF n = 6 THEN "load" ELSE "open"
    BY OpenNext, Orders DEF OpenOne
  <2>2. WhatIsOpen'
    <3>1. CASE n = 6
      BY <3>1, <2>1, OpenAll DEF WhatIsOpen
    <3>2. CASE n # 6
      BY <3>2, <2>1, Orders DEF WhatIsOpen
    <3> QED  BY <3>1, <3>2
  <2>3. up' \subseteq Connection
    BY <2>1, OpenSome
  <2> QED
    BY <2>1, <2>2, <2>3, LimitsAssumption
    DEF OpenOne, TypeOK, NoneStarted, WhoseEnd, ServerClosesAll, BuiltAlike, JobShape
<1> QED  BY <1>1, <1>2

(* So does loading the map.                                                *)
LEMMA LoadStep ==
    ASSUME ServiceInv, Load, UNCHANGED routing
    PROVE  ServiceInv'
<1>1. BuiltAlike'
  BY DEF ServiceInv, Load, routing, TypeOK, BuiltAlike, Graph
<1> QED
  BY <1>1, LimitsAssumption
  DEF ServiceInv, Load, Fail, routing, TypeOK, NoneStarted, WhatIsOpen, WhoseEnd, ServerClosesAll, JobShape

(* When the tasks are started the preparation is complete, so all three    *)
(* projections are those of what is affected now.                          *)
LEMMA SpawnStep ==
    ASSUME ServiceInv, Spawn, UNCHANGED routing
    PROVE  ServiceInv'
<1> USE DEF ServiceInv, Spawn, routing
<1>1. BuiltAlike'
  <2> SUFFICES ASSUME mode = "daemon"
               PROVE  \A k \in Graph : /\ k \in built /\ proj[k] = proj[1]
                                        /\ proj[k] # NoGraph /\ proj[k] \subseteq affected
    BY DEF BuiltAlike
  <2>1. step = 6
    BY StepsOf, DaemonDoes DEF TypeOK
  <2>2. \A k \in Graph : k \in built /\ proj[k] = affected
    BY <2>1 DEF BuiltAlike, Graph
  <2> QED  BY <2>2, ProjectionAssumption DEF TypeOK, Graph
<1>2. TypeOK'
  BY DEF TypeOK
<1> QED
  BY <1>1, <1>2 DEF NoneStarted, WhatIsOpen, WhoseEnd, ServerClosesAll, JobShape

(* So does the start of the patrol, which follows that of the consumer.    *)
LEMMA SpawnPatrolStep ==
    ASSUME ServiceInv, SpawnPatrol, UNCHANGED routing
    PROVE  ServiceInv'
<1> USE DEF ServiceInv, SpawnPatrol, routing
<1>1. "consumer" \in Task /\ main \notin {"open", "load", "prepare", "failed"}
  BY DEF Task, Started, NoneStarted
<1>2. TypeOK'
  BY DEF TypeOK
<1> QED
  BY <1>1, <1>2 DEF NoneStarted, WhatIsOpen, WhoseEnd, ServerClosesAll, BuiltAlike, JobShape

(* A step of the preparation in the daemon: the drops come before the      *)
(* builds, and nothing but a build is left of the fourth step on.          *)
LEMMA PrepareStepInv ==
    ASSUME ServiceInv, PrepareStep
    PROVE  ServiceInv'
<1> USE DEF ServiceInv, PrepareStep, Prepare
<1>1. /\ step' \in 0 .. Len(Steps[mode']) /\ job' = job
      /\ affected' \subseteq Platform /\ built' \subseteq Graph
      /\ proj' \in [Graph -> (SUBSET Platform) \cup {NoGraph}]
  <2>1. step' \in 0 .. Len(Steps[mode])
    BY StepsOf DEF TypeOK, Doing
  <2>2. CASE Doing = "wipe" /\ Wipe
    BY <2>1, <2>2 DEF TypeOK, Wipe
  <2>3. CASE \E k \in Graph : Drop(k)
    BY <2>1, <2>3 DEF TypeOK, Drop
  <2>4. CASE \E k \in Graph : Build(k)
    BY <2>1, <2>4 DEF TypeOK, Build
  <2> QED  BY <2>2, <2>3, <2>4 DEF StepEffect
<1>2. TypeOK'
  BY <1>1 DEF TypeOK
<1>3. BuiltAlike'
  <2> SUFFICES ASSUME mode = "daemon", NEW k \in Graph, step + 1 >= 3 + k
               PROVE  k \in built' /\ proj'[k] = affected'
    BY StepsOf DEF BuiltAlike, TypeOK
  <2>1. step \in 3 .. 5 /\ step >= 2 + k
    BY StepsOf, DaemonDoes DEF TypeOK, Graph
  <2>2. PICK j \in Graph : step = 2 + j /\ Build(j)
    BY <2>1, DaemonDoes DEF StepEffect, Graph, TypeOK
  <2>3. CASE k = j
    BY <2>2, <2>3 DEF Build, TypeOK
  <2>4. CASE k # j
    <3>1. step >= 3 + k
      BY <2>1, <2>2, <2>4 DEF Graph
    <3> QED  BY <3>1, <2>2, <2>4 DEF Build, TypeOK, BuiltAlike
  <2> QED  BY <2>3, <2>4
<1> QED
  BY <1>1, <1>2, <1>3 DEF NoneStarted, WhatIsOpen, WhoseEnd, ServerClosesAll, JobShape

(* A step of the preparation that raises: no build is passed over.         *)
LEMMA PrepareFailsInv ==
    ASSUME ServiceInv, PrepareFails
    PROVE  ServiceInv'
<1> USE DEF ServiceInv, PrepareFails, PrepareRaises
<1>1. /\ affected' \subseteq Platform /\ proj' \in [Graph -> (SUBSET Platform) \cup {NoGraph}]
      /\ job' = job /\ built' \subseteq Graph
  BY DEF TypeOK, StepEffect, Wipe, Drop, Build, routing
<1>2. failures' \in 0 .. MaxFailures
  BY LimitsAssumption DEF Fail, TypeOK
<1>3. step' \in 0 .. Len(Steps[mode])
  BY StepsOf DEF TypeOK, Doing
<1>4. TypeOK'
  BY <1>1, <1>2, <1>3 DEF TypeOK
<1>5. BuiltAlike'
  <2> SUFFICES ASSUME mode = "daemon", main' = "prepare", NEW k \in Graph, step' >= 3 + k
               PROVE  FALSE
    BY StepsOf DEF BuiltAlike, TypeOK
  <2>1. Doing \notin {"build1", "build2", "build3"} /\ step' = step + 1 /\ step # 6
    BY StepsOf, DaemonDoes DEF TypeOK
  <2>2. step \notin 3 .. 5 /\ step \in 0 .. 6
    BY <2>1, StepsOf, DaemonDoes DEF TypeOK
  <2> QED  BY <2>1, <2>2 DEF Graph
<1> QED
  BY <1>1, <1>4, <1>5 DEF NoneStarted, WhatIsOpen, WhoseEnd, ServerClosesAll, JobShape

-----------------------------------------------------------------------------
(* Incidents, the agent and its failures leave the process as it is.       *)
LEMMA LifecycleKept ==
    ASSUME ServiceInv, UNCHANGED <<mode, main, up, step, task, shut, signals>>,
           failures' \in 0 .. MaxFailures, failures' >= failures,
           affected' \subseteq Platform, affected \subseteq affected', proj' = proj, built' = built,
           affected' = affected \/ \E t \in Task : task[t] = "on"
    PROVE  /\ NoneStarted' /\ WhatIsOpen' /\ WhoseEnd' /\ ServerClosesAll' /\ BuiltAlike'
           /\ job'.at \in {"idle", "search1", "search2", "search3", "format"}
              /\ job'.from \in Master \cup {NoNode}
              /\ job'.to \in (IF job'.at = "idle" THEN {NoNode} ELSE Master) => TypeOK'
<1> USE DEF ServiceInv
<1>1. NoneStarted' /\ WhatIsOpen' /\ WhoseEnd'
  BY DEF NoneStarted, WhatIsOpen, WhoseEnd
<1>2. ServerClosesAll'
  BY LimitsAssumption DEF ServerClosesAll, TypeOK
<1>3. BuiltAlike'
  BY DEF BuiltAlike, NoneStarted
<1>4. job'.at \in {"idle", "search1", "search2", "search3", "format"}
      /\ job'.from \in Master \cup {NoNode}
      /\ job'.to \in (IF job'.at = "idle" THEN {NoNode} ELSE Master) => TypeOK'
  BY DEF TypeOK
<1> QED  BY <1>1, <1>2, <1>3, <1>4

(* An incident comes from a task that is on, so the preparation is over.   *)
LEMMA IncidentInv ==
    ASSUME ServiceInv, Incident
    PROVE  ServiceInv'
<1>1. affected' \subseteq Platform /\ affected \subseteq affected' /\ UNCHANGED <<proj, built, job>>
  BY ProjectionAssumption DEF ServiceInv, Incident, Affect, TypeOK
<1>2. \E t \in Task : task[t] = "on"
  BY DEF Incident, Task, Started
<1>3. UNCHANGED <<mode, main, up, step, task, shut, signals, failures>>
  BY DEF Incident, lifecycle
<1>4. failures' \in 0 .. MaxFailures /\ failures' >= failures
  BY <1>3, LimitsAssumption DEF ServiceInv, TypeOK
<1>5. /\ job.at \in {"idle", "search1", "search2", "search3", "format"}
      /\ job.from \in Master \cup {NoNode}
      /\ job.to \in (IF job.at = "idle" THEN {NoNode} ELSE Master)
  BY DEF ServiceInv, TypeOK
<1>6. JobShape'
  BY <1>1 DEF ServiceInv, JobShape
<1> QED  BY <1>1, <1>2, <1>3, <1>4, <1>5, <1>6, LifecycleKept DEF ServiceInv

(* The agent only begins where its trip has a last located stop, and then  *)
(* always with a destination, if only the last resort.                     *)
LEMMA BeginJob ==
    ASSUME Begin
    PROVE  /\ job'.at = "search1" /\ job'.from \in Master \cup {NoNode} /\ job'.to \in Master
           /\ JobShape' /\ UNCHANGED <<affected, proj, built>>
<1> PICK trip \in Trips : \E last \in Located(trip) : \E s \in {trip[i].id : i \in DOMAIN trip} \cup {NoNode} :
        job' = [NoJob EXCEPT !.at = "search1", !.from = s, !.to = Arrival(trip[last]), !.known = affected]
  BY DEF Begin
<1> PICK last \in Located(trip) : \E s \in {trip[i].id : i \in DOMAIN trip} \cup {NoNode} :
        job' = [NoJob EXCEPT !.at = "search1", !.from = s, !.to = Arrival(trip[last]), !.known = affected]
  OBVIOUS
<1> PICK s \in {trip[i].id : i \in DOMAIN trip} \cup {NoNode} :
        job' = [NoJob EXCEPT !.at = "search1", !.from = s, !.to = Arrival(trip[last]), !.known = affected]
  OBVIOUS
<1>1. job' = [at |-> "search1", from |-> s, to |-> Arrival(trip[last]), found |-> <<>>, known |-> affected]
  BY DEF NoJob
<1>2. last \in DOMAIN trip
  BY DEF Located
<1>3. Arrival(trip[last]) \in Master
  BY <1>2, TripsAssumption DEF Arrival
<1>4. s \in Master \cup {NoNode}
  BY TripsAssumption
<1> QED  BY <1>1, <1>3, <1>4 DEF JobShape, Begin

(* After a search the agent is at the next, or at the formatter.           *)
LEMMA SearchedJob ==
    ASSUME TypeOK, JobShape, NEW k \in Graph, NEW STATE paths, Searched(k, paths)
    PROVE  /\ job'.at \in {"search2", "search3", "format"} /\ job'.from = job.from /\ job'.to \in Master
           /\ JobShape' /\ UNCHANGED <<affected, proj, built>>
<1>1. job.at \in {"search1", "search2", "search3"}
  BY DEF Searched, Graph
<1>2. job.to \in Master
  BY <1>1 DEF TypeOK
<1>3. After[job.at] \in {"search2", "search3", "format"}
  BY <1>1 DEF After
<1>4. job' = [at |-> After[job.at], from |-> job.from, to |-> job.to,
              found |-> Append(job.found, paths), known |-> job.known]
  BY DEF Searched, JobShape
<1> QED  BY <1>2, <1>3, <1>4 DEF JobShape, Searched

(* An agent that ends is idle.                                             *)
LEMMA IdleJob ==
    ASSUME job' = NoJob
    PROVE  job'.at = "idle" /\ job'.from = NoNode /\ job'.to = NoNode /\ JobShape'
  BY DEF NoJob, JobShape

(* Every action of the agent keeps the type of its work.                   *)
LEMMA AgentJob ==
    ASSUME TypeOK, JobShape, Agent
    PROVE  /\ job'.at \in {"idle", "search1", "search2", "search3", "format"}
           /\ job'.from \in Master \cup {NoNode}
           /\ job'.to \in (IF job'.at = "idle" THEN {NoNode} ELSE Master)
           /\ JobShape' /\ UNCHANGED <<affected, proj, built>>
<1>1. CASE Begin
  BY <1>1, BeginJob
<1>2. CASE \E k \in Graph : RunSearch(k)
  BY <1>2, SearchedJob DEF RunSearch, TypeOK
<1>3. CASE Finish
  BY <1>3, IdleJob DEF Finish
<1> QED  BY <1>1, <1>2, <1>3 DEF Agent

(* So the agent keeps the invariant, whether it works or fails.            *)
LEMMA AgentInv ==
    ASSUME ServiceInv, AgentStep \/ SearchFails \/ AgentFails
    PROVE  ServiceInv'
<1>1. TypeOK /\ JobShape
  BY DEF ServiceInv
<1>2. /\ job'.at \in {"idle", "search1", "search2", "search3", "format"}
      /\ job'.from \in Master \cup {NoNode}
      /\ job'.to \in (IF job'.at = "idle" THEN {NoNode} ELSE Master)
      /\ JobShape' /\ UNCHANGED <<affected, proj, built>>
  <2>1. CASE AgentStep
    BY <1>1, <2>1, AgentJob DEF AgentStep, Agent
  <2>2. CASE SearchFails
    BY <1>1, <2>2, SearchedJob DEF SearchFails, SkipSearch, TypeOK
  <2>3. CASE AgentFails
    BY <2>3, IdleJob DEF AgentFails, Abandon
  <2> QED  BY <2>1, <2>2, <2>3
<1>3. UNCHANGED <<mode, main, up, step, task, shut, signals>>
  BY DEF AgentStep, SearchFails, AgentFails, lifecycle
<1>4. failures' = failures \/ Fail
  BY DEF AgentStep, SearchFails, AgentFails, lifecycle
<1>5. failures' \in 0 .. MaxFailures /\ failures' >= failures
  BY <1>1, <1>4, LimitsAssumption DEF TypeOK, Fail
<1>6. affected' \subseteq Platform
  BY <1>1, <1>2 DEF TypeOK
<1> QED  BY <1>2, <1>3, <1>5, <1>6, LifecycleKept DEF ServiceInv

-----------------------------------------------------------------------------
(* The stop.                                                               *)
LEMMA TaskStates ==
    ASSUME task \in [Task -> {"off", "on", "cancelled"}]
    PROVE  /\ \A ts : Cancelled(ts) \in [Task -> {"off", "on", "cancelled"}]
           /\ \A ts : (\A t \in Task : task[t] = "off") => \A t \in Task : Cancelled(ts)[t] = "off"
           /\ \A t \in Task : [task EXCEPT ![t] = "off"] \in [Task -> {"off", "on", "cancelled"}]
  BY DEF Cancelled

(* A signal finds all connections open in the server; it cancels the tasks *)
(* of the daemon.                                                          *)
LEMMA SignalInv ==
    ASSUME ServiceInv, Signal, UNCHANGED routing
    PROVE  ServiceInv'
<1> USE DEF ServiceInv, routing
<1>1. signals' \in 0 .. MaxSignals /\ UNCHANGED <<mode, up, step, failures>>
  BY LimitsAssumption DEF Signal, TypeOK
<1>2. CASE mode = "server"
  <2>1. main = "run" /\ main' = "close" /\ UNCHANGED <<task, shut>>
    BY <1>2 DEF Signal
  <2>2. WhatIsOpen'
    BY <1>1, <2>1, CloseAll, Orders DEF WhatIsOpen
  <2> QED
    BY <1>1, <1>2, <2>1, <2>2 DEF TypeOK, NoneStarted, WhoseEnd, ServerClosesAll, BuiltAlike, JobShape
<1>3. CASE mode = "daemon"
  <2>1. main \in {"prepare", "run", "cancelled"} /\ main' = "cancelled"
        /\ task' = Cancelled(Task) /\ shut' = "wait"
    BY <1>3 DEF Signal
  <2>2. TypeOK'
    BY <1>1, <2>1, TaskStates DEF TypeOK
  <2> QED
    BY <1>1, <1>3, <2>1, <2>2 DEF NoneStarted, WhatIsOpen, WhoseEnd, ServerClosesAll, BuiltAlike, JobShape
<1> QED  BY <1>2, <1>3, StepsOf DEF TypeOK

(* Closing keeps the invariant: if it raises, a failure is counted.        *)
LEMMA CloseStep ==
    ASSUME ServiceInv, Close, UNCHANGED routing
    PROVE  ServiceInv'
<1> USE DEF ServiceInv, Close, routing
<1>1. CASE Fail /\ main' = "exited" /\ task' = [t \in Task |-> "off"] /\ UNCHANGED up
  BY <1>1, LimitsAssumption
  DEF Fail, TypeOK, NoneStarted, WhatIsOpen, WhoseEnd, ServerClosesAll, BuiltAlike, JobShape
<1>2. CASE \E n \in DOMAIN CloseOrder : CloseOne(n, Len(CloseOrder))
  <2> PICK n \in 1 .. 6 : CloseOne(n, 6)
    BY <1>2, Orders
  <2>1. up' = (IF n = 6 THEN {} ELSE StillOpen(n + 1)) /\ main' = IF n = 6 THEN "cancel" ELSE "close"
    BY CloseNext DEF CloseOne
  <2>2. WhatIsOpen'
    <3>1. CASE n = 6
      BY <3>1, <2>1 DEF WhatIsOpen
    <3>2. CASE n # 6
      BY <3>2, <2>1, Orders DEF WhatIsOpen
    <3> QED  BY <3>1, <3>2
  <2>3. TypeOK'
    BY <2>1 DEF CloseOne, TypeOK
  <2> QED
    BY <2>1, <2>2, <2>3 DEF CloseOne, NoneStarted, WhoseEnd, ServerClosesAll, BuiltAlike, JobShape
<1> QED  BY <1>1, <1>2

(* Every step of the stop keeps the invariant.                             *)
LEMMA StoppingInv ==
    ASSUME ServiceInv, Stopping, UNCHANGED routing
    PROVE  ServiceInv'
<1> USE DEF ServiceInv, routing
<1>1. CASE \E t \in Task : End(t)
  BY <1>1, TaskStates
  DEF End, TypeOK, NoneStarted, WhatIsOpen, WhoseEnd, ServerClosesAll, BuiltAlike, JobShape
<1>2. CASE MainReturns
  BY <1>2 DEF MainReturns, TypeOK, NoneStarted, WhatIsOpen, WhoseEnd, ServerClosesAll, BuiltAlike, JobShape
<1>3. CASE RunnerCancels
  BY <1>3 DEF RunnerCancels, TypeOK, NoneStarted, WhatIsOpen, WhoseEnd, ServerClosesAll, BuiltAlike, JobShape
<1>4. CASE Close
  BY <1>4, CloseStep
<1>5. CASE CancelTasks
  BY <1>5, TaskStates
  DEF CancelTasks, TypeOK, NoneStarted, WhatIsOpen, WhoseEnd, ServerClosesAll, BuiltAlike, JobShape
<1>6. CASE Gathered
  BY <1>6 DEF Gathered, TypeOK, NoneStarted, WhatIsOpen, WhoseEnd, ServerClosesAll, BuiltAlike, JobShape
<1> QED  BY <1>1, <1>2, <1>3, <1>4, <1>5, <1>6 DEF Stopping

-----------------------------------------------------------------------------
(* The invariant as a whole: what is open, which tasks are on and what the *)
(* projections hold fit the point that lifespan or main has reached.       *)
THEOREM Invariant == Spec => []ServiceInv
<1>1. Init => ServiceInv
  BY InitInv
<1>2. ServiceInv /\ [Next]_vars => ServiceInv'
  <2> SUFFICES ASSUME ServiceInv, [Next]_vars PROVE ServiceInv'
    OBVIOUS
  <2>1. CASE StartStep
    BY <2>1, OpenStep, LoadStep, SpawnStep, SpawnPatrolStep DEF StartStep, Starting
  <2>2. CASE PrepareStep
    BY <2>2, PrepareStepInv
  <2>3. CASE PrepareFails
    BY <2>3, PrepareFailsInv
  <2>4. CASE Incident
    BY <2>4, IncidentInv
  <2>5. CASE AgentStep \/ SearchFails \/ AgentFails
    BY <2>5, AgentInv
  <2>6. CASE Signal /\ UNCHANGED routing
    BY <2>6, SignalInv
  <2>7. CASE Stopping /\ UNCHANGED routing
    BY <2>7, StoppingInv
  <2>8. CASE UNCHANGED vars
    BY <2>8 DEF vars, lifecycle, routing, ServiceInv, TypeOK, NoneStarted, WhatIsOpen, WhoseEnd,
                ServerClosesAll, BuiltAlike, JobShape
  <2> QED  BY <2>1, <2>2, <2>3, <2>4, <2>5, <2>6, <2>7, <2>8 DEF Next
<1> QED  BY <1>1, <1>2, PTL DEF Spec

(* Each variable of the process and of the agent has its type; an agent at *)
(* work has a destination.                                                 *)
THEOREM TypeCorrect == Spec => []TypeOK
<1>1. ServiceInv => TypeOK
  BY DEF ServiceInv
<1> QED  BY <1>1, Invariant, PTL

(* The tasks only run on open connections and, in the daemon, on all three *)
(* projections, whichever calls of the start failed before.                *)
THEOREM StartedOnceReady == Spec => []WorkersReady
<1>1. ServiceInv => WorkersReady
  BY DEF ServiceInv, WorkersReady, WhatIsOpen, BuiltAlike
<1> QED  BY <1>1, Invariant, PTL

(* The three projections that the daemon searches were built by its own    *)
(* start, out of the same incidents: a projection that an earlier process  *)
(* left cannot be among them, whichever drops and builds raised.           *)
THEOREM ProjectionsAlike == Spec => []OneSnapshot
<1>1. ServiceInv => OneSnapshot
  BY DEF ServiceInv, OneSnapshot, BuiltAlike
<1> QED  BY <1>1, Invariant, PTL

(* A server that ends without a failure has closed every connection.       *)
THEOREM NothingLeftOpen == Spec => []ServerClosesAll
<1>1. ServiceInv => ServerClosesAll
  BY DEF ServiceInv
<1> QED  BY <1>1, Invariant, PTL

-----------------------------------------------------------------------------
(* What the searches and the agent hand on.  Whatever is affected, now or  *)
(* when a projection was built, is what some incidents affect together.    *)
Snapped == affected \in Snapshots /\ proj \in [Graph -> Snapshots \cup {NoGraph}]

(* The agent at work has the results of the searches it has done, between  *)
(* the stops it was asked for.                                             *)
Done == [idle |-> 0, search1 |-> 0, search2 |-> 1, search3 |-> 2, format |-> 3]
FoundOK == job.found \in Seq(Seq(Drawn(job.from, job.to))) /\ Len(job.found) = Done[job.at]

(* The routes of an offer are those of the paths found.                    *)
OfferOK ==
    \/ offer.routes = <<>>
    \/ \E paths \in Seq(Drawn(offer.from, offer.to)) : offer.routes = Priced(Format(paths))

(* No agent works before the tasks are started.                            *)
AtRest == main \in {"open", "load", "prepare"} => job = NoJob /\ offer = NoOffer

(* What the first search found, at work or in an offer, it found on the    *)
(* projection that is still there.                                         *)
OfFirst(paths, s, t) == paths = <<>> \/ (s \in Master /\ t \in Master /\ paths = Search(1, s, t, proj[1]))

FirstOK ==
    mode = "daemon" /\ main = "run" =>
        /\ OfFirst(offer.first, offer.from, offer.to)
        /\ Done[job.at] > 0 => OfFirst(job.found[1], job.from, job.to)

SearchInv == Snapped /\ FoundOK /\ OfferOK /\ AtRest /\ FirstOK

(* The empty set is what no incident affects; one more incident adds its   *)
(* footprint.                                                              *)
LEMMA SnapshotsGrow ==
    /\ {} \in Snapshots
    /\ \A f \in Footprints : f \in Snapshots
    /\ \A a \in Snapshots, f \in Footprints : a \cup f \in Snapshots
<1>1. {} \in Snapshots
  <2>1. {} \in SUBSET Footprints /\ UNION {} = {}
    OBVIOUS
  <2> QED
    BY <2>1 DEF Snapshots
<1>2. ASSUME NEW a \in Snapshots, NEW f \in Footprints PROVE a \cup f \in Snapshots
  <2>1. PICK fs \in SUBSET Footprints : a = UNION fs
    BY DEF Snapshots
  <2>2. fs \cup {f} \in SUBSET Footprints /\ a \cup f = UNION (fs \cup {f})
    BY <2>1
  <2> QED
    BY <2>2 DEF Snapshots
<1>3. ASSUME NEW f \in Footprints PROVE f \in Snapshots
  <2>1. {} \cup f = f
    OBVIOUS
  <2> QED
    BY <1>1, <1>2, <2>1
<1> QED
  BY <1>1, <1>2, <1>3

(* Nothing is searched or offered at the start.                            *)
LEMMA InitSearchInv == Init => SearchInv
<1> SUFFICES ASSUME Init PROVE SearchInv
  OBVIOUS
<1> USE DEF Init, RoutingInit, LifecycleInit
<1>1. Snapped
  BY SnapshotsGrow DEF Snapped
<1>2. job.at = "idle" /\ job.found = <<>> /\ offer.first = <<>> /\ offer.routes = <<>>
  BY DEF NoJob, NoOffer
<1> QED
  BY <1>1, <1>2 DEF SearchInv, FoundOK, OfferOK, AtRest, FirstOK, Done

(* The start, a signal and the stop touch neither the agent nor the graph; *)
(* the tasks are started while the agent is at rest.                       *)
LEMMA ProcessKeeps ==
    ASSUME TypeOK, SearchInv, StartStep \/ (Signal /\ UNCHANGED routing) \/ (Stopping /\ UNCHANGED routing)
    PROVE  SearchInv'
<1>1. UNCHANGED <<affected, proj, job, offer>> /\ mode' = mode
  BY DEF StartStep, Starting, Stopping, routing, Open, Load, Spawn, SpawnPatrol, Signal, End, MainReturns,
         RunnerCancels, Close, CancelTasks, Gathered
<1> DEFINE early == {"open", "load", "prepare"}
<1>2. /\ main' \in early => main \in early
      /\ mode = "daemon" /\ main' = "run" => main \in {"prepare", "run"}
  <2>1. CASE StartStep
    BY <2>1 DEF StartStep, Starting, Open, OpenOne, Load, Spawn, SpawnPatrol
  <2>2. CASE Signal
    <3>1. main' \in {"close", "cancelled"}
      BY <2>2, StepsOf DEF Signal, TypeOK
    <3> QED
      BY <3>1
  <2>3. CASE Stopping
    BY <2>3 DEF Stopping, End, MainReturns, RunnerCancels, Close, CloseOne, CancelTasks, Gathered
  <2> QED
    BY <2>1, <2>2, <2>3
<1>4. Snapped' /\ FoundOK' /\ OfferOK' /\ AtRest'
  BY <1>1, <1>2 DEF SearchInv, Snapped, FoundOK, OfferOK, AtRest
<1>5. FirstOK'
  <2>1. CASE main = "prepare"
    <3>1. job = NoJob /\ offer = NoOffer
      BY <2>1 DEF SearchInv, AtRest
    <3>2. job.at = "idle" /\ offer.first = <<>>
      BY <3>1 DEF NoJob, NoOffer
    <3> QED
      BY <1>1, <3>2 DEF FirstOK, OfFirst, Done
  <2>2. CASE main # "prepare"
    BY <1>1, <1>2, <2>2 DEF SearchInv, FirstOK, OfFirst
  <2> QED
    BY <2>1, <2>2
<1> QED
  BY <1>4, <1>5 DEF SearchInv

(* The preparation changes the graph while the agent is at rest.           *)
LEMMA PreparationKeeps ==
    ASSUME SearchInv, PrepareStep \/ PrepareFails
    PROVE  SearchInv'
<1>1. StepEffect \/ UNCHANGED <<affected, proj, job, offer>>
  BY DEF PrepareStep, PrepareFails, routing
<1>2. UNCHANGED <<job, offer>>
  BY <1>1 DEF StepEffect, Wipe, Drop, Build
<1>3. Snapped'
  <2>1. CASE Wipe
    BY <2>1, SnapshotsGrow DEF Wipe, SearchInv, Snapped
  <2>2. CASE \E k \in Graph : Drop(k)
    BY <2>2 DEF Drop, SearchInv, Snapped
  <2>3. CASE \E k \in Graph : Build(k)
    BY <2>3 DEF Build, SearchInv, Snapped
  <2> QED
    BY <1>1, <2>1, <2>2, <2>3 DEF StepEffect, SearchInv, Snapped
<1>4. main = "prepare" /\ main' \in {"prepare", "failed"}
  BY DEF PrepareStep, Prepare, PrepareFails, PrepareRaises
<1> QED
  BY <1>2, <1>3, <1>4 DEF SearchInv, FoundOK, OfferOK, AtRest, FirstOK

(* An incident leaves the projections as they are.                         *)
LEMMA IncidentKeeps ==
    ASSUME ServiceInv, SearchInv, Incident
    PROVE  SearchInv'
<1>1. UNCHANGED <<proj, job, offer, mode, main>> /\ affected' \in Snapshots
  BY SnapshotsGrow DEF Incident, Affect, lifecycle, SearchInv, Snapped
<1> QED
  BY <1>1 DEF SearchInv, Snapped, FoundOK, OfferOK, AtRest, FirstOK, OfFirst

(* A search that is not skipped searches the projection that is there.     *)
LEMMA FoundDrawn ==
    ASSUME TypeOK, Snapped, NEW k \in Graph
    PROVE  /\ Found(k) \in Seq(Drawn(job.from, job.to))
           /\ OfFirst(Found(1), job.from, job.to)
<1>1. ASSUME NEW j \in Graph, proj[j] # NoGraph, job.from \in Master, job.to \in Master
      PROVE  Results[<<j, job.from, job.to, proj[j]>>] = Search(j, job.from, job.to, proj[j])
  <2>1. <<j, job.from, job.to, proj[j]>> \in Graph \X Master \X Master \X Snapshots
    BY <1>1 DEF Snapped
  <2> QED
    BY <2>1 DEF Results
<1>2. Found(k) \in Seq(Drawn(job.from, job.to))
  <2> DEFINE D == Drawn(job.from, job.to)
  <2>1. CASE proj[k] # NoGraph /\ job.from \in Master /\ job.to \in Master
    <3>1. Search(k, job.from, job.to, proj[k]) \in Seq(D)
      BY <2>1, SearchDrawn
    <3> HIDE DEF D
    <3> QED
      BY <1>1, <2>1, <3>1 DEF Found, D
  <2>2. CASE proj[k] = NoGraph \/ job.from \notin Master \/ job.to \notin Master
    <3>1. Found(k) = <<>>
      BY <2>2 DEF Found
    <3> HIDE DEF D
    <3>2. Found(k) \in Seq(D)
      BY <3>1
    <3> QED
      BY <3>2 DEF D
  <2> QED
    BY <2>1, <2>2
<1>3. OfFirst(Found(1), job.from, job.to)
  BY <1>1 DEF Found, OfFirst, Graph
<1> QED
  BY <1>2, <1>3

(* A search appends what it found to what was found before.                *)
LEMMA SearchedKeeps ==
    ASSUME TypeOK, JobShape, SearchInv, NEW k \in Graph,
           NEW paths \in Seq(Drawn(job.from, job.to)),
           k = 1 => OfFirst(paths, job.from, job.to), Searched(k, paths)
    PROVE  /\ FoundOK' /\ UNCHANGED <<affected, proj, built, offer>>
           /\ (Done[job.at] > 0 => OfFirst(job.found[1], job.from, job.to)) =>
                 OfFirst(job'.found[1], job'.from, job'.to)
<1>1. /\ job' = [at |-> After[job.at], from |-> job.from, to |-> job.to,
                 found |-> Append(job.found, paths), known |-> job.known]
      /\ UNCHANGED <<affected, proj, built, offer>>
  BY DEF Searched, JobShape
<1>2. job.at = <<"search1", "search2", "search3">>[k] /\ Done[job.at] = k - 1 /\ Done[After[job.at]] = k
  BY DEF Searched, Done, After, Graph
<1> DEFINE D == Seq(Drawn(job.from, job.to))
<1>3. job.found \in Seq(D) /\ Len(job.found) = k - 1
  BY <1>2 DEF SearchInv, FoundOK
<1>4. /\ Append(job.found, paths) \in Seq(D) /\ Len(Append(job.found, paths)) = k
      /\ Append(job.found, paths)[1] = IF k = 1 THEN paths ELSE job.found[1]
  <2>1. paths \in D
    OBVIOUS
  <2> HIDE DEF D
  <2> QED
    BY <1>3, <2>1 DEF Graph
<1>5. FoundOK'
  <2> DEFINE more == Append(job.found, paths)
  <2>1. /\ job'.found = more /\ job'.from = job.from /\ job'.to = job.to
        /\ Done[job'.at] = k
    BY <1>1, <1>2
  <2>2. more \in Seq(Seq(Drawn(job.from, job.to))) /\ Len(more) = k
    BY <1>4
  <2> HIDE DEF more
  <2> QED
    BY <2>1, <2>2 DEF FoundOK
<1>6. (Done[job.at] > 0 => OfFirst(job.found[1], job.from, job.to)) =>
         OfFirst(job'.found[1], job'.from, job'.to)
  BY <1>1, <1>2, <1>4 DEF OfFirst, Graph
<1> QED
  BY <1>1, <1>5, <1>6

(* Every action of the agent: it begins with nothing found, appends what a *)
(* search found, hands everything on, or gives up.                         *)
LEMMA BeginKeeps ==
    ASSUME SearchInv, Begin
    PROVE  /\ FoundOK' /\ UNCHANGED <<affected, proj, built>> /\ OfferOK'
           /\ job'.at = "search1" /\ offer'.first = <<>>
<1>1. job'.at = "search1" /\ job'.found = <<>>
  BY DEF Begin, NoJob
<1>2. UNCHANGED <<affected, proj, built>> /\ offer'.first = <<>> /\ offer'.routes = <<>>
  BY DEF Begin, NoOffer
<1> QED
  BY <1>1, <1>2 DEF FoundOK, OfferOK, Done

(* The formatter has the results of all three searches.                    *)
LEMMA FinishKeeps ==
    ASSUME SearchInv, Finish
    PROVE  /\ FoundOK' /\ UNCHANGED <<affected, proj, built>> /\ OfferOK'
           /\ job.at = "format" /\ job'.at = "idle"
           /\ offer'.first = job.found[1] /\ offer'.from = job.from /\ offer'.to = job.to
<1> DEFINE D == Drawn(job.from, job.to)
<1>1. job.at = "format" /\ job.found \in Seq(Seq(D)) /\ Len(job.found) = 3
  BY DEF Finish, SearchInv, FoundOK, Done
<1> HIDE DEF D
<1> DEFINE P == Seq(D)
           paths == job.found[1] \o job.found[2] \o job.found[3]
<1>2. job.found[1] \in P /\ job.found[2] \in P /\ job.found[3] \in P
  <2> HIDE DEF P
  <2> QED
    BY <1>1 DEF P
<1>3. paths \in Seq(D)
  BY <1>2
<1>4. offer' = [routes |-> Priced(Format(paths)), known |-> job.known,
                first |-> job.found[1], from |-> job.from, to |-> job.to]
  BY DEF Finish
<1> HIDE DEF paths
<1>5. OfferOK'
  BY <1>3, <1>4 DEF OfferOK, D
<1>6. job'.at = "idle" /\ job'.found = <<>>
  BY DEF Finish, NoJob
<1> QED
  BY <1>1, <1>4, <1>5, <1>6 DEF Finish, FoundOK, Done

(* Every action of the agent keeps what it hands on.                       *)
LEMMA AgentActs ==
    ASSUME ServiceInv, SearchInv, Agent
    PROVE  /\ FoundOK' /\ OfferOK' /\ UNCHANGED <<affected, proj, built>>
           /\ mode = "daemon" /\ main = "run" =>
                 /\ OfFirst(offer.first, offer.from, offer.to)'
                 /\ Done[job'.at] > 0 => OfFirst(job.found[1], job.from, job.to)'
<1>1. TypeOK /\ JobShape /\ Snapped /\ FoundOK /\ OfferOK
  BY DEF ServiceInv, SearchInv
<1>2. CASE Begin
  BY <1>2, BeginKeeps DEF Done, OfFirst
<1>3. CASE \E k \in Graph : RunSearch(k)
  <2> PICK k \in Graph : Searched(k, Found(k))
    BY <1>3 DEF RunSearch
  <2>1. Found(k) \in Seq(Drawn(job.from, job.to)) /\ (k = 1 => OfFirst(Found(k), job.from, job.to))
    BY <1>1, FoundDrawn
  <2>2. /\ FoundOK' /\ UNCHANGED <<affected, proj, built, offer>>
        /\ (Done[job.at] > 0 => OfFirst(job.found[1], job.from, job.to)) =>
              OfFirst(job'.found[1], job'.from, job'.to)
    BY <1>1, <2>1, SearchedKeeps
  <2> QED
    BY <1>1, <2>2 DEF SearchInv, FirstOK, OfferOK, OfFirst
<1>4. CASE Finish
  BY <1>4, FinishKeeps DEF SearchInv, FirstOK, OfFirst, Done
<1> QED
  BY <1>2, <1>3, <1>4 DEF Agent

(* So does the agent when a search or all of it fails.                     *)
LEMMA AgentKeeps ==
    ASSUME ServiceInv, SearchInv, AgentStep \/ SearchFails \/ AgentFails
    PROVE  SearchInv'
<1>1. TypeOK /\ JobShape /\ Snapped /\ OfferOK /\ UNCHANGED <<mode, main>>
  BY DEF ServiceInv, SearchInv, AgentStep, SearchFails, AgentFails, lifecycle
<1>2. main \notin {"open", "load", "prepare"}
  <2>1. CASE AgentTask
    BY <2>1 DEF AgentTask, ServiceInv, NoneStarted, Task, Started
  <2>2. CASE Abandon
    BY <2>2 DEF Abandon, SearchInv, AtRest, NoJob
  <2> QED
    BY <2>1, <2>2 DEF AgentStep, SearchFails, AgentFails
<1>3. /\ FoundOK' /\ OfferOK' /\ UNCHANGED <<affected, proj, built>>
      /\ mode = "daemon" /\ main = "run" =>
            /\ OfFirst(offer.first, offer.from, offer.to)'
            /\ Done[job'.at] > 0 => OfFirst(job.found[1], job.from, job.to)'
  <2>1. CASE AgentStep
    BY <2>1, AgentActs DEF AgentStep, Agent
  <2>2. CASE SearchFails
    <3> PICK k \in Graph : Searched(k, <<>>)
      BY <2>2 DEF SearchFails, SkipSearch
    <3>1. <<>> \in Seq(Drawn(job.from, job.to)) /\ OfFirst(<<>>, job.from, job.to)
      BY DEF OfFirst
    <3>2. /\ FoundOK' /\ UNCHANGED <<affected, proj, built, offer>>
          /\ (Done[job.at] > 0 => OfFirst(job.found[1], job.from, job.to)) =>
                OfFirst(job'.found[1], job'.from, job'.to)
      BY <1>1, <3>1, SearchedKeeps
    <3> QED
      BY <1>1, <3>2 DEF SearchInv, FirstOK, OfferOK, OfFirst
  <2>3. CASE AgentFails
    <3>1. UNCHANGED <<affected, proj, built, offer>> /\ job'.at = "idle" /\ job'.found = <<>>
      BY <2>3 DEF AgentFails, Abandon, NoJob
    <3> QED
      BY <1>1, <3>1 DEF FoundOK, OfferOK, Done, SearchInv, FirstOK, OfFirst
  <2> QED
    BY <2>1, <2>2, <2>3
<1> QED
  BY <1>1, <1>2, <1>3 DEF SearchInv, Snapped, AtRest, FirstOK

(* The invariant of the searches, with that of the process.                *)
THEOREM SearchInvariant == Spec => []SearchInv
<1>1. Init => SearchInv
  BY InitSearchInv
<1>2. ServiceInv /\ SearchInv /\ [Next]_vars => SearchInv'
  <2> SUFFICES ASSUME ServiceInv, SearchInv, [Next]_vars PROVE SearchInv'
    OBVIOUS
  <2>1. CASE StartStep \/ (Signal /\ UNCHANGED routing) \/ (Stopping /\ UNCHANGED routing)
    BY <2>1, ProcessKeeps DEF ServiceInv
  <2>2. CASE PrepareStep \/ PrepareFails
    BY <2>2, PreparationKeeps
  <2>3. CASE Incident
    BY <2>3, IncidentKeeps
  <2>4. CASE AgentStep \/ SearchFails \/ AgentFails
    BY <2>4, AgentKeeps
  <2>5. CASE UNCHANGED vars
    BY <2>5 DEF vars, lifecycle, routing, SearchInv, Snapped, FoundOK, OfferOK, AtRest, FirstOK, OfFirst
  <2> QED
    BY <2>1, <2>2, <2>3, <2>4, <2>5 DEF Next
<1> QED
  BY Invariant, <1>1, <1>2, PTL DEF Spec

(* What is offered is made of paths the searches found: each route shows   *)
(* one of them, from the start to the destination, and the routes are in   *)
(* order.                                                                  *)
LEMMA Offered ==
    ASSUME SearchInv
    PROVE  /\ \A k \in DOMAIN offer.routes : offer.routes[k].tenths = Length("minutes", offer.routes[k].rows)
           /\ \A k \in DOMAIN offer.routes :
                 LET r == offer.routes[k] IN
                 /\ r.cost = Cost(r) /\ Ridden(r.segs) = Length("metres", r.rows)
                 /\ Length("metres", r.rows) \in Nat
                 /\ Leads(r.segs, Name[offer.from], Name[offer.to]) /\ ShowsRides(r)
           /\ Ordered(offer.routes)
<1>1. CASE offer.routes = <<>>
  BY <1>1 DEF Ordered
<1> DEFINE a == Name[offer.from]
           b == Name[offer.to]
<1>2. CASE \E paths \in Seq(Drawn(offer.from, offer.to)) : offer.routes = Priced(Format(paths))
  <2> DEFINE D == Drawn(offer.from, offer.to)
  <2>1. PICK paths \in Seq(D) : offer.routes = Priced(Format(paths))
    BY <1>2
  <2> HIDE DEF D
  <2> DEFINE N == Len(paths)
  <2>2. N \in Nat /\ DOMAIN paths = 1 .. N /\ \A i \in 1 .. N : paths[i] \in D
    BY <2>1
  <2> HIDE DEF N
  <2>3. \A i \in 1 .. N : Proper(paths[i], AllNames, AllLines, a, b)
    BY <2>2 DEF D, Drawn
  <2>4. /\ \A k \in DOMAIN offer.routes : /\ \E i \in 1 .. N : Shows(offer.routes[k], paths[i])
                                            /\ offer.routes[k].cost = Cost(offer.routes[k])
                                            /\ Leads(offer.routes[k].segs, a, b)
        /\ Ordered(offer.routes)
    <3> DEFINE routes == Priced(Format(paths))
    <3>1. /\ \A k \in DOMAIN routes : /\ \E i \in 1 .. N : Shows(routes[k], paths[i])
                                      /\ routes[k].cost = Cost(routes[k])
                                      /\ Leads(routes[k].segs, a, b)
          /\ Ordered(routes)
      BY <2>2, <2>3, FormatOrders
    <3>2. offer.routes = routes
      BY <2>1
    <3> HIDE DEF routes
    <3> QED
      BY <3>1, <3>2
  <2>5. ASSUME NEW k \in DOMAIN offer.routes
        PROVE  LET r == offer.routes[k] IN
               /\ r.tenths = Length("minutes", r.rows)
               /\ r.cost = Cost(r) /\ Ridden(r.segs) = Length("metres", r.rows)
               /\ Length("metres", r.rows) \in Nat /\ Leads(r.segs, a, b) /\ ShowsRides(r)
    <3> DEFINE r == offer.routes[k]
    <3>1. (\E i \in 1 .. N : Shows(r, paths[i])) /\ r.cost = Cost(r) /\ Leads(r.segs, a, b)
      BY <2>4
    <3> HIDE DEF r
    <3>2. /\ r.tenths = Length("minutes", r.rows) /\ Ridden(r.segs) = Length("metres", r.rows)
          /\ Length("metres", r.rows) \in Nat /\ ShowsRides(r)
      BY <3>1 DEF Shows
    <3> QED
      BY <3>1, <3>2 DEF r
  <2> QED
    BY <2>4, <2>5
<1> QED
  BY <1>1, <1>2 DEF SearchInv, OfferOK

(* A route offered leads from the start to the destination without a gap.  *)
THEOREM RoutesLead == Spec => []RoutesConnected
<1>1. SearchInv => RoutesConnected
  BY Offered DEF RoutesConnected
<1> QED
  BY <1>1, SearchInvariant, PTL

(* A route offered shows the rides of its path, in their order, and names  *)
(* lines that run on all the links of each.                                *)
THEOREM RidesAreShown == Spec => []RidesShown
<1>1. SearchInv => RidesShown
  BY Offered DEF RidesShown
<1> QED
  BY <1>1, SearchInvariant, PTL

(* The minutes of a route offered are those of the links it goes over.     *)
THEOREM MinutesAdd == Spec => []MinutesConserved
<1>1. SearchInv => MinutesConserved
  BY Offered DEF MinutesConserved, Length, OfRow
<1> QED
  BY <1>1, SearchInvariant, PTL

(* What a route costs is the dearest base and whole hundreds that cover    *)
(* the metres ridden beyond 10 km (tools.py 190-231).                      *)
THEOREM CostFits ==
    ASSUME NEW r, NEW metres \in Nat, Ridden(r.segs) = metres, r.cost = Cost(r)
    PROVE  Fits(r, metres)
<1> DEFINE rides == {r.segs[i] : i \in Rides(r.segs)}
           base == Dearest(r.segs)
           over == metres - 10000
           n == IF over > 0 THEN (over + 4999) \div 5000 ELSE 0
<1>1. r.cost = IF base = 0 THEN 0 ELSE base + n * 100
  BY DEF Cost
<1>2. CASE Rides(r.segs) = {}
  BY <1>1, <1>2, DearestOf DEF Fits
<1>3. CASE Rides(r.segs) # {}
  <2>1. PICK s \in rides : base = Base(s)
    BY <1>3, DearestOf
  <2>2. base \in {1200, 1500, 1550, 3000} /\ \A o \in rides : Base(o) <= base
    BY <1>3, DearestOf
  <2>3. /\ n \in Nat /\ metres <= 10000 + 5000 * n
        /\ n > 0 => metres > 10000 + 5000 * (n - 1)
    OBVIOUS
  <2> HIDE DEF n, base
  <2>4. r.cost = base + 100 * n /\ (r.cost - base) \div 100 = n
    BY <1>1, <2>2, <2>3
  <2> HIDE DEF rides
  <2>5. \E t \in rides :
           LET steps == (r.cost - Base(t)) \div 100 IN
           /\ r.cost = Base(t) + 100 * steps /\ steps >= 0
           /\ \A o \in rides : Base(o) <= Base(t)
           /\ metres <= 10000 + 5000 * steps
           /\ steps > 0 => metres > 10000 + 5000 * (steps - 1)
    BY <2>1, <2>2, <2>3, <2>4
  <2> QED
    BY <1>3, <2>5 DEF Fits, rides
<1> QED
  BY <1>2, <1>3

(* The fare of a route offered is that of its dearest ride and of the      *)
(* metres it rides.                                                        *)
THEOREM FareFollows == Spec => []FareFits
<1>1. SearchInv => FareFits
  <2>1. ASSUME SearchInv, NEW k \in DOMAIN offer.routes
        PROVE  Fits(offer.routes[k], Length("metres", offer.routes[k].rows))
    BY <2>1, Offered, CostFits
  <2>2. \A rows : Length("metres", rows)
                     = Sum([i \in DOMAIN rows |-> IF rows[i].rel = "NEXT_STOP" THEN rows[i].dist ELSE 0])
    BY DEF Length, OfRow
  <2> QED
    BY <2>1, <2>2 DEF FareFits
<1> QED
  BY <1>1, SearchInvariant, PTL

(* The routes offered come quickest first, and differ.                     *)
THEOREM OffersDiffer == Spec => []RoutesDiffer
<1>1. SearchInv => RoutesDiffer
  BY Offered DEF RoutesDiffer, Ordered
<1> QED
  BY <1>1, SearchInvariant, PTL

(* The rows of a walk tell its weight: it is that of the links they show.  *)
LEMMA TakenWeighs ==
    ASSUME NEW s, NEW p \in Walks(s)
    PROVE  PathWeight(1, Taken([j \in DOMAIN p |-> Row(1, p[j])]), {}) = PathWeight(1, p, {})
<1> DEFINE N == Len(p)
           rows == [j \in DOMAIN p |-> Row(1, p[j])]
<1>1. DOMAIN p = 1 .. N /\ \A j \in 1 .. N : p[j] \in Links
  BY DEF Walks
<1> HIDE DEF N
<1>2. DOMAIN rows = 1 .. N /\ \A j \in 1 .. N : rows[j] = Row(1, p[j])
  BY <1>1
<1> HIDE DEF rows
<1>3. DOMAIN Taken(rows) = 1 .. N
  BY <1>2 DEF Taken
<1>4. ASSUME NEW j \in 1 .. N PROVE Weight(1, Taken(rows)[j], {}) = Weight(1, p[j], {})
  <2>1. Taken(rows)[j] = [src |-> p[j].src, dst |-> p[j].dst, rel |-> p[j].rel,
                          sec |-> p[j].sec, dist |-> p[j].dist]
    BY <1>2 DEF Taken, Row
  <2>2. /\ Taken(rows)[j].src = p[j].src /\ Taken(rows)[j].dst = p[j].dst
        /\ Taken(rows)[j].rel = p[j].rel /\ Taken(rows)[j].sec = p[j].sec
    BY <2>1
  <2> QED
    BY <2>2 DEF Weight, WalkWeight, RideWeight, Touches, OnSubway
<1>5. [j \in 1 .. N |-> Weight(1, Taken(rows)[j], {})] = [j \in 1 .. N |-> Weight(1, p[j], {})]
  BY <1>4
<1>6. PathWeight(1, Taken(rows), {}) = PathWeight(1, p, {})
  BY <1>1, <1>3, <1>5 DEF PathWeight
<1> QED
  BY <1>6 DEF rows

(* The first search leads clear of the incidents it knew, or every way     *)
(* clear of them weighs two hours more than the one it took, or longer.    *)
THEOREM FirstKeepsClear == Spec => []FirstAvoids
<1>1. ServiceInv /\ SearchInv => FirstAvoids
  <2> SUFFICES ASSUME ServiceInv, SearchInv, mode = "daemon", main = "run", NEW i \in DOMAIN offer.first
               PROVE  \/ RowsAvoid(offer.first[i], proj[1])
                      \/ \A p \in AllPaths[1][offer.from] :
                            Last(p).dst = offer.to /\ Nodes(p) \cap proj[1] = {} =>
                                PathWeight(1, p, {}) >=
                                    PathWeight(1, Taken(offer.first[i]), {}) + 2 * Penalty
    BY DEF FirstAvoids
  <2>1. proj[1] \in SUBSET Platform
    BY DEF ServiceInv, TypeOK, BuiltAlike, Graph
  <2>2. /\ offer.from \in Master /\ offer.to \in Master
        /\ offer.first = Search(1, offer.from, offer.to, proj[1])
    BY DEF SearchInv, FirstOK, OfFirst
  <2>3. PICK p \in Walks(offer.from) :
            /\ offer.first[i] = [j \in DOMAIN p |-> Row(1, p[j])]
            /\ Clear(offer.first[i], proj[1]) \/ WorthIt(p, offer.from, offer.to, proj[1])
    BY <2>1, <2>2, FirstSearchClear
  <2>4. PathWeight(1, Taken(offer.first[i]), {}) = PathWeight(1, p, {})
    BY <2>3, TakenWeighs
  <2> QED
    BY <2>3, <2>4 DEF Clear, RowsAvoid, WorthIt
<1> QED
  BY <1>1, Invariant, SearchInvariant, PTL
=============================================================================
