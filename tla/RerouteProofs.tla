--------------------------- MODULE RerouteProofs ---------------------------
(***************************************************************************)
(* Theorems about Reroute for every number of districts, users, incidents  *)
(* and messages and however many calls fail: the two tasks of MAS02 alert  *)
(* before they reroute, also across crashes; they find a user at most once *)
(* each; and unless something fails, who is marked has or gets the alert   *)
(* and a stored route has or gets its lifetime.  What they do implements   *)
(* the abstract notices, and every batch comes to its end.                 *)
(***************************************************************************)
EXTENDS Reroute, FiniteSetTheorems, TLAPS

USE DEF NoEntry, NoGroup, NoRoute

Busy == Pc \ {"down", "loop"}

(* What a task holds: entries that are on their stream; from the search on *)
(* the entry it is at; the user it is at and the users still to go, once   *)
(* the search is over, are among those it found.                           *)
Placed(e) == e \in Entry /\ e[2] <= Len(src[e[1]])

Holds(w) ==
    /\ \A e \in todo[w] : Placed(e)
    /\ pc[w] \in Busy => Placed(entry[w])
    /\ pc[w] \in {"mark", "live", "expire", "done"} => user[w] \in found[w]
    /\ pc[w] \in {"inbox", "route", "live", "expire", "done"} => users[w] \subseteq found[w]

InHand == /\ \A w \in Task : Holds(w)
          /\ pc["consumer"] = "down" <=> pc["patrol"] = "down"

-----------------------------------------------------------------------------
(* The parts of the type invariant, by what writes them.                   *)
QueueOK  == /\ src \in [Gu -> Seq(Incident)]
            /\ group \in [Gu -> Nat \cup {NoGroup}] /\ \A g \in Gu : group[g] <= Len(src[g])
            /\ pel \subseteq Entry
WorldOK  == /\ graph \subseteq Incident /\ xy \in [User -> (SUBSET Incident) \cup {NoXY}]
            /\ moves \in 0 .. MaxMoves
SharedOK == /\ marked \subseteq Pair /\ inbox \in [User -> SUBSET Incident]
            /\ live \in [User -> [inc : Incident \cup {None}, ttl : Incident \cup {None}]]
            /\ seen \in [Pair -> Nat]
HandsOK  == /\ pc \in [Task -> Pc] /\ todo \in [Task -> SUBSET Entry]
            /\ entry \in [Task -> Entry \cup {NoEntry}]
            /\ users \in [Task -> SUBSET User] /\ found \in [Task -> SUBSET User]
            /\ user \in [Task -> User \cup {None}] /\ beat \in Gu
CountsOK == faults \in 0 .. MaxFaults /\ aborts \in 0 .. faults /\ crashes \in 0 .. MaxCrashes

(* The type of the state, part by part.                                    *)
LEMMA TypeParts == TypeOK <=> QueueOK /\ WorldOK /\ SharedOK /\ HandsOK /\ CountsOK
BY DEF TypeOK, QueueOK, WorldOK, SharedOK, HandsOK, CountsOK

(* The entry a task is at names an incident.                               *)
LEMMA EntryPlaced ==
    ASSUME QueueOK, NEW e, Placed(e)
    PROVE  e[1] \in Gu /\ e[2] \in 1 .. Len(src[e[1]]) /\ src[e[1]][e[2]] \in Incident
<1>1. e[1] \in Gu /\ e[2] \in Nat \ {0} /\ e[2] <= Len(src[e[1]])
  BY DEF Placed, Entry
<1>2. src[e[1]] \in Seq(Incident) /\ Len(src[e[1]]) \in Nat
  BY <1>1 DEF QueueOK
<1> QED
  BY <1>1, <1>2

(* An entry of a stream has a place in it.                                 *)
LEMMA EntriesPlaced ==
    ASSUME QueueOK, NEW g \in Gu, NEW e \in Entries(g)
    PROVE  Placed(e)
<1>1. Len(src[g]) \in Nat
  BY DEF QueueOK
<1>2. PICK k \in 1 .. Len(src[g]) : e = <<g, k>>
  BY DEF Entries
<1> QED
  BY <1>1, <1>2 DEF Placed, Entry

(* Streams only grow: what an entry says never changes.                    *)
LEMMA StreamsGrow ==
    ASSUME QueueOK, [Next]_vars
    PROVE  /\ src' \in [Gu -> Seq(Incident)]
           /\ \A g \in Gu : Len(src[g]) \in Nat /\ Len(src'[g]) \in Nat /\ Len(src[g]) <= Len(src'[g])
           /\ \A e : Placed(e) => Placed(e)' /\ src'[e[1]][e[2]] = src[e[1]][e[2]]
<1>1. ASSUME NEW g \in Gu PROVE src[g] \in Seq(Incident) /\ Len(src[g]) \in Nat
  BY DEF QueueOK
<1>2. CASE src' = src
  BY <1>1, <1>2 DEF QueueOK, Placed
<1>3. CASE Publish
  <2>1. PICK g \in Gu, i \in Incident : src' = [src EXCEPT ![g] = Append(@, i)]
    BY <1>3 DEF Publish
  <2>2. /\ Append(src[g], i) \in Seq(Incident) /\ Len(Append(src[g], i)) = Len(src[g]) + 1
        /\ \A k \in 1 .. Len(src[g]) : Append(src[g], i)[k] = src[g][k]
    BY <1>1
  <2>3. /\ src' \in [Gu -> Seq(Incident)] /\ src'[g] = Append(src[g], i)
        /\ \A h \in Gu : h # g => src'[h] = src[h]
    BY <2>1, <2>2 DEF QueueOK
  <2>4. \A h \in Gu : /\ Len(src'[h]) \in Nat /\ Len(src[h]) <= Len(src'[h])
                      /\ \A k \in 1 .. Len(src[h]) : src'[h][k] = src[h][k]
    BY <1>1, <2>2, <2>3, SMTT(60)
  <2>5. ASSUME NEW e, Placed(e) PROVE Placed(e)' /\ src'[e[1]][e[2]] = src[e[1]][e[2]]
    <3>1. e[1] \in Gu /\ e[2] \in 1 .. Len(src[e[1]]) /\ e \in Entry
      BY <2>5, EntryPlaced DEF Placed
    <3> QED
      BY <1>1, <2>4, <3>1 DEF Placed
  <2> QED
    BY <1>1, <2>3, <2>4, <2>5
<1>4. src' = src \/ Publish
  BY DEF Next, Consumer, Patrol, Process, StartUp, Read, ReadLost, Sweep, Take, Locate, Probe, Mark,
         EndScan, Summarise, Alert, EndAlerts, Agent, EndRoutes, SetLive, Expire, Done, Ack,
         ReadRaises, WriteRaises, Crash, Move, redis, vars
<1> QED
  BY <1>2, <1>3, <1>4

-----------------------------------------------------------------------------
(* Who takes a step.                                                       *)
LEMMA Actors ==
    ASSUME [Next]_vars
    PROVE  \/ \E w \in Task : Process(w)
           \/ Read \/ ReadLost \/ Ack \/ Sweep \/ StartUp \/ Crash \/ Publish \/ Move \/ UNCHANGED vars
<1>1. "consumer" \in Task /\ "patrol" \in Task
  BY DEF Task
<1> QED
  BY <1>1 DEF Next, Consumer, Patrol

-----------------------------------------------------------------------------
(* The type invariant, part by part.                                       *)
LEMMA Delivered ==
    ASSUME QueueOK, Deliver
    PROVE  /\ \A e \in FreshAll : Placed(e)
           /\ pel' \subseteq Entry /\ group' \in [Gu -> Nat \cup {NoGroup}]
           /\ \A g \in Gu : group'[g] <= Len(src[g])
<1>1. \A e \in FreshAll : Placed(e)
  BY EntriesPlaced DEF FreshAll, Fresh
<1>2. pel' \subseteq Entry
  BY <1>1 DEF Deliver, QueueOK, Placed
<1>3. ASSUME NEW g \in Gu
      PROVE  /\ group[g] \in Nat /\ Len(src[g]) \in Nat /\ group[g] <= Len(src[g])
             /\ Fresh(g) # {} => group[g] + 1 <= Len(src[g])
  <2>1. group[g] \in Nat /\ Len(src[g]) \in Nat /\ group[g] <= Len(src[g])
    BY DEF QueueOK, Deliver
  <2>2. ASSUME NEW e \in Fresh(g) PROVE group[g] + 1 <= Len(src[g])
    <3>1. PICK k \in 1 .. Len(src[g]) : e = <<g, k>>
      BY DEF Fresh, Entries
    <3> QED
      BY <2>1, <3>1 DEF Fresh
  <2> QED
    BY <2>1, <2>2
<1>4. group' = [g \in Gu |-> IF Fresh(g) # {} THEN group[g] + 1 ELSE group[g]]
  BY DEF Deliver
<1> QED
  BY <1>1, <1>2, <1>3, <1>4

(* Every step keeps the streams and their groups in their types.           *)
LEMMA QueueStep ==
    ASSUME QueueOK, [Next]_vars
    PROVE  QueueOK'
<1>1. /\ src' \in [Gu -> Seq(Incident)]
      /\ \A g \in Gu : Len(src[g]) \in Nat /\ Len(src'[g]) \in Nat /\ Len(src[g]) <= Len(src'[g])
  BY StreamsGrow
<1>2. ASSUME /\ pel' \subseteq Entry /\ group' \in [Gu -> Nat \cup {NoGroup}]
             /\ \A g \in Gu : group'[g] <= Len(src[g])
      PROVE  QueueOK'
  <2>1. ASSUME NEW g \in Gu PROVE group'[g] <= Len(src'[g])
    <3>1. /\ group'[g] \in Nat \cup {-1} /\ group'[g] <= Len(src[g]) /\ Len(src[g]) <= Len(src'[g])
          /\ Len(src[g]) \in Nat /\ Len(src'[g]) \in Nat
      BY <1>1, <1>2
    <3> QED
      BY <3>1
  <2> QED
    BY <1>1, <1>2, <2>1 DEF QueueOK
<1>3. CASE StartUp
  <2>1. PICK destroyed \in SUBSET Gu, created \in SUBSET Gu :
          LET kept == {g \in Gu \ destroyed : group[g] # NoGroup} IN
          /\ group' = [g \in Gu |-> IF g \in kept THEN group[g] ELSE IF g \in created THEN 0 ELSE NoGroup]
          /\ pel' = {e \in pel : e[1] \in kept}
    BY <1>3 DEF StartUp
  <2>2. pel' \subseteq Entry /\ group' \in [Gu -> Nat \cup {NoGroup}]
    BY <2>1 DEF QueueOK
  <2>3. ASSUME NEW g \in Gu PROVE group'[g] <= Len(src[g])
    <3>1. group'[g] \in {group[g], 0, -1} /\ group[g] <= Len(src[g])
      BY <2>1 DEF QueueOK
    <3> QED
      BY <1>1, <3>1
  <2> QED
    BY <1>2, <2>2, <2>3
<1>4. CASE Deliver
  BY <1>2, <1>4, Delivered
<1>5. CASE group' = group /\ pel' \subseteq pel
  BY <1>2, <1>5 DEF QueueOK
<1>6. StartUp \/ Deliver \/ (group' = group /\ pel' \subseteq pel)
  BY DEF Next, Consumer, Patrol, Process, Read, ReadLost, Sweep, Take, Locate, Probe, Mark, EndScan,
         Summarise, Alert, EndAlerts, Agent, EndRoutes, SetLive, Expire, Done, Ack, ReadRaises,
         WriteRaises, Crash, Publish, Move, redis, vars
<1> QED
  BY <1>3, <1>4, <1>5, <1>6

(* Every step keeps what the world holds in its type.                      *)
LEMMA WorldStep ==
    ASSUME WorldOK, [Next]_vars
    PROVE  WorldOK'
<1>1. CASE StartUp
  BY <1>1 DEF StartUp, WorldOK
<1>2. CASE Publish
  BY <1>2 DEF Publish, WorldOK
<1>3. CASE Move
  BY <1>3, BoundsAssumption DEF Move, WorldOK
<1>4. CASE UNCHANGED world
  BY <1>4 DEF world, WorldOK
<1>5. StartUp \/ Publish \/ Move \/ UNCHANGED world
  BY DEF Next, Consumer, Patrol, Process, Read, ReadLost, Sweep, Take, Locate, Probe, Mark, EndScan,
         Summarise, Alert, EndAlerts, Agent, EndRoutes, SetLive, Expire, Done, Ack, ReadRaises,
         WriteRaises, Crash, world, vars
<1> QED
  BY <1>1, <1>2, <1>3, <1>4, <1>5

(* Every step keeps the counters in their bounds; they only grow.          *)
LEMMA CountsStep ==
    ASSUME CountsOK, [Next]_vars
    PROVE  CountsOK' /\ faults <= faults' /\ aborts <= aborts' /\ crashes <= crashes'
<1> DEFINE Counted == \/ UNCHANGED counts
                      \/ Fault
                      \/ faults < MaxFaults /\ faults' = faults + 1 /\ aborts' = aborts + 1 /\ UNCHANGED crashes
                      \/ crashes < MaxCrashes /\ crashes' = crashes + 1 /\ UNCHANGED <<faults, aborts>>
<1>1. ASSUME NEW w \in Task, Process(w) PROVE Counted
  BY <1>1 DEF Process, Take, Locate, Probe, Mark, EndScan, Summarise, Alert, EndAlerts, Agent, EndRoutes,
              SetLive, Expire, Done, ReadRaises, WriteRaises, Drop, counts
<1>2. ASSUME Read \/ Ack \/ Sweep \/ Publish \/ Move \/ UNCHANGED vars PROVE Counted
  BY <1>2 DEF Read, Ack, Sweep, Publish, Move, counts, vars
<1>3. ASSUME ReadLost \/ Crash PROVE Counted
  BY <1>3 DEF ReadLost, Crash, Drop
<1>4. ASSUME StartUp PROVE Counted
  BY <1>4 DEF StartUp, counts
<1>5. Counted
  BY <1>1, <1>2, <1>3, <1>4, Actors
<1> QED
  BY <1>5, BoundsAssumption DEF CountsOK, Fault, counts

(* Every step keeps what each task has in hand in its type.                *)
LEMMA HandsStep ==
    ASSUME QueueOK, HandsOK, [Next]_vars
    PROVE  HandsOK'
<1> USE BoundsAssumption DEF HandsOK, Goto, hands
<1> DEFINE Kept == UNCHANGED <<pc, todo, hands, beat>>
<1>0. /\ {"consumer", "patrol"} \subseteq Task /\ {"down", "loop"} \subseteq Pc
      /\ \A w \in Task : pc[w] \in Pc /\ todo[w] \subseteq Entry /\ users[w] \subseteq User /\ found[w] \subseteq User
      /\ 1 \in Gu
  BY DEF Task, Pc, Gu
<1>1. ASSUME NEW w \in Task, Take(w) PROVE HandsOK'
  BY <1>0, <1>1 DEF Take, Pc
<1>2. ASSUME NEW w \in Task, Locate(w) PROVE HandsOK'
  BY <1>0, <1>2 DEF Locate, Finish, Pc
<1>3. ASSUME NEW w \in Task, Probe(w) PROVE HandsOK'
  BY <1>0, <1>3 DEF Probe, Pc
<1>4. ASSUME NEW w \in Task, Mark(w) PROVE HandsOK'
  BY <1>0, <1>4 DEF Mark, Pc
<1>5. ASSUME NEW w \in Task, EndScan(w) PROVE HandsOK'
  BY <1>0, <1>5 DEF EndScan, Finish, hands, Pc
<1>6. ASSUME NEW w \in Task, Summarise(w) PROVE HandsOK'
  BY <1>0, <1>6 DEF Summarise, Pc
<1>7. ASSUME NEW w \in Task, Alert(w) PROVE HandsOK'
  BY <1>0, <1>7 DEF Alert, Pc
<1>8. ASSUME NEW w \in Task, EndAlerts(w) PROVE HandsOK'
  BY <1>0, <1>8 DEF EndAlerts, Pc
<1>9. ASSUME NEW w \in Task, Agent(w) PROVE HandsOK'
  BY <1>0, <1>9 DEF Agent, Pc
<1>10. ASSUME NEW w \in Task, EndRoutes(w) PROVE HandsOK'
  BY <1>0, <1>10 DEF EndRoutes, Finish, Pc
<1>11. ASSUME NEW w \in Task, SetLive(w) PROVE HandsOK'
  BY <1>0, <1>11 DEF SetLive, Pc
<1>12. ASSUME NEW w \in Task, Expire(w) PROVE HandsOK'
  BY <1>0, <1>12 DEF Expire, Pc
<1>13. ASSUME NEW w \in Task, Done(w) PROVE HandsOK'
  BY <1>0, <1>13 DEF Done, Pc
<1>14. ASSUME NEW w \in Task, ReadRaises(w) PROVE HandsOK'
  BY <1>0, <1>14 DEF ReadRaises, Drop, Pc
<1>15. ASSUME NEW w \in Task, WriteRaises(w) PROVE HandsOK'
  BY <1>0, <1>15 DEF WriteRaises, Drop, Pc
<1>16. CASE Read
  BY <1>0, <1>16, Delivered DEF Read, Placed
<1>17. CASE ReadLost
  BY <1>0, <1>17 DEF ReadLost, Drop
<1>18. CASE Ack
  BY <1>0, <1>18 DEF Ack
<1>19. CASE Sweep
  <2>1. \A e \in Entries(beat) : e \in Entry
    BY EntriesPlaced DEF Placed
  <2>2. beat' \in Gu
    BY <1>19 DEF Sweep, Gu
  <2> QED
    BY <1>0, <1>19, <2>1, <2>2 DEF Sweep
<1>20. CASE StartUp
  BY <1>0, <1>20 DEF StartUp
<1>21. CASE Crash
  BY <1>0, <1>21 DEF Crash
<1>22. CASE Publish \/ Move \/ UNCHANGED vars
  BY <1>22 DEF Publish, Move, vars
<1>23. ASSUME NEW w \in Task, Process(w) PROVE HandsOK'
  BY <1>23, <1>1, <1>2, <1>3, <1>4, <1>5, <1>6, <1>7, <1>8, <1>9, <1>10, <1>11, <1>12, <1>13, <1>14, <1>15 DEF Process
<1> QED
  BY Actors, <1>16, <1>17, <1>18, <1>19, <1>20, <1>21, <1>22, <1>23

-----------------------------------------------------------------------------
(* A task writes nothing that the other one holds.                         *)
Same(v) == /\ pc'[v] = pc[v] /\ todo'[v] = todo[v] /\ entry'[v] = entry[v]
           /\ users'[v] = users[v] /\ found'[v] = found[v] /\ user'[v] = user[v]

Acts(w) == Process(w) \/ (w = "consumer" /\ (Read \/ ReadLost \/ Ack)) \/ (w = "patrol" /\ Sweep)

(* An action of a task is that of a task that is up, and leaves the others *)
(* as they are.                                                            *)
LEMMA OthersKeep ==
    ASSUME HandsOK, NEW w \in Task, Acts(w)
    PROVE  pc[w] # "down" /\ pc'[w] # "down" /\ \A v \in Task \ {w} : Same(v)
<1> USE DEF HandsOK, Same, Goto, hands
<1>1. CASE Take(w)
  BY <1>1 DEF Take
<1>2. CASE Locate(w)
  BY <1>2 DEF Locate, Finish
<1>3. CASE Probe(w)
  BY <1>3 DEF Probe
<1>4. CASE Mark(w)
  BY <1>4 DEF Mark
<1>5. CASE EndScan(w)
  BY <1>5 DEF EndScan, Finish, hands
<1>6. CASE Summarise(w)
  BY <1>6 DEF Summarise
<1>7. CASE Alert(w)
  BY <1>7 DEF Alert
<1>8. CASE EndAlerts(w)
  BY <1>8 DEF EndAlerts
<1>9. CASE Agent(w)
  BY <1>9 DEF Agent
<1>10. CASE EndRoutes(w)
  BY <1>10 DEF EndRoutes, Finish
<1>11. CASE SetLive(w)
  BY <1>11 DEF SetLive
<1>12. CASE Expire(w)
  BY <1>12 DEF Expire
<1>13. CASE Done(w)
  BY <1>13 DEF Done
<1>14. CASE ReadRaises(w)
  BY <1>14 DEF ReadRaises, Drop
<1>15. CASE WriteRaises(w)
  BY <1>15 DEF WriteRaises, Drop
<1>16. CASE w = "consumer" /\ (Read \/ ReadLost \/ Ack)
  BY <1>16 DEF Read, ReadLost, Ack, Deliver, Drop
<1>17. CASE w = "patrol" /\ Sweep
  BY <1>17 DEF Sweep
<1> QED
  BY <1>1, <1>2, <1>3, <1>4, <1>5, <1>6, <1>7, <1>8, <1>9, <1>10, <1>11, <1>12, <1>13, <1>14, <1>15, <1>16, <1>17 DEF Acts, Process

(* Every step is that of a task or of the world.                           *)
LEMMA TaskOrWorld ==
    ASSUME [Next]_vars
    PROVE  (\E w \in Task : Acts(w)) \/ StartUp \/ Crash \/ Publish \/ Move \/ UNCHANGED vars
BY Actors DEF Acts, Task

(* What a task that stays as it is holds is still on its stream, and the   *)
(* entry it is at still names the same incident.                           *)
LEMMA HeldStays ==
    ASSUME QueueOK, [Next]_vars, NEW w \in Task, Holds(w), Same(w)
    PROVE  Holds(w)' /\ (pc[w] \in Busy => Inc(w)' = Inc(w))
<1>1. \A e : Placed(e) => Placed(e)' /\ src'[e[1]][e[2]] = src[e[1]][e[2]]
  BY StreamsGrow
<1> QED
  BY <1>1 DEF Holds, Same, Inc

(* Every step keeps that a busy task holds a pending entry.                *)
LEMMA InHandStep ==
    ASSUME QueueOK, HandsOK, InHand, [Next]_vars
    PROVE  InHand'
<1> USE DEF HandsOK, Goto, hands
<1>0. \A e : Placed(e) => Placed(e)'
  BY StreamsGrow
<1>H. ASSUME NEW w \in Task PROVE Holds(w)
  BY DEF InHand
<1>B. Busy = {"locate", "scan", "mark", "alert", "inbox", "route", "live", "expire", "done", "ack"}
  BY DEF Busy, Pc
<1>1. ASSUME NEW w \in Task, Take(w) PROVE Holds(w)'
  BY <1>0, <1>H, <1>B, <1>1 DEF Take, Holds
<1>2. ASSUME NEW w \in Task, Locate(w) PROVE Holds(w)'
  BY <1>0, <1>H, <1>B, <1>2 DEF Locate, Finish, Holds
<1>3. ASSUME NEW w \in Task, Probe(w) PROVE Holds(w)'
  BY <1>0, <1>H, <1>B, <1>3 DEF Probe, Holds
<1>4. ASSUME NEW w \in Task, Mark(w) PROVE Holds(w)'
  BY <1>0, <1>H, <1>B, <1>4 DEF Mark, Holds
<1>5. ASSUME NEW w \in Task, EndScan(w) PROVE Holds(w)'
  BY <1>0, <1>H, <1>B, <1>5 DEF EndScan, Finish, hands, Holds
<1>6. ASSUME NEW w \in Task, Summarise(w) PROVE Holds(w)'
  BY <1>0, <1>H, <1>B, <1>6 DEF Summarise, Holds
<1>7. ASSUME NEW w \in Task, Alert(w) PROVE Holds(w)'
  BY <1>0, <1>H, <1>B, <1>7 DEF Alert, Holds
<1>8. ASSUME NEW w \in Task, EndAlerts(w) PROVE Holds(w)'
  BY <1>0, <1>H, <1>B, <1>8 DEF EndAlerts, Holds
<1>9. ASSUME NEW w \in Task, Agent(w) PROVE Holds(w)'
  BY <1>0, <1>H, <1>B, <1>9 DEF Agent, Holds
<1>10. ASSUME NEW w \in Task, EndRoutes(w) PROVE Holds(w)'
  BY <1>0, <1>H, <1>B, <1>10 DEF EndRoutes, Finish, Holds
<1>11. ASSUME NEW w \in Task, SetLive(w) PROVE Holds(w)'
  BY <1>0, <1>H, <1>B, <1>11 DEF SetLive, Holds
<1>12. ASSUME NEW w \in Task, Expire(w) PROVE Holds(w)'
  BY <1>0, <1>H, <1>B, <1>12 DEF Expire, Holds
<1>13. ASSUME NEW w \in Task, Done(w) PROVE Holds(w)'
  BY <1>0, <1>H, <1>B, <1>13 DEF Done, Holds
<1>14. ASSUME NEW w \in Task, ReadRaises(w) PROVE Holds(w)'
  BY <1>0, <1>H, <1>B, <1>14 DEF ReadRaises, Drop, Holds
<1>15. ASSUME NEW w \in Task, WriteRaises(w) PROVE Holds(w)'
  BY <1>0, <1>H, <1>B, <1>15 DEF WriteRaises, Drop, Holds
<1>16. ASSUME Read \/ ReadLost \/ Ack PROVE Holds("consumer")'
  <2>1. "consumer" \in Task /\ Holds("consumer")
    BY <1>H DEF Task
  <2>2. ASSUME Read PROVE Holds("consumer")'
    BY <1>0, <1>B, <2>1, <2>2, Delivered DEF Holds, Read, Deliver
  <2>3. ASSUME ReadLost PROVE Holds("consumer")'
    BY <1>B, <2>1, <2>3 DEF Holds, ReadLost, Drop
  <2>4. ASSUME Ack PROVE Holds("consumer")'
    BY <1>0, <1>B, <2>1, <2>4 DEF Holds, Ack
  <2> QED
    BY <1>16, <2>2, <2>3, <2>4
<1>17. ASSUME Sweep PROVE Holds("patrol")'
  <2>1. "patrol" \in Task /\ \A e \in Entries(beat) : Placed(e)
    BY EntriesPlaced DEF Task
  <2> QED
    BY <1>0, <1>B, <1>17, <2>1 DEF Holds, Sweep
<1>18. ASSUME NEW w \in Task, Acts(w) PROVE InHand'
  <2>1. Holds(w)'
    BY <1>1, <1>2, <1>3, <1>4, <1>5, <1>6, <1>7, <1>8, <1>9, <1>10, <1>11, <1>12, <1>13, <1>14, <1>15, <1>16, <1>17, <1>18 DEF Acts, Process
  <2>2. /\ pc[w] # "down" /\ pc'[w] # "down" /\ \A v \in Task \ {w} : Same(v)
        /\ \A v \in Task : (pc[v] = "down") = (pc'[v] = "down")
    BY <1>18, OthersKeep DEF Same
  <2>3. \A v \in Task \ {w} : Holds(v)'
    BY <1>H, <2>2, HeldStays
  <2> QED
    BY <2>1, <2>2, <2>3 DEF InHand, Task
<1>19. CASE StartUp
  <2>1. \A w \in Task : pc[w] = "down" /\ pc'[w] = "loop"
    BY <1>19 DEF StartUp, Up, InHand, Task
  <2> QED
    BY <1>0, <1>H, <1>B, <1>19, <2>1 DEF InHand, Holds, StartUp, Task
<1>20. CASE Crash
  BY <1>B, <1>20 DEF InHand, Holds, Crash, Task
<1>21. CASE Publish \/ Move \/ UNCHANGED vars
  <2>1. UNCHANGED <<pc, todo, hands>>
    BY <1>21 DEF Publish, Move, vars
  <2>2. \A w \in Task : Same(w)
    BY <2>1 DEF Same
  <2> QED
    BY <1>H, <2>1, <2>2, HeldStays DEF InHand, Task
<1> QED
  BY TaskOrWorld, <1>18, <1>19, <1>20, <1>21

(* A busy task works on an incident, and past the check for a user.        *)
LEMMA AtWork ==
    ASSUME QueueOK, HandsOK, InHand, NEW w \in Task
    PROVE  /\ pc[w] \in Busy => Inc(w) \in Incident
           /\ pc[w] \in {"mark", "live", "expire", "done"} => user[w] \in User
BY EntryPlaced DEF InHand, Holds, Inc, HandsOK

(* Every step keeps what the tasks share in its type.                      *)
LEMMA SharedStep ==
    ASSUME QueueOK, HandsOK, InHand, SharedOK, [Next]_vars
    PROVE  SharedOK'
<1> USE DEF SharedOK, Goto
<1>0. ASSUME NEW w \in Task
      PROVE  /\ pc[w] \in {"scan", "mark", "inbox", "live", "expire", "done"} => Inc(w) \in Incident
             /\ pc[w] \in {"mark", "live", "expire", "done"} => user[w] \in User
             /\ users[w] \subseteq User
  BY AtWork DEF Busy, Pc, HandsOK
<1>1. ASSUME NEW w \in Task, Probe(w) PROVE SharedOK'
  <2>1. UNCHANGED <<marked, inbox, live>>
    BY <1>1 DEF Probe, redis
  <2>2. PICK u \in User : seen' \in {seen, [seen EXCEPT ![<<u, Inc(w)>>] = @ + 1]}
    BY <1>0, <1>1 DEF Probe
  <2>3. <<u, Inc(w)>> \in Pair
    BY <1>0, <1>1 DEF Probe, Pair
  <2>4. seen' \in [Pair -> Nat]
    BY <2>2, <2>3
  <2> QED
    BY <2>1, <2>4
<1>2. ASSUME NEW w \in Task, Mark(w) \/ Done(w) PROVE SharedOK'
  BY <1>0, <1>2 DEF Mark, Done, Pair
<1>3. ASSUME NEW w \in Task, Alert(w) PROVE SharedOK'
  BY <1>0, <1>3 DEF Alert
<1>4. ASSUME NEW w \in Task, SetLive(w) PROVE SharedOK'
  <2> DEFINE stored == [live EXCEPT ![user[w]] = [inc |-> Inc(w), ttl |-> None]]
  <2>1. Inc(w) \in Incident /\ live' \in {live, stored}
    BY <1>0, <1>4 DEF SetLive
  <2>2. live' \in [User -> [inc : Incident \cup {None}, ttl : Incident \cup {None}]]
    BY <2>1
  <2> QED
    BY <1>4, <2>2 DEF SetLive
<1>5. ASSUME NEW w \in Task, Expire(w) PROVE SharedOK'
  <2> DEFINE kept == [live EXCEPT ![user[w]].ttl = Inc(w)]
  <2>1. Inc(w) \in Incident /\ user[w] \in User /\ live' \in {live, kept}
    BY <1>0, <1>5 DEF Expire
  <2>2. [live[user[w]] EXCEPT !.ttl = Inc(w)] \in [inc : Incident \cup {None}, ttl : Incident \cup {None}]
    BY <2>1
  <2>3. kept = [live EXCEPT ![user[w]] = [live[user[w]] EXCEPT !.ttl = Inc(w)]]
    OBVIOUS
  <2> HIDE DEF kept
  <2>4. live' \in [User -> [inc : Incident \cup {None}, ttl : Incident \cup {None}]]
    BY <2>1, <2>2, <2>3
  <2> QED
    BY <1>5, <2>4 DEF Expire
<1>6. ASSUME NEW w \in Task, WriteRaises(w) PROVE SharedOK'
  <2>1. marked' \in {marked, marked \cup {<<user[w], Inc(w)>>}}
        /\ (marked' # marked => pc[w] \in {"mark", "done"})
    BY <1>6 DEF WriteRaises
  <2> QED
    BY <1>0, <1>6, <2>1 DEF WriteRaises, Pair
<1>7. ASSUME NEW w \in Task, Process(w), ~Probe(w), ~Mark(w), ~Done(w), ~Alert(w), ~SetLive(w), ~Expire(w),
             ~WriteRaises(w)
      PROVE  UNCHANGED <<marked, inbox, live, seen>>
  BY <1>7 DEF Process, Take, Locate, EndScan, Summarise, EndAlerts, Agent, EndRoutes, ReadRaises, redis
<1>8. CASE Read \/ ReadLost \/ Ack \/ Sweep \/ StartUp \/ Crash \/ Publish \/ Move \/ UNCHANGED vars
  <2>1. UNCHANGED <<marked, inbox, live, seen>>
    BY <1>8 DEF Read, ReadLost, Ack, Sweep, StartUp, Crash, Publish, Move, redis, vars
  <2> QED
    BY <2>1
<1> QED
  BY <1>1, <1>2, <1>3, <1>4, <1>5, <1>6, <1>7, <1>8, Actors

(* All of it holds at the start.                                           *)
LEMMA InitTypes ==
    ASSUME Init
    PROVE  QueueOK /\ WorldOK /\ SharedOK /\ HandsOK /\ CountsOK /\ InHand
<1>1. QueueOK /\ WorldOK /\ CountsOK
  BY BoundsAssumption DEF Init, QueueOK, WorldOK, CountsOK
<1>2. SharedOK /\ HandsOK
  BY BoundsAssumption DEF Init, SharedOK, HandsOK, Pc, Gu
<1>3. InHand
  BY DEF Init, InHand, Holds, Busy, Task
<1> QED
  BY <1>1, <1>2, <1>3

-----------------------------------------------------------------------------
(* The inductive invariant.  Told: whom a task has passed in its loop over *)
(* the alerts has the alert.  LifetimeInHand: the task that is about to    *)
(* set the missing lifetime is at the very incident of the route, since    *)
(* one that is at an incident without an end will not set any.  Before the *)
(* mark, every further find of a pair is due to a find that was cut off or *)
(* is about to be marked; after it there is none.                          *)
Told(w) ==
    /\ pc[w] = "inbox" => \A u \in found[w] \ users[w] : Inc(w) \in inbox[u]
    /\ pc[w] \in {"route", "live", "expire", "done"} => \A u \in found[w] : Inc(w) \in inbox[u]

LifetimeInHand ==
    faults = 0 /\ crashes = 0 =>
        \A u \in User : live[u].inc \in Dated /\ live[u].ttl = None =>
            \E w \in Task : pc[w] = "expire" /\ user[w] = u /\ Inc(w) = live[u].inc

AtMark(w, p)  == pc[w] = "mark" /\ user[w] = p[1] /\ Inc(w) = p[2]
Unmarked(w, p) == IF AtMark(w, p) THEN 1 ELSE 0

SeenBound ==
    \A p \in Pair : seen[p] <= aborts + 2 * crashes + IF p \in marked THEN 2
                                                      ELSE Unmarked("consumer", p) + Unmarked("patrol", p)

IInv == /\ TypeOK /\ InHand /\ \A w \in Task : Told(w)
        /\ AlertBeforeRoute /\ LifetimeInHand /\ MarkedInHand /\ SeenBound

(* The incident of a busy task stays while it has the entry.               *)
LEMMA IncStays ==
    ASSUME QueueOK, [Next]_vars, NEW w \in Task, Holds(w), pc[w] \in Busy, entry'[w] = entry[w]
    PROVE  Inc(w)' = Inc(w)
BY StreamsGrow DEF Holds, Inc

(* Nothing leaves an inbox or the history.                                 *)
LEMMA SharedGrow ==
    ASSUME SharedOK, [Next]_vars
    PROVE  /\ \A u \in User : inbox[u] \subseteq inbox'[u]
           /\ marked \subseteq marked'
<1>1. ASSUME NEW w \in Task, Alert(w)
      PROVE  (\A u \in User : inbox[u] \subseteq inbox'[u]) /\ marked' = marked
  BY <1>1 DEF Alert, SharedOK
<1>2. ASSUME NEW w \in Task, Process(w), ~Alert(w) PROVE inbox' = inbox /\ marked \subseteq marked'
  BY <1>2 DEF Process, Take, Locate, Probe, Mark, EndScan, Summarise, EndAlerts, Agent, EndRoutes, SetLive,
              Expire, Done, ReadRaises, WriteRaises, redis
<1>3. CASE Read \/ ReadLost \/ Ack \/ Sweep \/ StartUp \/ Crash \/ Publish \/ Move \/ UNCHANGED vars
  BY <1>3 DEF Read, ReadLost, Ack, Sweep, StartUp, Crash, Publish, Move, redis, vars
<1> QED
  BY <1>1, <1>2, <1>3, Actors

(* Every step keeps what a task has told its users.                        *)
LEMMA ToldStep ==
    ASSUME QueueOK, HandsOK, SharedOK, InHand, \A w \in Task : Told(w), [Next]_vars
    PROVE  \A w \in Task : Told(w)'
<1> USE DEF HandsOK, Goto, hands, Told
<1>0. \A u \in User : inbox[u] \subseteq inbox'[u]
  BY SharedGrow
<1>H. ASSUME NEW w \in Task
      PROVE  /\ Told(w) /\ found[w] \subseteq User
             /\ pc[w] \in {"locate", "scan", "mark", "alert", "inbox", "route", "live", "expire", "done"}
                   /\ entry'[w] = entry[w] => Inc(w)' = Inc(w)
             /\ (pc[w] \in {"inbox", "route", "live", "expire", "done"} => users[w] \subseteq found[w])
  BY IncStays DEF InHand, Holds, Busy, Pc
<1>1. ASSUME NEW w \in Task, Take(w) PROVE Told(w)'
  BY <1>0, <1>H, <1>1 DEF Take
<1>2. ASSUME NEW w \in Task, Locate(w) PROVE Told(w)'
  BY <1>0, <1>H, <1>2 DEF Locate, Finish
<1>3. ASSUME NEW w \in Task, Probe(w) PROVE Told(w)'
  BY <1>0, <1>H, <1>3 DEF Probe
<1>4. ASSUME NEW w \in Task, Mark(w) PROVE Told(w)'
  BY <1>0, <1>H, <1>4 DEF Mark
<1>5. ASSUME NEW w \in Task, EndScan(w) PROVE Told(w)'
  BY <1>0, <1>H, <1>5 DEF EndScan, Finish, hands
<1>6. ASSUME NEW w \in Task, Summarise(w) PROVE Told(w)'
  BY <1>0, <1>H, <1>6 DEF Summarise
<1>7. ASSUME NEW w \in Task, Alert(w) PROVE Told(w)'
  <2>1. PICK u \in users[w] : /\ users' = [users EXCEPT ![w] = @ \ {u}]
                              /\ inbox' = [inbox EXCEPT ![u] = @ \cup {Inc(w)}]
    BY <1>7 DEF Alert
  <2>2. /\ pc[w] = "inbox" /\ pc'[w] = "inbox" /\ found'[w] = found[w] /\ Inc(w)' = Inc(w)
        /\ users'[w] = users[w] \ {u}
    BY <1>H, <1>7, <2>1 DEF Alert
  <2>3. u \in User /\ Inc(w) \in inbox'[u]
    BY <1>H, <2>1 DEF SharedOK
  <2>4. \A v \in found[w] \ users[w] : Inc(w) \in inbox'[v]
    BY <1>0, <1>H, <2>2
  <2> QED
    BY <2>2, <2>3, <2>4
<1>8. ASSUME NEW w \in Task, EndAlerts(w) PROVE Told(w)'
  BY <1>0, <1>H, <1>8 DEF EndAlerts
<1>9. ASSUME NEW w \in Task, Agent(w) PROVE Told(w)'
  BY <1>0, <1>H, <1>9 DEF Agent
<1>10. ASSUME NEW w \in Task, EndRoutes(w) PROVE Told(w)'
  BY <1>0, <1>H, <1>10 DEF EndRoutes, Finish
<1>11. ASSUME NEW w \in Task, SetLive(w) PROVE Told(w)'
  BY <1>0, <1>H, <1>11 DEF SetLive
<1>12. ASSUME NEW w \in Task, Expire(w) PROVE Told(w)'
  BY <1>0, <1>H, <1>12 DEF Expire
<1>13. ASSUME NEW w \in Task, Done(w) PROVE Told(w)'
  BY <1>0, <1>H, <1>13 DEF Done
<1>14. ASSUME NEW w \in Task, ReadRaises(w) PROVE Told(w)'
  BY <1>0, <1>H, <1>14 DEF ReadRaises, Drop
<1>15. ASSUME NEW w \in Task, WriteRaises(w) PROVE Told(w)'
  BY <1>0, <1>H, <1>15 DEF WriteRaises, Drop
<1>16. ASSUME NEW w \in Task, Same(w) PROVE Told(w)'
  BY <1>0, <1>H, <1>16 DEF Same
<1>17. ASSUME Read \/ ReadLost \/ Ack PROVE Told("consumer")'
  BY <1>17 DEF Read, ReadLost, Ack, Deliver, Drop, Task
<1>18. ASSUME Sweep PROVE Told("patrol")'
  BY <1>18 DEF Sweep, Task
<1>19. ASSUME NEW w \in Task, Acts(w) PROVE \A v \in Task : Told(v)'
  <2>1. Told(w)'
    BY <1>1, <1>2, <1>3, <1>4, <1>5, <1>6, <1>7, <1>8, <1>9, <1>10, <1>11, <1>12, <1>13, <1>14, <1>15, <1>17, <1>18, <1>19 DEF Acts, Process
  <2>2. \A v \in Task \ {w} : Told(v)'
    BY <1>16, <1>19, OthersKeep
  <2> QED
    BY <2>1, <2>2
<1>20. CASE StartUp \/ Crash
  BY <1>20 DEF StartUp, Crash
<1>21. CASE Publish \/ Move \/ UNCHANGED vars
  <2>1. \A w \in Task : Same(w)
    BY <1>21 DEF Publish, Move, vars, Same
  <2> QED
    BY <1>16, <2>1
<1> QED
  BY TaskOrWorld, <1>19, <1>20, <1>21

(* The two writes of the live route, told apart by what they change.       *)
LEMMA LiveWrites ==
    ASSUME QueueOK, HandsOK, SharedOK, InHand, [Next]_vars, NEW u \in User
    PROVE  \/ live'[u] = live[u]
           \/ \E w \in Task : /\ SetLive(w) /\ user[w] = u /\ u \in found[w]
                              /\ live'[u] = [inc |-> Inc(w), ttl |-> None]
           \/ \E w \in Task : /\ Expire(w) /\ user[w] = u /\ Inc(w) \in Dated
                              /\ live'[u] = [inc |-> live[u].inc, ttl |-> Inc(w)]
<1>1. ASSUME NEW w \in Task, SetLive(w)
      PROVE  \/ live'[u] = live[u]
             \/ user[w] = u /\ u \in found[w] /\ live'[u] = [inc |-> Inc(w), ttl |-> None]
  <2>1. live' \in {live, [live EXCEPT ![user[w]] = [inc |-> Inc(w), ttl |-> None]]}
    BY <1>1 DEF SetLive
  <2>2. user[w] \in found[w]
    BY <1>1 DEF SetLive, InHand, Holds
  <2> QED
    BY <2>1, <2>2 DEF SharedOK
<1>2. ASSUME NEW w \in Task, Expire(w)
      PROVE  \/ live'[u] = live[u]
             \/ user[w] = u /\ Inc(w) \in Dated /\ live'[u] = [inc |-> live[u].inc, ttl |-> Inc(w)]
  <2> DEFINE kept == [live EXCEPT ![user[w]].ttl = Inc(w)]
  <2>1. live' = live \/ (Inc(w) \in Dated /\ live' = kept)
    BY <1>2 DEF Expire
  <2>2. live[u] \in [inc : Incident \cup {None}, ttl : Incident \cup {None}]
    BY DEF SharedOK
  <2>3. [live[u] EXCEPT !.ttl = Inc(w)] = [inc |-> live[u].inc, ttl |-> Inc(w)]
    BY <2>2
  <2>4. kept = [live EXCEPT ![user[w]] = [live[user[w]] EXCEPT !.ttl = Inc(w)]]
    OBVIOUS
  <2> HIDE DEF kept
  <2>5. kept[u] = IF u = user[w] THEN [live[u] EXCEPT !.ttl = Inc(w)] ELSE live[u]
    BY <2>4 DEF SharedOK
  <2> QED
    BY <2>1, <2>3, <2>5
<1>3. ASSUME NEW w \in Task, Process(w), ~SetLive(w), ~Expire(w) PROVE live' = live
  BY <1>3 DEF Process, Take, Locate, Probe, Mark, EndScan, Summarise, Alert, EndAlerts, Agent, EndRoutes,
              Done, ReadRaises, WriteRaises, redis
<1>4. ASSUME Read \/ ReadLost \/ Ack \/ Sweep \/ StartUp \/ Crash \/ Publish \/ Move \/ UNCHANGED vars
      PROVE  live' = live
  BY <1>4 DEF Read, ReadLost, Ack, Sweep, StartUp, Crash, Publish, Move, redis, vars
<1> QED
  BY <1>1, <1>2, <1>3, <1>4, Actors

(* Every step keeps that an alert precedes a route.                        *)
LEMMA RouteStep ==
    ASSUME QueueOK, HandsOK, SharedOK, InHand, \A w \in Task : Told(w), AlertBeforeRoute, [Next]_vars
    PROVE  AlertBeforeRoute'
<1> SUFFICES ASSUME NEW u \in User, live'[u].inc # None PROVE live'[u].inc \in inbox'[u]
  BY DEF AlertBeforeRoute
<1>0. inbox[u] \subseteq inbox'[u]
  BY SharedGrow
<1>1. CASE live'[u].inc = live[u].inc
  BY <1>0, <1>1 DEF AlertBeforeRoute
<1>2. ASSUME NEW w \in Task, SetLive(w), user[w] = u, u \in found[w], live'[u].inc = Inc(w)
      PROVE  live'[u].inc \in inbox'[u]
  BY <1>0, <1>2 DEF SetLive, Told
<1>3. CASE \E w \in Task : /\ SetLive(w) /\ user[w] = u /\ u \in found[w]
                           /\ live'[u] = [inc |-> Inc(w), ttl |-> None]
  BY <1>2, <1>3
<1>4. CASE \E w \in Task : live'[u] = [inc |-> live[u].inc, ttl |-> Inc(w)]
  BY <1>1, <1>4
<1> QED
  BY <1>1, <1>3, <1>4, LiveWrites

(* Without a failure a stored route without its lifetime has the task that *)
(* stored it at the step that sets it.                                     *)
LEMMA LifetimeStep ==
    ASSUME QueueOK, HandsOK, SharedOK, CountsOK, InHand, LifetimeInHand, [Next]_vars
    PROVE  LifetimeInHand'
<1> SUFFICES ASSUME faults' = 0, crashes' = 0, NEW u \in User, live'[u].inc \in Dated, live'[u].ttl = None
             PROVE  \E w \in Task : pc'[w] = "expire" /\ user'[w] = u /\ Inc(w)' = live'[u].inc
  BY DEF LifetimeInHand
<1>0. faults = 0 /\ crashes = 0 /\ None \notin Dated
  BY CountsStep, NoneAssumption, BoundsAssumption DEF CountsOK
<1>1. ASSUME NEW w \in Task, SetLive(w), user[w] = u, live'[u] = [inc |-> Inc(w), ttl |-> None]
      PROVE  pc'[w] = "expire" /\ user'[w] = u /\ Inc(w)' = live'[u].inc
  <2>1. faults' = faults /\ pc'[w] = "expire" /\ user' = user /\ src' = src /\ entry' = entry
    BY <1>0, <1>1 DEF SetLive, Fault, Goto, hands, HandsOK
  <2> QED
    BY <1>1, <2>1 DEF Inc
<1>2. ASSUME NEW w \in Task, Expire(w), Inc(w) \in Dated, live'[u].ttl = Inc(w)
      PROVE  FALSE
  BY <1>0, <1>2
<1>3. CASE live'[u] = live[u]
  <2>1. PICK w \in Task : pc[w] = "expire" /\ user[w] = u /\ Inc(w) = live[u].inc
    BY <1>0, <1>3 DEF LifetimeInHand
  <2>2. Holds(w) /\ pc[w] \in Busy
    BY <2>1 DEF InHand, Busy, Pc
  <2>3. CASE Same(w)
    BY <1>3, <2>1, <2>2, <2>3, HeldStays DEF Same
  <2>4. CASE Acts(w)
    <3>1. Expire(w)
      BY <2>1, <2>4 DEF Acts, Process, Take, Locate, Probe, Mark, EndScan, Summarise, Alert, EndAlerts,
            Agent, EndRoutes, SetLive, Done, ReadRaises, WriteRaises, Read, ReadLost, Ack, Sweep, Deliver
    <3>2. faults' = faults /\ Inc(w) \in Dated
      BY <1>0, <1>3, <2>1, <3>1 DEF Expire, Fault
    <3>3. live' = [live EXCEPT ![user[w]].ttl = Inc(w)]
      BY <1>0, <3>1, <3>2 DEF Expire, Fault
    <3>4. live'[u].ttl = Inc(w)
      BY <2>1, <3>3 DEF SharedOK
    <3> QED
      BY <1>0, <3>2, <3>4
  <2>5. CASE StartUp
    BY <2>1, <2>5 DEF StartUp, Up, InHand, Task
  <2>6. CASE Crash
    BY <1>0, <2>6 DEF Crash
  <2>7. CASE Publish \/ Move \/ UNCHANGED vars
    BY <2>3, <2>7 DEF Publish, Move, vars, hands, Same
  <2> QED
    BY <2>3, <2>4, <2>5, <2>6, <2>7, TaskOrWorld, OthersKeep
<1>4. CASE \E w \in Task : /\ SetLive(w) /\ user[w] = u
                           /\ live'[u] = [inc |-> Inc(w), ttl |-> None]
  BY <1>1, <1>4
<1>5. CASE \E w \in Task : /\ Expire(w) /\ Inc(w) \in Dated
                           /\ live'[u] = [inc |-> live[u].inc, ttl |-> Inc(w)]
  BY <1>2, <1>5
<1> QED
  BY <1>3, <1>4, <1>5, LiveWrites

(* The history is written by the two marks alone.                          *)
LEMMA MarkWrites ==
    ASSUME [Next]_vars
    PROVE  \/ marked' = marked
           \/ \E w \in Task : /\ Mark(w) \/ Done(w) \/ WriteRaises(w)
                              /\ pc[w] \in {"mark", "done"}
                              /\ marked' = marked \cup {<<user[w], Inc(w)>>}
<1>1. ASSUME NEW w \in Task, Mark(w) \/ Done(w) \/ WriteRaises(w)
      PROVE  \/ marked' = marked
             \/ pc[w] \in {"mark", "done"} /\ marked' = marked \cup {<<user[w], Inc(w)>>}
  BY <1>1 DEF Mark, Done, WriteRaises
<1>2. ASSUME NEW w \in Task, Process(w), ~Mark(w), ~Done(w), ~WriteRaises(w) PROVE marked' = marked
  BY <1>2 DEF Process, Take, Locate, Probe, EndScan, Summarise, Alert, EndAlerts, Agent, EndRoutes,
              SetLive, Expire, ReadRaises, redis
<1>3. ASSUME Read \/ ReadLost \/ Ack \/ Sweep \/ StartUp \/ Crash \/ Publish \/ Move \/ UNCHANGED vars
      PROVE  marked' = marked
  BY <1>3 DEF Read, ReadLost, Ack, Sweep, StartUp, Crash, Publish, Move, redis, vars
<1> QED
  BY <1>1, <1>2, <1>3, Actors

OnTheWay(w, p) == pc[w] \in {"scan", "mark", "alert", "inbox"} /\ p[1] \in found[w] /\ Inc(w) = p[2]

(* A task on the way to alert a user it found gets there or fails.         *)
LEMMA WayStep ==
    ASSUME QueueOK, HandsOK, SharedOK, CountsOK, InHand, [Next]_vars,
           NEW w \in Task, Told(w), NEW p \in Pair, OnTheWay(w, p)
    PROVE  OnTheWay(w, p)' \/ p[2] \in inbox'[p[1]] \/ aborts' > 0 \/ crashes' > 0
<1> USE DEF Goto, hands, HandsOK
<1>0. /\ Holds(w) /\ pc[w] \in Busy /\ pc[w] \in {"scan", "mark", "alert", "inbox"}
      /\ p[1] \in User /\ p[1] \in found[w] /\ Inc(w) = p[2]
      /\ entry'[w] = entry[w] => Inc(w)' = Inc(w)
  BY IncStays DEF InHand, OnTheWay, Pair, Busy, Pc
<1>1. CASE Same(w)
  BY <1>0, <1>1, HeldStays DEF OnTheWay, Same
<1>2. CASE Probe(w) \/ Mark(w) \/ Summarise(w)
  <2>1. entry' = entry /\ pc'[w] \in {"scan", "mark", "inbox"} /\ found[w] \subseteq found'[w]
    <3>1. CASE Probe(w)
      BY <1>0, <3>1 DEF Probe
    <3>2. CASE Mark(w)
      BY <3>2 DEF Mark
    <3>3. CASE Summarise(w)
      BY <3>3 DEF Summarise
    <3> QED
      BY <1>2, <3>1, <3>2, <3>3
  <2> QED
    BY <1>0, <2>1 DEF OnTheWay
<1>3. CASE EndScan(w)
  BY <1>0, <1>3 DEF EndScan, OnTheWay
<1>4. CASE Alert(w)
  <2>1. pc' = pc /\ found' = found /\ entry' = entry
    BY <1>4 DEF Alert
  <2> QED
    BY <1>0, <2>1 DEF OnTheWay
<1>5. CASE EndAlerts(w)
  BY <1>0, <1>5, SharedGrow DEF EndAlerts, Told
<1>6. CASE ReadRaises(w) \/ WriteRaises(w)
  BY <1>6 DEF ReadRaises, WriteRaises, Drop, CountsOK
<1>7. CASE Acts(w)
  <2>1. \/ Probe(w) \/ Mark(w) \/ EndScan(w) \/ Summarise(w) \/ Alert(w) \/ EndAlerts(w)
        \/ ReadRaises(w) \/ WriteRaises(w)
    BY <1>0, <1>7 DEF Acts, Process, Take, Locate, Agent, EndRoutes, SetLive, Expire, Done, Read, ReadLost,
                      Ack, Sweep, Deliver
  <2> QED
    BY <1>2, <1>3, <1>4, <1>5, <1>6, <2>1
<1>8. CASE StartUp
  BY <1>0, <1>8 DEF StartUp, Up, InHand, Task
<1>9. CASE Crash
  BY <1>9 DEF Crash, CountsOK
<1>10. CASE Publish \/ Move \/ UNCHANGED vars
  BY <1>1, <1>10 DEF Publish, Move, vars, Same
<1> QED
  BY <1>1, <1>7, <1>8, <1>9, <1>10, TaskOrWorld, OthersKeep

(* Every step keeps that a mark is of an incident in hand.                 *)
LEMMA MarkedStep ==
    ASSUME QueueOK, HandsOK, SharedOK, CountsOK, InHand, \A w \in Task : Told(w), MarkedInHand, [Next]_vars
    PROVE  MarkedInHand'
<1> SUFFICES ASSUME aborts' = 0, crashes' = 0, NEW p \in marked'
             PROVE  p[2] \in inbox'[p[1]] \/ \E w \in Task : OnTheWay(w, p)'
  BY DEF MarkedInHand, OnTheWay
<1>0. aborts = 0 /\ crashes = 0 /\ aborts' \in Int /\ crashes' \in Int
  BY CountsStep DEF CountsOK
<1>1. CASE p \in marked
  <2>1. p \in Pair /\ p[1] \in User
    BY <1>1 DEF SharedOK, Pair
  <2>2. CASE p[2] \in inbox[p[1]]
    BY <2>1, <2>2, SharedGrow
  <2>3. CASE \E w \in Task : OnTheWay(w, p)
    BY <1>0, <2>1, <2>3, WayStep
  <2> QED
    BY <1>0, <1>1, <2>2, <2>3 DEF MarkedInHand, OnTheWay
<1>2. ASSUME NEW w \in Task, Mark(w), p = <<user[w], Inc(w)>>
      PROVE  OnTheWay(w, p)'
  <2>1. /\ Holds(w) /\ pc[w] = "mark" /\ pc'[w] = "scan" /\ found' = found /\ entry' = entry
    BY <1>2 DEF Mark, Goto, HandsOK, InHand
  <2>2. Inc(w)' = Inc(w) /\ user[w] \in found[w]
    BY <2>1, IncStays DEF Holds, Busy, Pc
  <2> QED
    BY <1>2, <2>1, <2>2 DEF OnTheWay
<1>3. ASSUME NEW w \in Task, Done(w), p = <<user[w], Inc(w)>>
      PROVE  p[2] \in inbox'[p[1]]
  <2>1. pc[w] = "done" /\ user[w] \in found[w] /\ user[w] \in User
    BY <1>3 DEF Done, InHand, Holds, HandsOK
  <2> QED
    BY <1>3, <2>1, SharedGrow DEF Told
<1>4. ASSUME NEW w \in Task, WriteRaises(w) PROVE FALSE
  BY <1>0, <1>4 DEF WriteRaises, Drop
<1>5. CASE p \notin marked
  BY <1>2, <1>3, <1>4, <1>5, MarkWrites
<1> QED
  BY <1>1, <1>5

(* Who acts finds a pair once more only when it is about to mark it, and   *)
(* what it is about to mark it marks, or an exception cuts it off.         *)
LEMMA OwnFinds ==
    ASSUME QueueOK, HandsOK, SharedOK, CountsOK, InHand, [Next]_vars,
           NEW w \in Task, Acts(w), NEW p \in Pair
    PROVE  \/ p \in marked' /\ seen'[p] = seen[p]
           \/ p \notin marked /\ seen'[p] + Unmarked(w, p) <= seen[p] + Unmarked(w, p)' + (aborts' - aborts)
<1>0. /\ Unmarked(w, p) \in {0, 1} /\ Unmarked(w, p)' \in {0, 1} /\ seen[p] \in Nat
      /\ aborts \in Nat /\ aborts' \in Nat /\ aborts <= aborts' /\ marked \subseteq marked'
  BY CountsStep, SharedGrow DEF Unmarked, SharedOK, CountsOK
<1>1. CASE Probe(w)
  <2>1. PICK u \in users[w] :
          IF Affected(w, u)
          THEN /\ Goto(w, "mark") /\ user' = [user EXCEPT ![w] = u]
               /\ seen' = [seen EXCEPT ![<<u, Inc(w)>>] = @ + 1]
          ELSE seen' = seen
    BY <1>1 DEF Probe
  <2>2. pc[w] = "scan" /\ entry' = entry /\ aborts' = aborts /\ Unmarked(w, p) = 0 /\ marked' = marked
    BY <1>1 DEF Probe, counts, Unmarked, AtMark, redis
  <2>3. CASE Affected(w, u) /\ p = <<u, Inc(w)>>
    <3>1. seen'[p] = seen[p] + 1 /\ p \notin marked
      BY <2>1, <2>3 DEF Affected, SharedOK
    <3>2. pc'[w] = "mark" /\ user'[w] = u /\ Inc(w)' = Inc(w)
      BY <2>1, <2>2, <2>3, IncStays DEF Goto, HandsOK, InHand, Busy, Pc
    <3>3. Unmarked(w, p)' = 1
      BY <2>3, <3>2 DEF Unmarked, AtMark
    <3> QED
      BY <1>0, <2>2, <3>1, <3>3
  <2>4. CASE ~(Affected(w, u) /\ p = <<u, Inc(w)>>)
    <3>1. seen'[p] = seen[p]
      BY <2>1, <2>4 DEF SharedOK
    <3> QED
      BY <1>0, <2>2, <3>1
  <2> QED
    BY <2>3, <2>4
<1>2. CASE Mark(w)
  <2>1. seen' = seen /\ (AtMark(w, p) => p \in marked')
    BY <1>2 DEF Mark, AtMark, Pair
  <2>2. Unmarked(w, p) = 0 \/ p \in marked'
    BY <2>1 DEF Unmarked
  <2> QED
    BY <1>0, <2>1, <2>2
<1>3. CASE WriteRaises(w)
  BY <1>0, <1>3 DEF WriteRaises, Drop
<1>4. CASE ~Probe(w) /\ ~Mark(w) /\ ~WriteRaises(w)
  <2>1. seen' = seen /\ pc[w] # "mark"
    BY <1>4 DEF Acts, Process, Take, Locate, EndScan, Summarise, Alert, EndAlerts, Agent, EndRoutes,
          SetLive, Expire, Done, ReadRaises, Read, ReadLost, Ack, Sweep, Deliver
  <2>2. Unmarked(w, p) = 0
    BY <2>1 DEF Unmarked, AtMark
  <2> QED
    BY <1>0, <2>1, <2>2
<1> QED
  BY <1>1, <1>2, <1>3, <1>4

(* Every step keeps the bound on what is seen.                             *)
LEMMA SeenStep ==
    ASSUME QueueOK, HandsOK, SharedOK, CountsOK, InHand, SeenBound, [Next]_vars
    PROVE  SeenBound'
<1> SUFFICES ASSUME NEW p \in Pair
             PROVE  seen'[p] <= aborts' + 2 * crashes' + IF p \in marked' THEN 2
                          ELSE Unmarked("consumer", p)' + Unmarked("patrol", p)'
  BY DEF SeenBound
<1> DEFINE UC == Unmarked("consumer", p)
           UP == Unmarked("patrol", p)
<1>0. /\ UC \in {0, 1} /\ UP \in {0, 1} /\ UC' \in {0, 1} /\ UP' \in {0, 1}
      /\ seen[p] \in Nat /\ aborts \in Nat /\ crashes \in Nat /\ aborts' \in Nat /\ crashes' \in Nat
      /\ aborts <= aborts' /\ crashes <= crashes' /\ marked \subseteq marked'
      /\ seen[p] <= aborts + 2 * crashes + IF p \in marked THEN 2 ELSE UC + UP
  BY CountsStep, SharedGrow DEF Unmarked, SharedOK, CountsOK, SeenBound
<1>1. ASSUME NEW w \in Task, Same(w) PROVE Unmarked(w, p)' = Unmarked(w, p)
  <2>1. pc[w] = "mark" => Inc(w)' = Inc(w)
    BY <1>1, HeldStays DEF InHand, Busy, Pc
  <2> QED
    BY <1>1, <2>1 DEF Unmarked, AtMark, Same
<1> HIDE DEF UC, UP
<1>2. CASE Acts("consumer")
  <2>1. UP' = UP
    BY <1>1, <1>2, OthersKeep DEF UP, Task
  <2>2. \/ p \in marked' /\ seen'[p] = seen[p]
        \/ p \notin marked /\ seen'[p] + UC <= seen[p] + UC' + (aborts' - aborts)
    BY <1>2, OwnFinds DEF UC, Task
  <2>3. seen'[p] \in Int
    BY SharedStep DEF SharedOK
  <2> QED
    BY <1>0, <2>1, <2>2, <2>3 DEF UC, UP
<1>3. CASE Acts("patrol")
  <2>1. UC' = UC
    BY <1>1, <1>3, OthersKeep DEF UC, Task
  <2>2. \/ p \in marked' /\ seen'[p] = seen[p]
        \/ p \notin marked /\ seen'[p] + UP <= seen[p] + UP' + (aborts' - aborts)
    BY <1>3, OwnFinds DEF UP, Task
  <2>3. seen'[p] \in Int
    BY SharedStep DEF SharedOK
  <2> QED
    BY <1>0, <2>1, <2>2, <2>3 DEF UC, UP
<1>4. CASE StartUp
  <2>1. UC = 0 /\ UP = 0 /\ seen' = seen /\ marked' = marked
    BY <1>4 DEF StartUp, Up, InHand, UC, UP, Unmarked, AtMark
  <2> QED
    BY <1>0, <2>1 DEF UC, UP
<1>5. CASE Crash
  <2>1. crashes' = crashes + 1 /\ aborts' = aborts /\ seen' = seen /\ marked' = marked
    BY <1>5 DEF Crash, redis
  <2> QED
    BY <1>0, <2>1 DEF UC, UP
<1>6. CASE Publish \/ Move \/ UNCHANGED vars
  <2>1. seen' = seen /\ marked' = marked /\ \A w \in Task : Same(w)
    BY <1>6 DEF Publish, Move, vars, redis, hands, Same
  <2>2. UC' = UC /\ UP' = UP
    BY <1>1, <2>1 DEF UC, UP, Task
  <2> QED
    BY <1>0, <2>1, <2>2 DEF UC, UP
<1> QED
  BY <1>2, <1>3, <1>4, <1>5, <1>6, TaskOrWorld DEF Task

-----------------------------------------------------------------------------
(* The inductive invariant of consumer and patrol.                         *)
THEOREM Invariant == Spec => []IInv
<1>1. Init => IInv
  <2> SUFFICES ASSUME Init PROVE IInv
    OBVIOUS
  <2>1. TypeOK /\ InHand
    BY InitTypes, TypeParts
  <2>2. \A w \in Task : Told(w)
    BY DEF Init, Told
  <2>3. AlertBeforeRoute /\ LifetimeInHand
    BY NoneAssumption, BoundsAssumption DEF Init, AlertBeforeRoute, LifetimeInHand
  <2>4. MarkedInHand /\ SeenBound
    BY DEF Init, MarkedInHand, SeenBound, Unmarked, AtMark, Task
  <2> QED
    BY <2>1, <2>2, <2>3, <2>4 DEF IInv
<1>2. IInv /\ [Next]_vars => IInv'
  <2> SUFFICES ASSUME IInv, [Next]_vars PROVE IInv'
    OBVIOUS
  <2>1. /\ QueueOK /\ WorldOK /\ SharedOK /\ HandsOK /\ CountsOK /\ InHand /\ \A w \in Task : Told(w)
        /\ AlertBeforeRoute /\ LifetimeInHand /\ MarkedInHand /\ SeenBound
    BY TypeParts DEF IInv
  <2>2. TypeOK'
    <3>1. QueueOK' /\ WorldOK' /\ SharedOK' /\ HandsOK' /\ CountsOK'
      BY <2>1, QueueStep, WorldStep, SharedStep, HandsStep, CountsStep
    <3> QED
      BY <3>1 DEF TypeOK, QueueOK, WorldOK, SharedOK, HandsOK, CountsOK
  <2>3. InHand' /\ \A w \in Task : Told(w)'
    BY <2>1, InHandStep, ToldStep
  <2>4. AlertBeforeRoute' /\ LifetimeInHand' /\ MarkedInHand' /\ SeenBound'
    BY <2>1, RouteStep, LifetimeStep, MarkedStep, SeenStep
  <2> QED
    BY <2>2, <2>3, <2>4 DEF IInv
<1> QED
  BY <1>1, <1>2, PTL DEF Spec

(* Consumer and patrol are type correct.                                   *)
THEOREM TypeCorrect == Spec => []TypeOK
BY Invariant, PTL DEF IInv

(* No live route is stored around an incident the user has no alert of,    *)
(* in whatever way calls fail and the process dies.                        *)
THEOREM AlertedBeforeRerouted == Spec => []AlertBeforeRoute
BY Invariant, PTL DEF IInv

(* Unless an exception or a crash comes between, a user the history names  *)
(* has the alert or a task is on the way to deliver it.                    *)
THEOREM MarkedIsInHand == Spec => []MarkedInHand
BY Invariant, PTL DEF IInv

(* A route around an incident with an end gets a lifetime, unless a call   *)
(* failed or the process died.                                             *)
THEOREM LifetimeIsPending == Spec => []LifetimePending
<1>1. LifetimeInHand => LifetimePending
  BY DEF LifetimeInHand, LifetimePending
<1> QED
  BY <1>1, Invariant, PTL DEF IInv

(* The two tasks together find a user for an incident at most twice, once  *)
(* more for each exception and twice more for each crash, however often    *)
(* the incident is published.                                              *)
THEOREM FoundBounded == Spec => []FindsBounded
<1>1. Cardinality(Task) = 2
  <2>1. Cardinality({"patrol"}) = 1 /\ IsFiniteSet({"patrol"})
    BY FS_Singleton
  <2>2. Cardinality({"patrol"} \cup {"consumer"}) = 2
    BY <2>1, FS_AddElement
  <2>3. Task = {"patrol"} \cup {"consumer"}
    BY DEF Task
  <2> QED
    BY <2>2, <2>3
<1>2. IInv => FindsBounded
  <2> SUFFICES ASSUME IInv, NEW p \in Pair PROVE seen[p] <= 2 * (1 + crashes) + aborts
    BY <1>1 DEF FindsBounded
  <2>1. seen[p] \in Nat /\ aborts \in Nat /\ crashes \in Nat
    BY DEF IInv, TypeOK
  <2>2. Unmarked("consumer", p) \in {0, 1} /\ Unmarked("patrol", p) \in {0, 1}
    BY DEF Unmarked
  <2>3. seen[p] <= aborts + 2 * crashes + IF p \in marked THEN 2
                                          ELSE Unmarked("consumer", p) + Unmarked("patrol", p)
    BY DEF IInv, SeenBound
  <2> QED
    BY <2>1, <2>2, <2>3
<1> QED
  BY <1>2, Invariant, PTL

-----------------------------------------------------------------------------
(* What a task found belongs to the incident it is at: before the search   *)
(* it has found nobody, during the search the incident is in the graph,    *)
(* and whom it has found was found near this very incident.                *)
Sought(w) ==
    /\ pc[w] \in {"down", "loop", "locate", "ack"} => found[w] = {}
    /\ pc[w] \in {"scan", "mark"} => Inc(w) \in graph
    /\ pc[w] \in Busy => \A u \in found[w] : seen[<<u, Inc(w)>>] > 0

AllSought == \A w \in Task : Sought(w)

(* The history of finds only grows, by the pair a search is at.            *)
LEMMA SeenGrows ==
    ASSUME QueueOK, HandsOK, SharedOK, InHand, [Next]_vars
    PROVE  /\ \A p \in Pair : seen[p] \in Nat /\ seen'[p] \in Nat /\ seen[p] <= seen'[p]
           /\ seen' # seen => \E w \in Task : Probe(w)
<1>1. ASSUME NEW w \in Task, Probe(w)
      PROVE  \A p \in Pair : seen'[p] \in {seen[p], seen[p] + 1}
  <2>1. PICK u \in users[w] : seen' = seen \/ seen' = [seen EXCEPT ![<<u, Inc(w)>>] = @ + 1]
    BY <1>1 DEF Probe
  <2> QED
    BY <2>1 DEF SharedOK
<1>2. ASSUME NEW w \in Task, Process(w), ~Probe(w) PROVE seen' = seen
  BY <1>2 DEF Process, Take, Locate, Mark, EndScan, Summarise, Alert, EndAlerts, Agent, EndRoutes, SetLive,
              Expire, Done, ReadRaises, WriteRaises
<1>3. ASSUME Read \/ ReadLost \/ Ack \/ Sweep \/ StartUp \/ Crash \/ Publish \/ Move \/ UNCHANGED vars
      PROVE  seen' = seen
  BY <1>3 DEF Read, ReadLost, Ack, Sweep, StartUp, Crash, Publish, Move, vars
<1>4. \A p \in Pair : seen[p] \in Nat
  BY DEF SharedOK
<1>5. seen' = seen \/ \E w \in Task : Probe(w)
  BY <1>2, <1>3, Actors
<1> QED
  BY <1>1, <1>4, <1>5

(* The graph loses incidents only when the process starts.                 *)
LEMMA GraphGrows ==
    ASSUME [Next]_vars, ~StartUp
    PROVE  graph \subseteq graph'
<1>1. CASE Publish
  BY <1>1 DEF Publish
<1>2. graph' = graph \/ Publish
  BY DEF Next, Consumer, Patrol, Process, Read, ReadLost, Sweep, Take, Locate, Probe, Mark, EndScan,
         Summarise, Alert, EndAlerts, Agent, EndRoutes, SetLive, Expire, Done, Ack, ReadRaises,
         WriteRaises, Crash, Move, world, vars
<1> QED
  BY <1>1, <1>2

(* A task that keeps its incident and what it found is as right as before, *)
(* unless the process starts.                                              *)
LEMMA SoughtStays ==
    ASSUME QueueOK, HandsOK, SharedOK, InHand, [Next]_vars, ~StartUp, NEW w \in Task, Sought(w),
           pc[w] \in Busy, entry'[w] = entry[w]
    PROVE  /\ Inc(w)' = Inc(w) /\ Inc(w) \in Incident
           /\ Inc(w) \in graph => Inc(w)' \in graph'
           /\ \A u \in found[w] : seen'[<<u, Inc(w)'>>] > 0
<1>1. Inc(w)' = Inc(w) /\ Inc(w) \in Incident
  BY IncStays, AtWork DEF InHand
<1>2. Inc(w) \in graph => Inc(w)' \in graph'
  BY <1>1, GraphGrows
<1>3. ASSUME NEW u \in found[w] PROVE seen'[<<u, Inc(w)>>] > 0
  <2>1. <<u, Inc(w)>> \in Pair /\ seen[<<u, Inc(w)>>] > 0
    BY <1>1 DEF HandsOK, Pair, Sought
  <2> QED
    BY <2>1, SeenGrows
<1> QED
  BY <1>1, <1>2, <1>3

(* Every step keeps that what a task found belongs to its incident.        *)
LEMMA SoughtStep ==
    ASSUME QueueOK, HandsOK, SharedOK, InHand, \A w \in Task : Sought(w), [Next]_vars
    PROVE  \A w \in Task : Sought(w)'
<1> USE DEF HandsOK, Goto, hands
<1>B. Busy = {"locate", "scan", "mark", "alert", "inbox", "route", "live", "expire", "done", "ack"}
  BY DEF Busy, Pc
<1> DEFINE Stays(w) == /\ Inc(w)' = Inc(w) /\ Inc(w) \in Incident
                       /\ Inc(w) \in graph => Inc(w)' \in graph'
                       /\ \A u \in found[w] : seen'[<<u, Inc(w)'>>] > 0
<1>S. ASSUME NEW w \in Task, ~StartUp, pc[w] \in Busy, entry'[w] = entry[w] PROVE Stays(w)
  BY <1>S, SoughtStays
<1> HIDE DEF Stays
<1>1. ASSUME NEW w \in Task, Acts(w) PROVE ~StartUp /\ pc[w] \in Pc /\ Sought(w)
  BY <1>1, OthersKeep DEF StartUp, Up, InHand, Task
<1>2. ASSUME NEW w \in Task, Take(w) PROVE Sought(w)'
  <2>1. pc'[w] = "locate" /\ found'[w] = {}
    BY <1>2 DEF Take, Sought
  <2> QED
    BY <2>1 DEF Sought
<1>3. ASSUME NEW w \in Task, Locate(w) PROVE Sought(w)'
  <2>1. /\ pc'[w] = "scan" => Inc(w) \in graph /\ entry' = entry
        /\ pc'[w] \in {"scan", "ack", "loop"} /\ found'[w] = {} /\ pc[w] \in Busy
    BY <1>3, <1>B DEF Locate, Finish, Sought
  <2>2. pc'[w] = "scan" => Inc(w)' \in graph'
    BY <1>1, <1>3, <1>S, <2>1 DEF Acts, Process, Stays
  <2> QED
    BY <2>1, <2>2 DEF Sought
<1>4. ASSUME NEW w \in Task, Probe(w) PROVE Sought(w)'
  <2>1. PICK u \in users[w] :
          IF Affected(w, u)
          THEN /\ Goto(w, "mark") /\ found' = [found EXCEPT ![w] = @ \cup {u}]
               /\ seen' = [seen EXCEPT ![<<u, Inc(w)>>] = @ + 1]
          ELSE UNCHANGED <<pc, found, user, seen>>
    BY <1>4 DEF Probe
  <2>2. pc[w] = "scan" /\ pc[w] \in Busy /\ entry' = entry /\ u \in User /\ Inc(w) \in graph
    BY <1>1, <1>4, <1>B DEF Probe, Acts, Process, Sought
  <2>3. Stays(w)
    BY <1>1, <1>4, <1>S, <2>2 DEF Acts, Process
  <2>4. pc'[w] \in {"scan", "mark"} /\ Inc(w)' \in graph'
    BY <2>1, <2>2, <2>3 DEF Stays
  <2>5. Affected(w, u) => seen'[<<u, Inc(w)'>>] > 0
    BY <2>1, <2>2, <2>3 DEF Stays, SharedOK, Pair
  <2>6. \A v \in found'[w] : v \in found[w] \/ (v = u /\ Affected(w, u))
    BY <2>1
  <2> QED
    BY <2>3, <2>4, <2>5, <2>6 DEF Stays, Sought
<1>5. ASSUME NEW w \in Task, Mark(w) \/ Summarise(w) \/ Alert(w) \/ EndAlerts(w) \/ Agent(w) \/ SetLive(w)
                              \/ Expire(w) \/ Done(w)
      PROVE  Sought(w)'
  <2>1. /\ pc[w] \in Busy /\ entry' = entry /\ found' = found
        /\ pc'[w] \in {"scan", "inbox", "route", "live", "expire", "done"}
        /\ pc'[w] = "scan" => pc[w] = "mark"
    <3>1. CASE Mark(w)
      BY <1>B, <3>1 DEF Mark
    <3>2. CASE Summarise(w) \/ Alert(w) \/ EndAlerts(w)
      BY <1>B, <3>2 DEF Summarise, Alert, EndAlerts
    <3>3. CASE Agent(w)
      BY <1>B, <3>3 DEF Agent
    <3>4. CASE SetLive(w) \/ Expire(w)
      BY <1>B, <3>4 DEF SetLive, Expire
    <3>5. CASE Done(w)
      BY <1>B, <3>5 DEF Done
    <3> QED
      BY <1>5, <3>1, <3>2, <3>3, <3>4, <3>5
  <2>2. Stays(w) /\ Sought(w)
    BY <1>1, <1>5, <1>S, <2>1 DEF Acts, Process
  <2> QED
    BY <2>1, <2>2 DEF Stays, Sought
<1>6. ASSUME NEW w \in Task, EndScan(w) PROVE Sought(w)'
  <2>1. /\ pc[w] \in Busy
        /\ \/ pc'[w] \in {"loop", "ack"} /\ found'[w] = {}
           \/ pc'[w] = "alert" /\ found' = found /\ entry' = entry
    BY <1>6, <1>B DEF EndScan, Finish, hands
  <2>2. entry' = entry => Stays(w)
    BY <1>1, <1>6, <1>S, <2>1 DEF Acts, Process
  <2> QED
    BY <2>1, <2>2 DEF Stays, Sought
<1>7. ASSUME NEW w \in Task, EndRoutes(w) PROVE Sought(w)'
  <2>1. pc'[w] \in {"loop", "ack"} /\ found'[w] = {}
    BY <1>7 DEF EndRoutes, Finish
  <2> QED
    BY <2>1 DEF Sought
<1>8. ASSUME NEW w \in Task, ReadRaises(w) \/ WriteRaises(w) \/ (w = "consumer" /\ ReadLost) PROVE Sought(w)'
  <2>1. pc'[w] = "loop" /\ found'[w] = {}
    BY <1>8 DEF ReadRaises, WriteRaises, ReadLost, Drop
  <2> QED
    BY <2>1 DEF Sought
<1>9. ASSUME NEW w \in Task, (w = "consumer" /\ (Read \/ Ack)) \/ (w = "patrol" /\ Sweep) PROVE Sought(w)'
  <2>1. Sought(w) /\ pc'[w] = "loop" /\ found' = found /\ pc[w] \in {"loop", "ack"}
    BY <1>1, <1>9 DEF Read, Deliver, Ack, Sweep, Acts
  <2> QED
    BY <1>B, <2>1 DEF Sought
<1>10. ASSUME NEW w \in Task, ~StartUp, Same(w) PROVE Sought(w)'
  <2>1. pc[w] \in Busy => Stays(w)
    BY <1>10, <1>S DEF Same
  <2> QED
    BY <1>10, <1>B, <2>1 DEF Same, Stays, Sought
<1>11. ASSUME NEW w \in Task, Acts(w) PROVE \A v \in Task : Sought(v)'
  <2>1. Sought(w)'
    BY <1>2, <1>3, <1>4, <1>5, <1>6, <1>7, <1>8, <1>9, <1>11 DEF Acts, Process
  <2>2. \A v \in Task \ {w} : Sought(v)'
    BY <1>1, <1>10, <1>11, OthersKeep
  <2> QED
    BY <2>1, <2>2
<1>12. CASE StartUp
  <2>1. \A w \in Task : pc[w] = "down" /\ pc'[w] = "loop" /\ found' = found
    BY <1>12 DEF StartUp, Up, InHand, Task
  <2> QED
    BY <1>B, <2>1 DEF Sought
<1>13. CASE Crash
  BY <1>B, <1>13 DEF Sought, Crash
<1>14. CASE ~StartUp /\ (Publish \/ Move \/ UNCHANGED vars)
  <2>1. \A w \in Task : Same(w)
    BY <1>14 DEF Publish, Move, vars, Same
  <2> QED
    BY <1>10, <1>14, <2>1
<1> QED
  BY TaskOrWorld, <1>11, <1>12, <1>13, <1>14
-----------------------------------------------------------------------------
(* A find of the search is of a user that passes an incident of the graph, *)
(* and is the only change its step makes to the notices.                   *)
LEMMA FindOnNotices ==
    ASSUME IInv, NEW w \in Task, Sought(w), Probe(w)
    PROVE  [N!Next]_<<NearBy, Found, Alerted, Detours>>
<1>1. PICK u \in users[w] :
        IF Affected(w, u) THEN seen' = [seen EXCEPT ![<<u, Inc(w)>>] = @ + 1] ELSE seen' = seen
  BY DEF Probe
<1>2. UNCHANGED <<graph, xy, inbox, live>>
  BY DEF Probe, redis, world
<1>3. UNCHANGED <<NearBy, Alerted, Detours>>
  BY <1>2 DEF NearBy, Near, Alerted, Detours
<1>4. CASE seen' = seen
  BY <1>3, <1>4 DEF Found
<1>5. CASE Affected(w, u) /\ seen' = [seen EXCEPT ![<<u, Inc(w)>>] = @ + 1]
  <2>1. seen \in [Pair -> Nat] /\ u \in User /\ Inc(w) \in graph /\ graph \subseteq Incident
    BY DEF IInv, TypeOK, Probe, Sought
  <2>2. <<u, Inc(w)>> \in NearBy
    BY <1>5, <2>1 DEF Affected, NearBy, Pair
  <2>3. <<u, Inc(w)>> \in Pair
    BY <2>2 DEF NearBy
  <2>4. Found' = Found \cup {<<u, Inc(w)>>}
    BY <1>5, <2>1, <2>3 DEF Found
  <2> QED
    BY <1>3, <2>2, <2>4 DEF N!Next, N!Find
<1> QED
  BY <1>1, <1>4, <1>5

(* An alert goes to a user the search found near the incident.             *)
LEMMA AlertOnNotices ==
    ASSUME IInv, NEW w \in Task, Sought(w), Alert(w)
    PROVE  [N!Next]_<<NearBy, Found, Alerted, Detours>>
<1>1. PICK u \in users[w] : inbox' = [inbox EXCEPT ![u] = @ \cup {Inc(w)}]
  BY DEF Alert
<1>2. UNCHANGED <<graph, xy, seen, live>> /\ pc[w] = "inbox"
  BY DEF Alert, world
<1>3. UNCHANGED <<NearBy, Found, Detours>>
  BY <1>2 DEF NearBy, Near, Found, Detours
<1>4. u \in User /\ Inc(w) \in Incident /\ u \in found[w] /\ inbox \in [User -> SUBSET Incident]
  BY <1>2, TypeParts, AtWork DEF IInv, TypeOK, InHand, Holds, Busy, Pc, HandsOK, SharedOK
<1>5. <<u, Inc(w)>> \in Found
  BY <1>2, <1>4 DEF Found, Pair, Sought, Busy, Pc
<1>6. Alerted' = Alerted \cup {<<u, Inc(w)>>}
  BY <1>1, <1>4 DEF Alerted, Pair
<1> QED
  BY <1>3, <1>5, <1>6 DEF N!Next, N!Tell

(* A live route goes to a user who was alerted to its incident, in place   *)
(* of the one it had.                                                      *)
LEMMA RouteOnNotices ==
    ASSUME IInv, NEW w \in Task, SetLive(w)
    PROVE  [N!Next]_<<NearBy, Found, Alerted, Detours>>
<1> DEFINE stored == [live EXCEPT ![user[w]] = [inc |-> Inc(w), ttl |-> None]]
<1>1. UNCHANGED <<graph, xy, seen, inbox>> /\ pc[w] = "live" /\ live' \in {live, stored}
  BY DEF SetLive, world
<1>2. UNCHANGED <<NearBy, Found, Alerted>>
  BY <1>1 DEF NearBy, Near, Found, Alerted
<1>3. CASE live' = live
  BY <1>2, <1>3 DEF Detours
<1>4. CASE live' = stored
  <2>1. /\ user[w] \in User /\ Inc(w) \in Incident /\ user[w] \in found[w]
        /\ live \in [User -> [inc : Incident \cup {None}, ttl : Incident \cup {None}]]
    BY <1>1, TypeParts, AtWork DEF IInv, InHand, Holds, Busy, Pc, HandsOK, SharedOK
  <2>2. <<user[w], Inc(w)>> \in Alerted
    BY <1>1, <2>1 DEF Alerted, Pair, IInv, Told
  <2>3. \A u \in User : live'[u].inc = IF u = user[w] THEN Inc(w) ELSE live[u].inc
    BY <1>4, <2>1
  <2>4. Detours' = {q \in Detours : q[1] # user[w]} \cup {<<user[w], Inc(w)>>}
    <3>1. ASSUME NEW p \in Pair
          PROVE  /\ p[1] \in User /\ p[2] \in Incident /\ p = <<p[1], p[2]>>
                 /\ p \in Detours' <=> live'[p[1]].inc = p[2]
                 /\ p \in Detours <=> live[p[1]].inc = p[2]
      BY DEF Pair, Detours
    <3>2. <<user[w], Inc(w)>> \in Pair /\ Detours' \subseteq Pair /\ Detours \subseteq Pair
      BY <2>1 DEF Pair, Detours
    <3>3. ASSUME NEW p \in Pair
          PROVE  p \in Detours' <=> (p \in Detours /\ p[1] # user[w]) \/ p = <<user[w], Inc(w)>>
      BY <2>3, <3>1
    <3> QED
      BY <3>2, <3>3
  <2> QED
    BY <1>2, <2>2, <2>4 DEF N!Next, N!Lead
<1> QED
  BY <1>1, <1>3, <1>4

(* Every other step leaves what was found, told and led as it is.          *)
LEMMA OthersOnNotices ==
    ASSUME IInv, [Next]_vars, \A w \in Task : ~Probe(w) /\ ~Alert(w) /\ ~SetLive(w)
    PROVE  [N!Next]_<<NearBy, Found, Alerted, Detours>>
<1>1. UNCHANGED <<seen, inbox>>
  <2>1. ASSUME NEW w \in Task, Process(w) PROVE UNCHANGED <<seen, inbox>>
    BY <2>1 DEF Process, Take, Locate, Mark, EndScan, Summarise, EndAlerts, Agent, EndRoutes, Expire, Done,
                ReadRaises, WriteRaises, redis
  <2>2. CASE Read \/ ReadLost \/ Ack \/ Sweep \/ StartUp \/ Crash \/ Publish \/ Move \/ UNCHANGED vars
    BY <2>2 DEF Read, ReadLost, Ack, Sweep, StartUp, Crash, Publish, Move, redis, vars
  <2> QED
    BY <2>1, <2>2, Actors
<1>2. ASSUME NEW u \in User PROVE live'[u].inc = live[u].inc
  <2>1. QueueOK /\ HandsOK /\ SharedOK /\ InHand
    BY TypeParts DEF IInv
  <2>2. live'[u] = live[u] \/ \E w \in Task : live'[u] = [inc |-> live[u].inc, ttl |-> Inc(w)]
    BY <2>1, LiveWrites
  <2>3. ASSUME NEW w \in Task, live'[u] = [inc |-> live[u].inc, ttl |-> Inc(w)]
        PROVE  live'[u].inc = live[u].inc
    BY <2>3
  <2> QED
    BY <2>2, <2>3
<1>3. UNCHANGED <<Found, Alerted>>
  BY <1>1 DEF Found, Alerted
<1>4. Detours' = Detours
  BY <1>2 DEF Detours, Pair
<1> QED
  BY <1>3, <1>4 DEF N!Next, N!Turn

(* Nobody is alerted to an incident or led around it whom the search has   *)
(* not found near it, in this order, however the two tasks interleave,     *)
(* whatever fails and however often the process dies.                      *)
THEOREM ImplementsNotices == Spec => Notified
<1>1. Init => N!Init /\ AllSought
  <2> SUFFICES ASSUME Init PROVE N!Init /\ AllSought
    OBVIOUS
  <2>1. \A p \in Pair : p[1] \in User /\ p[2] \in Incident
    BY DEF Pair
  <2>2. Found = {} /\ Alerted = {} /\ Detours = {}
    BY <2>1, NoneAssumption DEF Init, Found, Alerted, Detours
  <2> QED
    BY <2>2 DEF Init, N!Init, AllSought, Sought, Busy
<1>2. IInv /\ AllSought /\ [Next]_vars => AllSought'
  BY SoughtStep, TypeParts DEF IInv, AllSought
<1>3. IInv /\ AllSought /\ [Next]_vars => [N!Next]_<<NearBy, Found, Alerted, Detours>>
  <2> SUFFICES ASSUME IInv, AllSought, [Next]_vars
               PROVE  [N!Next]_<<NearBy, Found, Alerted, Detours>>
    OBVIOUS
  <2>1. CASE \E w \in Task : Probe(w) \/ Alert(w) \/ SetLive(w)
    BY <2>1, FindOnNotices, AlertOnNotices, RouteOnNotices DEF AllSought
  <2>2. CASE \A w \in Task : ~Probe(w) /\ ~Alert(w) /\ ~SetLive(w)
    BY <2>2, OthersOnNotices
  <2> QED
    BY <2>1, <2>2
<1> QED
  BY <1>1, <1>2, <1>3, Invariant, PTL DEF Spec, Notified, N!Spec

-----------------------------------------------------------------------------
(* Each step within a batch, and each failure, is nearer to its end.       *)
LEMMA WorkIsNearer ==
    ASSUME QueueOK, HandsOK, InHand, [Next]_vars, NEW w \in Task, Works(w)
    PROVE  Nearer(w)
<1> USE DEF Goto, hands
<1>0. /\ pc \in [Task -> Pc] /\ todo \in [Task -> SUBSET Entry] /\ users \in [Task -> SUBSET User]
      /\ todo' \in [Task -> SUBSET Entry] /\ users' \in [Task -> SUBSET User]
  BY HandsStep DEF HandsOK
<1>1. CASE Take(w)
  <2>1. PICK e \in todo[w] : todo' = [todo EXCEPT ![w] = @ \ {e}]
    BY <1>1 DEF Take
  <2>2. Shrinks(todo[w], todo'[w])
    BY <1>0, <2>1 DEF Shrinks
  <2> QED
    BY <2>2 DEF Nearer
<1>2. ASSUME todo'[w] = todo[w], Stage(w)' < Stage(w) PROVE Nearer(w)
  BY <1>2 DEF Nearer
<1>3. ASSUME todo'[w] = todo[w], Stage(w)' = Stage(w), NEW u \in users[w], users'[w] = users[w] \ {u}
      PROVE  Nearer(w)
  BY <1>3 DEF Nearer, Shrinks
<1>4. ASSUME todo'[w] = todo[w], Stage(w)' = Stage(w), users'[w] = users[w], Left(w)' < Left(w)
      PROVE  Nearer(w)
  BY <1>4 DEF Nearer
<1>5. CASE Finish(w) /\ todo' = todo /\ pc[w] \in {"locate", "scan", "route"}
  BY <1>0, <1>2, <1>5 DEF Finish, Stage
<1>6. CASE Locate(w)
  <2>1. todo' = todo /\ pc[w] = "locate" /\ (pc'[w] = "scan" \/ Finish(w))
    BY <1>0, <1>6 DEF Locate
  <2> QED
    BY <1>2, <1>5, <2>1 DEF Stage
<1>7. CASE Probe(w)
  <2>1. PICK u \in users[w] : users' = [users EXCEPT ![w] = @ \ {u}]
    BY <1>7 DEF Probe
  <2>2. todo' = todo /\ pc[w] = "scan" /\ pc'[w] \in {"scan", "mark"} /\ users'[w] = users[w] \ {u}
    BY <1>0, <1>7, <2>1 DEF Probe
  <2> QED
    BY <1>3, <2>2 DEF Stage
<1>8. CASE Mark(w)
  <2>1. todo' = todo /\ users' = users /\ pc[w] = "mark" /\ pc'[w] = "scan"
    BY <1>0, <1>8 DEF Mark
  <2> QED
    BY <1>4, <2>1 DEF Stage, Left
<1>9. CASE EndScan(w)
  <2>1. todo' = todo /\ pc[w] = "scan" /\ (pc'[w] = "alert" \/ Finish(w))
    BY <1>0, <1>9 DEF EndScan
  <2> QED
    BY <1>2, <1>5, <2>1 DEF Stage
<1>10. CASE Summarise(w) \/ EndAlerts(w)
  <2>1. todo' = todo /\ <<pc[w], pc'[w]>> \in {<<"alert", "inbox">>, <<"inbox", "route">>}
    BY <1>0, <1>10 DEF Summarise, EndAlerts
  <2> QED
    BY <1>2, <2>1 DEF Stage
<1>11. CASE Alert(w)
  <2>1. PICK u \in users[w] : users' = [users EXCEPT ![w] = @ \ {u}]
    BY <1>11 DEF Alert
  <2>2. todo' = todo /\ pc' = pc /\ users'[w] = users[w] \ {u}
    BY <1>0, <1>11, <2>1 DEF Alert
  <2> QED
    BY <1>3, <2>2 DEF Stage
<1>12. CASE Agent(w)
  <2>1. PICK u \in users[w] : users' = [users EXCEPT ![w] = @ \ {u}]
    BY <1>12 DEF Agent
  <2>2. todo' = todo /\ pc[w] = "route" /\ pc'[w] \in {"live", "route"} /\ users'[w] = users[w] \ {u}
    BY <1>0, <1>12, <2>1 DEF Agent
  <2> QED
    BY <1>3, <2>2 DEF Stage
<1>13. CASE EndRoutes(w)
  BY <1>5, <1>13 DEF EndRoutes
<1>14. CASE SetLive(w) \/ Expire(w) \/ Done(w)
  <2>1. /\ todo' = todo /\ users' = users
        /\ \/ pc[w] = "live" /\ pc'[w] \in {"expire", "done"}
           \/ <<pc[w], pc'[w]>> \in {<<"expire", "done">>, <<"done", "route">>}
    BY <1>0, <1>14 DEF SetLive, Expire, Done
  <2> QED
    BY <1>4, <2>1 DEF Stage, Left
<1>15. CASE w = "consumer" /\ Ack
  <2>1. todo' = todo /\ pc[w] = "ack" /\ pc'[w] = "loop"
    BY <1>0, <1>15 DEF Ack
  <2> QED
    BY <1>2, <2>1 DEF Stage
<1>16. CASE ReadRaises(w) \/ WriteRaises(w)
  <2>1. todo'[w] = {} /\ pc'[w] = "loop"
    BY <1>0, <1>16 DEF ReadRaises, WriteRaises, Drop
  <2>2. todo[w] # {} \/ pc[w] \in Pc \ {"down", "loop"}
    BY <1>0, <1>16 DEF ReadRaises, WriteRaises, Works, InBatch
  <2>3. CASE todo[w] # {}
    BY <2>1, <2>3 DEF Nearer, Shrinks
  <2>4. CASE todo[w] = {} /\ pc[w] \in Pc \ {"down", "loop"}
    BY <1>2, <2>1, <2>4 DEF Stage, Pc
  <2> QED
    BY <2>2, <2>3, <2>4
<1> QED
  BY <1>1, <1>6, <1>7, <1>8, <1>9, <1>10, <1>11, <1>12, <1>13, <1>14, <1>15, <1>16 DEF Works, Process

(* Every batch comes to its end: within it each step of a task, and each   *)
(* failure, takes something from what is left, for any number of users,    *)
(* incidents and entries.                                                  *)
THEOREM BatchesEnd == Spec => BatchEnds
<1>1. IInv /\ [Next]_vars => [\A w \in Task : Works(w) => Nearer(w)]_vars
  BY WorkIsNearer, TypeParts DEF IInv
<1> QED
  BY <1>1, Invariant, PTL DEF Spec, BatchEnds
=============================================================================
