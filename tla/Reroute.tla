------------------------------- MODULE Reroute ------------------------------
(***************************************************************************)
(* MAS02 (apps/mas02_reroute): the consumer that reacts to a new incident  *)
(* and the patrol that goes over all incidents every 15 seconds for users  *)
(* who came near one later.  Both are tasks of one process, run the same   *)
(* steps (find the users near the incident, mark them in the reroute       *)
(* history, put the alert in their inboxes, work out and store a route for *)
(* each) and share the history, the inboxes and the live routes in Redis.  *)
(*                                                                         *)
(* A user's snapshot is the set of incidents its route passes within 200 m *)
(* of, or NoXY when there is none.  The summary by the language model and  *)
(* its cache leave no trace here but the exception they may raise; the     *)
(* routing agent is one step.  The history lasts for the day modelled.     *)
(***************************************************************************)
EXTENDS Integers, FiniteSets, Sequences

CONSTANTS
    NGu,        \* number of district streams
    Incident,   \* incident ids
    Dated,      \* the incidents whose message has an end that can be parsed
    User,       \* user ids
    NoXY,       \* a user without a snapshot
    None,       \* no live route, no lifetime, no user
    WipesGraph, \* main.py empties the graph of incidents when it starts
    ModelBound, \* whether config carries the model client the routing agent calls
    MaxMsgs,    \* bound: messages published in all
    MaxMoves,   \* bound: changes of a snapshot
    MaxFaults,  \* bound: failed external calls
    MaxCrashes  \* bound: crashes

ASSUME BoundsAssumption ==
    /\ NGu \in Nat \ {0} /\ MaxMsgs \in Nat /\ MaxMoves \in Nat /\ MaxFaults \in Nat
    /\ MaxCrashes \in Nat /\ Dated \subseteq Incident /\ WipesGraph \in BOOLEAN /\ ModelBound \in BOOLEAN

(* None is no incident: the id in a stored route is a string.              *)
ASSUME NoneAssumption == None \notin Incident

Gu      == 1 .. NGu
Task    == {"consumer", "patrol"}
Pc      == {"down", "loop", "locate", "scan", "mark", "alert", "inbox", "route", "live",
            "expire", "done", "ack"}
Entry   == Gu \X (Nat \ {0})
Pair    == User \X Incident
NoEntry == <<>>
NoGroup == -1

VARIABLES
    src,     \* the incident streams, one per district
    group,   \* last entry the consumer group has delivered, or NoGroup
    pel,     \* entries delivered and not acknowledged
    graph,   \* incidents that are in the graph with the places they affect
    xy,      \* each user's snapshot
    marked,  \* the reroute history: pairs of user and incident
    inbox,   \* the incidents each user has an alert of
    live,    \* each user's live route: its incident and whose end it lives to
    pc,      \* where each task is
    todo,    \* the entries of its last read it has not reached yet
    entry,   \* the entry it is at
    users,   \* the users still to go in the loop it is in
    found,   \* the users it found near the incident
    user,    \* the user it is at
    beat,    \* the stream the patrol reads next
    seen,    \* history: how often each pair was found
    moves, faults, aborts, crashes   \* counts; aborts are exceptions that left a task's loop

redis  == <<src, group, pel, marked, inbox, live>>
world  == <<graph, xy, moves>>
hands  == <<entry, users, found, user>>
counts == <<faults, aborts, crashes>>
vars   == <<redis, world, pc, todo, hands, beat, seen, counts>>

Entries(g) == {<<g, i>> : i \in 1 .. Len(src[g])}
Inc(w)     == src[entry[w][1]][entry[w][2]]
Up         == pc["consumer"] # "down"
Near(u, i) == xy[u] # NoXY /\ i \in xy[u]
NoRoute    == [inc |-> None, ttl |-> None]

Init ==
    /\ src = [g \in Gu |-> <<>>] /\ group = [g \in Gu |-> NoGroup] /\ pel = {}
    /\ graph = {} /\ xy \in [User -> (SUBSET Incident) \cup {NoXY}]
    /\ marked = {} /\ inbox = [u \in User |-> {}] /\ live = [u \in User |-> NoRoute]
    /\ pc = [w \in Task |-> "down"] /\ todo = [w \in Task |-> {}]
    /\ entry = [w \in Task |-> NoEntry] /\ users = [w \in Task |-> {}]
    /\ found = [w \in Task |-> {}] /\ user = [w \in Task |-> None] /\ beat = 1
    /\ seen = [p \in Pair |-> 0]
    /\ moves = 0 /\ faults = 0 /\ aborts = 0 /\ crashes = 0

Fault == faults < MaxFaults /\ faults' = faults + 1 /\ UNCHANGED <<aborts, crashes>>

Goto(w, l) == pc' = [pc EXCEPT ![w] = l]

MUT_KeepFound(w) ==
    /\ Goto(w, IF w = "consumer" THEN "ack" ELSE "loop")
    /\ entry' = IF w = "consumer" THEN entry ELSE [entry EXCEPT ![w] = NoEntry]
    /\ users' = [users EXCEPT ![w] = {}]
    /\ user' = [user EXCEPT ![w] = None]
    /\ UNCHANGED found

(* The incident is dealt with: the consumer goes on to acknowledge it.     *)
Finish(w) ==
    /\ Goto(w, IF w = "consumer" THEN "ack" ELSE "loop")
    /\ entry' = IF w = "consumer" THEN entry ELSE [entry EXCEPT ![w] = NoEntry]
    /\ users' = [users EXCEPT ![w] = {}]
    /\ found' = [found EXCEPT ![w] = {}]
    /\ user' = [user EXCEPT ![w] = None]

-----------------------------------------------------------------------------
(* Starting up: all groups are destroyed, then all are created from id 0;  *)
(* failures are passed over.  The consumer then starts the patrol.         *)
StartUp ==
    /\ ~Up
    /\ \E destroyed, created \in SUBSET Gu :
        /\ IF destroyed = Gu /\ created = Gu THEN UNCHANGED counts ELSE Fault
        /\ LET kept == {g \in Gu \ destroyed : group[g] # NoGroup} IN
           /\ group' = [g \in Gu |-> IF g \in kept THEN group[g]
                                     ELSE IF g \in created THEN 0 ELSE NoGroup]
           /\ pel' = {e \in pel : e[1] \in kept}
    /\ graph' = IF WipesGraph THEN {} ELSE graph
    /\ pc' = [w \in Task |-> "loop"] /\ beat' = 1
    /\ UNCHANGED <<src, marked, inbox, live, xy, moves, todo, hands, seen>>

Fresh(g) == {e \in Entries(g) : e[2] = group[g] + 1}
FreshAll == UNION {Fresh(g) : g \in Gu}

(* XREADGROUP ">" with one entry per stream.                               *)
Deliver ==
    /\ pc["consumer"] = "loop" /\ todo["consumer"] = {} /\ FreshAll # {}
    /\ \A g \in Gu : group[g] # NoGroup
    /\ group' = [g \in Gu |-> IF Fresh(g) # {} THEN group[g] + 1 ELSE group[g]]
    /\ pel' = pel \cup FreshAll

Read ==
    /\ Deliver /\ todo' = [todo EXCEPT !["consumer"] = FreshAll]
    /\ UNCHANGED <<src, marked, inbox, live, world, pc, hands, beat, seen, counts>>

MUT_NoWrap ==
    /\ pc["patrol"] = "loop" /\ todo["patrol"] = {}
    /\ todo' = [todo EXCEPT !["patrol"] = Entries(beat)]
    /\ beat' = beat + 1
    /\ UNCHANGED <<redis, world, pc, hands, seen, counts>>

MUT_SweepNew ==
    /\ pc["patrol"] = "loop" /\ todo["patrol"] = {}
    /\ todo' = [todo EXCEPT !["patrol"] = {e \in Entries(beat) : e[2] > group[beat]}]
    /\ beat' = IF beat = NGu THEN 1 ELSE beat + 1
    /\ UNCHANGED <<redis, world, pc, hands, seen, counts>>

(* The patrol reads the whole of one stream after the other.               *)
Sweep ==
    /\ pc["patrol"] = "loop" /\ todo["patrol"] = {}
    /\ todo' = [todo EXCEPT !["patrol"] = Entries(beat)]
    /\ beat' = IF beat = NGu THEN 1 ELSE beat + 1
    /\ UNCHANGED <<redis, world, pc, hands, seen, counts>>

First(w, e) == \A f \in todo[w] : e[1] < f[1] \/ (e[1] = f[1] /\ e[2] <= f[2])

Take(w) ==
    /\ pc[w] = "loop" /\ Goto(w, "locate")
    /\ \E e \in todo[w] :
        /\ First(w, e)
        /\ todo' = [todo EXCEPT ![w] = @ \ {e}]
        /\ entry' = [entry EXCEPT ![w] = e]
    /\ UNCHANGED <<redis, world, users, found, user, beat, seen, counts>>

-----------------------------------------------------------------------------
(* get_affected_coordinates_from_neo4j and the KEYS of                     *)
(* get_active_users_by_coordinates; nobody is looked for when the graph    *)
(* knows no place, and an error of the graph counts as that.               *)
Locate(w) ==
    /\ pc[w] = "locate"
    /\ \/ /\ Inc(w) \in graph /\ Goto(w, "scan")
          /\ users' = [users EXCEPT ![w] = {u \in User : xy[u] # NoXY}]
          /\ UNCHANGED <<entry, found, user, counts>>
       \/ /\ IF Inc(w) \in graph THEN Fault ELSE UNCHANGED counts
          /\ Finish(w)
    /\ UNCHANGED <<redis, world, todo, beat, seen>>

MUT_IgnoreHistory(w, u) == Near(u, Inc(w))

Affected(w, u) == <<u, Inc(w)>> \notin marked /\ Near(u, Inc(w))

(* EXISTS history and GET snapshot of the next candidate.                  *)
Probe(w) ==
    /\ pc[w] = "scan"
    /\ \E u \in users[w] :
        /\ users' = [users EXCEPT ![w] = @ \ {u}]
        /\ IF Affected(w, u)
           THEN /\ Goto(w, "mark")
                /\ found' = [found EXCEPT ![w] = @ \cup {u}]
                /\ user' = [user EXCEPT ![w] = u]
                /\ seen' = [seen EXCEPT ![<<u, Inc(w)>>] = @ + 1]
           ELSE UNCHANGED <<pc, found, user, seen>>
    /\ UNCHANGED <<redis, world, todo, entry, beat, counts>>

(* The user is marked as dealt with before anything has been done for it.  *)
Mark(w) ==
    /\ pc[w] = "mark" /\ Goto(w, "scan")
    /\ marked' = marked \cup {<<user[w], Inc(w)>>}
    /\ user' = [user EXCEPT ![w] = None]
    /\ UNCHANGED <<src, group, pel, inbox, live, world, todo, entry, users, found, beat, seen, counts>>

EndScan(w) ==
    /\ pc[w] = "scan" /\ users[w] = {}
    /\ IF found[w] = {} THEN Finish(w) ELSE Goto(w, "alert") /\ UNCHANGED hands
    /\ UNCHANGED <<redis, world, todo, beat, seen, counts>>

MUT_SkipAlerts(w) ==
    /\ pc[w] = "alert" /\ Goto(w, "route")
    /\ users' = [users EXCEPT ![w] = found[w]]
    /\ UNCHANGED <<redis, world, todo, entry, found, user, beat, seen, counts>>

(* summarize_notice, or the cached summary, then the check of the cache.   *)
Summarise(w) ==
    /\ pc[w] = "alert" /\ Goto(w, "inbox")
    /\ users' = [users EXCEPT ![w] = found[w]]
    /\ UNCHANGED <<redis, world, todo, entry, found, user, beat, seen, counts>>

Alert(w) ==
    /\ pc[w] = "inbox"
    /\ \E u \in users[w] :
        /\ users' = [users EXCEPT ![w] = @ \ {u}]
        /\ inbox' = [inbox EXCEPT ![u] = @ \cup {Inc(w)}]
    /\ UNCHANGED <<src, group, pel, marked, live, world, pc, todo, entry, found, user, beat, seen,
                   counts>>

MUT_RouteEarly(w) ==
    /\ pc[w] = "inbox" /\ Goto(w, "route")
    /\ users' = [users EXCEPT ![w] = found[w]]
    /\ UNCHANGED <<redis, world, todo, entry, found, user, beat, seen, counts>>

EndAlerts(w) ==
    /\ pc[w] = "inbox" /\ users[w] = {} /\ Goto(w, "route")
    /\ users' = [users EXCEPT ![w] = found[w]]
    /\ UNCHANGED <<redis, world, todo, entry, found, user, beat, seen, counts>>

-----------------------------------------------------------------------------
MUT_Retry(w) ==
    /\ pc[w] = "route"
    /\ \E u \in users[w] :
        \/ /\ ModelBound /\ Goto(w, "live") /\ user' = [user EXCEPT ![w] = u]
           /\ users' = [users EXCEPT ![w] = @ \ {u}] /\ UNCHANGED counts
        \/ (IF ModelBound THEN Fault ELSE UNCHANGED counts) /\ UNCHANGED <<pc, user, users>>
    /\ UNCHANGED <<redis, world, todo, entry, found, beat, seen>>

(* The routing agent for the next user; its exceptions are caught, and the *)
(* loop goes on with the user after.                                       *)
Agent(w) ==
    /\ pc[w] = "route"
    /\ \E u \in users[w] :
        /\ users' = [users EXCEPT ![w] = @ \ {u}]
        /\ \/ ModelBound /\ Goto(w, "live") /\ user' = [user EXCEPT ![w] = u] /\ UNCHANGED counts
           \/ (IF ModelBound THEN Fault ELSE UNCHANGED counts) /\ UNCHANGED <<pc, user>>
    /\ UNCHANGED <<redis, world, todo, entry, found, beat, seen>>

EndRoutes(w) ==
    /\ pc[w] = "route" /\ users[w] = {} /\ Finish(w)
    /\ UNCHANGED <<redis, world, todo, beat, seen, counts>>

(* SET of the live route: it replaces the former one and its lifetime.  If *)
(* it raises, executed or not, the lifetime is never set.                  *)
SetLive(w) ==
    /\ pc[w] = "live"
    /\ LET stored == [live EXCEPT ![user[w]] = [inc |-> Inc(w), ttl |-> None]] IN
       \/ Goto(w, "expire") /\ live' = stored /\ UNCHANGED counts
       \/ Goto(w, "done") /\ live' \in {live, stored} /\ Fault
    /\ UNCHANGED <<src, group, pel, marked, inbox, world, todo, hands, beat, seen>>

MUT_NoExpire(w) ==
    /\ pc[w] = "expire" /\ Goto(w, "done")
    /\ UNCHANGED <<redis, world, todo, hands, beat, seen, counts>>

(* EXPIRE of whatever the key holds by now, to this incident's end; an end *)
(* that cannot be parsed raises before it, and the loop goes on.           *)
Expire(w) ==
    /\ pc[w] = "expire" /\ Goto(w, "done")
    /\ LET kept == [live EXCEPT ![user[w]].ttl = Inc(w)] IN
       \/ Inc(w) \in Dated /\ live' = kept /\ UNCHANGED counts
       \/ Inc(w) \in Dated /\ live' \in {live, kept} /\ Fault
       \/ Inc(w) \notin Dated /\ UNCHANGED <<live, counts>>
    /\ UNCHANGED <<src, group, pel, marked, inbox, world, todo, hands, beat, seen>>

(* The history is written a second time.                                   *)
Done(w) ==
    /\ pc[w] = "done" /\ Goto(w, "route")
    /\ marked' = marked \cup {<<user[w], Inc(w)>>}
    /\ user' = [user EXCEPT ![w] = None]
    /\ UNCHANGED <<src, group, pel, inbox, live, world, todo, entry, users, found, beat, seen, counts>>

Ack ==
    /\ pc["consumer"] = "ack" /\ Goto("consumer", "loop")
    /\ pel' = pel \ {entry["consumer"]}
    /\ entry' = [entry EXCEPT !["consumer"] = NoEntry]
    /\ UNCHANGED <<src, group, marked, inbox, live, world, todo, users, found, user, beat, seen, counts>>

-----------------------------------------------------------------------------
(* An exception that leaves the loops: the consumer drops the rest of its  *)
(* batch, which stays pending; the patrol begins a new round.              *)
Drop(w) ==
    /\ faults < MaxFaults /\ faults' = faults + 1 /\ aborts' = aborts + 1 /\ UNCHANGED crashes
    /\ Goto(w, "loop")
    /\ todo' = [todo EXCEPT ![w] = {}]
    /\ entry' = [entry EXCEPT ![w] = NoEntry]
    /\ users' = [users EXCEPT ![w] = {}]
    /\ found' = [found EXCEPT ![w] = {}]
    /\ user' = [user EXCEPT ![w] = None]
    /\ beat' = IF w = "patrol" THEN 1 ELSE beat

(* A read, or a call that changes nothing, raises.                         *)
ReadRaises(w) ==
    /\ pc[w] \in {"locate", "scan", "alert", "inbox"} \cup (IF w = "patrol" THEN {"loop"} ELSE {})
    /\ pc[w] = "locate" => Inc(w) \in graph
    /\ pc[w] = "loop" => todo[w] = {}
    /\ Drop(w)
    /\ UNCHANGED <<redis, world, seen>>

(* The reply to a read that did deliver is lost.                           *)
ReadLost ==
    /\ Deliver /\ Drop("consumer")
    /\ UNCHANGED <<src, marked, inbox, live, world, seen>>

(* A write raises, executed or not.                                        *)
WriteRaises(w) ==
    /\ pc[w] \in {"mark", "done", "ack"} /\ Drop(w)
    /\ IF pc[w] = "ack"
       THEN pel' \in {pel, pel \ {entry[w]}} /\ UNCHANGED marked
       ELSE marked' \in {marked, marked \cup {<<user[w], Inc(w)>>}} /\ UNCHANGED pel
    /\ UNCHANGED <<src, group, inbox, live, world, seen>>

Crash ==
    /\ Up /\ crashes < MaxCrashes /\ crashes' = crashes + 1 /\ UNCHANGED <<faults, aborts>>
    /\ pc' = [w \in Task |-> "down"] /\ todo' = [w \in Task |-> {}]
    /\ entry' = [w \in Task |-> NoEntry] /\ users' = [w \in Task |-> {}]
    /\ found' = [w \in Task |-> {}] /\ user' = [w \in Task |-> None]
    /\ UNCHANGED <<redis, world, beat, seen>>

-----------------------------------------------------------------------------
(* MAS01 puts an incident into the graph, then onto its district's stream, *)
(* also when it found no platform that the incident affects.               *)
Publish ==
    /\ Cardinality(UNION {Entries(g) : g \in Gu}) < MaxMsgs
    /\ \E g \in Gu, i \in Incident :
        src' = [src EXCEPT ![g] = Append(@, i)] /\ graph' \in {graph, graph \cup {i}}
    /\ UNCHANGED <<group, pel, marked, inbox, live, xy, moves, pc, todo, hands, beat, seen, counts>>

Move ==
    /\ moves < MaxMoves /\ moves' = moves + 1
    /\ \E u \in User, s \in (SUBSET Incident) \cup {NoXY} : xy' = [xy EXCEPT ![u] = s]
    /\ UNCHANGED <<redis, graph, pc, todo, hands, beat, seen, counts>>

Process(w) ==
    \/ Take(w) \/ Locate(w) \/ Probe(w) \/ Mark(w) \/ EndScan(w) \/ Summarise(w) \/ Alert(w)
    \/ EndAlerts(w) \/ Agent(w) \/ EndRoutes(w) \/ SetLive(w) \/ Expire(w) \/ Done(w)
    \/ ReadRaises(w) \/ WriteRaises(w)

Consumer == Process("consumer") \/ Read \/ ReadLost \/ Ack
Patrol   == Process("patrol") \/ Sweep

Next == Consumer \/ Patrol \/ StartUp \/ Crash \/ Publish \/ Move

Spec == Init /\ [][Next]_vars

(* Both tasks are scheduled and every call they await returns or raises.   *)
FairSpec == Spec /\ WF_vars(Consumer) /\ WF_vars(Patrol)

-----------------------------------------------------------------------------
TypeOK ==
    /\ src \in [Gu -> Seq(Incident)]
    /\ group \in [Gu -> Nat \cup {NoGroup}] /\ \A g \in Gu : group[g] <= Len(src[g])
    /\ pel \subseteq Entry /\ graph \subseteq Incident
    /\ xy \in [User -> (SUBSET Incident) \cup {NoXY}]
    /\ marked \subseteq Pair /\ inbox \in [User -> SUBSET Incident]
    /\ live \in [User -> [inc : Incident \cup {None}, ttl : Incident \cup {None}]]
    /\ pc \in [Task -> Pc] /\ todo \in [Task -> SUBSET Entry]
    /\ entry \in [Task -> Entry \cup {NoEntry}]
    /\ users \in [Task -> SUBSET User] /\ found \in [Task -> SUBSET User]
    /\ user \in [Task -> User \cup {None}] /\ beat \in Gu
    /\ seen \in [Pair -> Nat] /\ moves \in 0 .. MaxMoves
    /\ faults \in 0 .. MaxFaults /\ aborts \in 0 .. faults /\ crashes \in 0 .. MaxCrashes

(* However often an incident is published, read and swept, the two tasks   *)
(* together find a user for it at most twice, once more for an exception   *)
(* that cut a task off and twice more for a crash: the history is checked  *)
(* and written in two steps (tools.py 82 and 140), so both tasks can find  *)
(* the user, but no more than that.                                        *)
FindsBounded ==
    \A p \in Pair : seen[p] <= Cardinality(Task) * (1 + crashes) + aborts

(* A user marked as dealt with has the alert, or a task that has found it  *)
(* is on the way to deliver it, as long as no exception and no crash has   *)
(* dropped what a task had found (tools.py 140 before alert.py 107).       *)
MarkedInHand ==
    aborts = 0 /\ crashes = 0 =>
        \A p \in marked :
            \/ p[2] \in inbox[p[1]]
            \/ \E w \in Task : /\ pc[w] \in {"scan", "mark", "alert", "inbox"}
                               /\ p[1] \in found[w] /\ Inc(w) = p[2]

(* A live route around an incident is never stored for a user who has not  *)
(* been alerted to it, in whatever way calls fail or the process dies.     *)
AlertBeforeRoute == \A u \in User : live[u].inc # None => live[u].inc \in inbox[u]

(* A stored route around an incident with an end, but without a lifetime,  *)
(* is about to be given one, unless a call failed or the process died in   *)
(* between (workers.py 105 and 116), also when the other task has stored a *)
(* route around an incident without an end before.                         *)
LifetimePending ==
    faults = 0 /\ crashes = 0 =>
        \A u \in User : live[u].inc \in Dated /\ live[u].ttl = None =>
            \E w \in Task : pc[w] = "expire" /\ user[w] = u

(* What the comment on workers.py 107 says of the lifetime: a live route   *)
(* that has one lives to the end of the incident it avoids.                *)
RouteLivesToItsEnd == \A u \in User : live[u].ttl # None => live[u].ttl = live[u].inc

-----------------------------------------------------------------------------
Stage(w) ==
    CASE pc[w] \in {"down", "loop"}                      -> 0
      [] pc[w] = "ack"                                   -> 1
      [] pc[w] \in {"route", "live", "expire", "done"}   -> 2
      [] pc[w] = "inbox"                                 -> 3
      [] pc[w] = "alert"                                 -> 4
      [] pc[w] \in {"scan", "mark"}                      -> 5
      [] pc[w] = "locate"                                -> 6

(* What is left to do for the user a task is at.                           *)
Left(w) ==
    CASE pc[w] = "live" -> 3 [] pc[w] = "expire" -> 2 [] pc[w] \in {"mark", "done"} -> 1 [] OTHER -> 0

Shrinks(S, T) == T \subseteq S /\ T # S

(* Fewer entries of the batch, or a later stage of the one it is at, or    *)
(* fewer users in its loop, or less to do for this user.                   *)
Nearer(w) ==
    \/ Shrinks(todo[w], todo'[w])
    \/ /\ todo'[w] = todo[w]
       /\ \/ Stage(w)' < Stage(w)
          \/ /\ Stage(w)' = Stage(w)
             /\ \/ Shrinks(users[w], users'[w])
                \/ users'[w] = users[w] /\ Left(w)' < Left(w)

(* A step of a task within a batch.                                        *)
InBatch(w) == pc[w] # "loop" \/ todo[w] # {}
Works(w)   == InBatch(w) /\ (Process(w) \/ (w = "consumer" /\ Ack))

(* A batch comes to its end: every step of a task, also one that fails,    *)
(* brings it nearer to its next read, whatever the other task does to the  *)
(* history they share, and nothing is tried twice (workers.py 70 to 134).  *)
BatchEnds == [][\A w \in Task : Works(w) => Nearer(w)]_vars

-----------------------------------------------------------------------------
NearBy  == {p \in Pair : p[2] \in graph /\ Near(p[1], p[2])}
Found   == {p \in Pair : seen[p] > 0}
Alerted == {p \in Pair : p[2] \in inbox[p[1]]}
Detours == {p \in Pair : live[p[1]].inc = p[2]}

N == INSTANCE Notices WITH near <- NearBy, found <- Found, told <- Alerted, detour <- Detours

(* Nobody is alerted to an incident, or led around it, whom the search has *)
(* not found near it, and in this order: the incident a task is at, the    *)
(* users it found and the graph belong together from the search (tools.py  *)
(* 82) over the alert (alert.py 107) to the live route (workers.py 105),   *)
(* while the other task works on its own incident and calls fail.          *)
Notified == N!Spec

-----------------------------------------------------------------------------
Published(i) == \E g \in Gu : \E k \in 1 .. Len(src[g]) : src[g][k] = i

(* A user who stays near an incident that is on a stream and in the graph, *)
(* whenever it came near, is alerted, unless an exception or a crash drops *)
(* it on the way: the patrol makes up for entries that the consumer left   *)
(* behind and for earlier failures (workers.py 149).                       *)
NearUserAlerted ==
    \A u \in User, i \in Incident, a \in 0 .. MaxFaults, c \in 0 .. MaxCrashes :
        /\ Up /\ Published(i) /\ i \in graph /\ Near(u, i) /\ <<u, i>> \notin marked
        /\ aborts = a /\ crashes = c
        ~> i \in inbox[u] \/ ~Near(u, i) \/ aborts > a \/ crashes > c

(* What alert.py 78 says: the users found near an incident get its alert.  *)
FoundUserAlerted == \A u \in User, i \in Incident : <<u, i>> \in marked ~> i \in inbox[u]
=============================================================================
