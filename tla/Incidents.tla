----------------------------- MODULE Incidents -----------------------------
(***************************************************************************)
(* The agent of MAS01 (apps/mas01_incident/agents_new.py): what the two    *)
(* listeners run on an announcement that is new.  Three questions to the   *)
(* language model find the places it speaks of, one parser for each kind   *)
(* of place describes those that are closed, and each of them is located,  *)
(* stored in the graph and published on the stream of its district.  The   *)
(* two analyses share the graph and the streams and interleave wherever    *)
(* they wait.  The cleaner is here too, since it reads those streams.      *)
(***************************************************************************)
EXTENDS Geocode, Integers, FiniteSets, SequencesExt

CONSTANTS
    Texts,    \* the announcements: for each kind of place, the lists of
              \* items a parser may answer
    Near,     \* the bus platforms within 200 m of each place
    StopOf,   \* the platforms of a bus stop, by its number
    Track,    \* the platforms of each subway line, in order
    Called,   \* the platforms whose name contains a name
    Districts, \* the districts of Seoul, without the word for district
    MaxAnalyses, MaxFaults, MaxRestarts \* bounds

VARIABLES
    work,     \* the analysis that each listener is at
    graph,    \* the incidents in Neo4j
    edges,    \* AFFECTED_BY: platforms and incidents
    posted,   \* the messages on the streams
    cleaner,  \* the cleaner of the streams: asleep, or backing off
    begun,    \* analyses
    faults,   \* calls of stores and streams that raised
    restarts  \* restarts of the process

vars == <<work, graph, edges, posted, cleaner, begun, faults, restarts>>

Task  == {"stream", "notice"}
Kinds == {"ADDRESS_POINT", "LINEAR_REFERENCE", "BETWEEN_NODES", "BUSSTOP", "SUBWAY"}
Nodes == <<"ner", "preprocess", "classify", "ADDRESS_POINT", "LINEAR_REFERENCE", "BETWEEN_NODES",
           "BUSSTOP", "SUBWAY", "enrich", "apply", "publish", "report">>
At(t, name) == work[t].node > 0 /\ Nodes[work[t].node] = name

(* What a parser answers, but for the fields of the details that no step   *)
(* of the agent looks at.  The type, too, is the language model's word.    *)
ItemOf == [type : STRING, name : STRING, since : {Null} \cup Nat,
           start : {Null} \cup Names, end : {Null} \cup Names, road : {Null} \cup STRING,
           lat : {"right", "swapped", "text", "null", "absent"},
           where : SUBSET STRING, si : Area, gu : Area]

ASSUME BoundsAssumption == MaxAnalyses \in Nat /\ MaxFaults \in Nat /\ MaxRestarts \in Nat

ASSUME AnswersAssumption ==
    \A x \in DOMAIN Texts : /\ DOMAIN Texts[x] \subseteq Kinds
                            /\ \A k \in DOMAIN Texts[x] : Texts[x][k] \subseteq Seq(ItemOf)

ASSUME NetworkAssumption ==
    /\ Track \in [DOMAIN Track -> Seq(STRING)]
    /\ "gu" \notin Districts

Idle == [node |-> 0, text |-> Null, kinds |-> {}, items |-> <<>>, i |-> 1, kept |-> {}]

Init == /\ work = [t \in Task |-> Idle] /\ graph = {} /\ edges = {} /\ posted = {}
        /\ cleaner = "asleep" /\ begun = 0 /\ faults = 0 /\ restarts = 0

Fault == faults < MaxFaults /\ faults' = faults + 1
Stay  == UNCHANGED <<graph, edges, posted, cleaner, begun, restarts>>
Leave(t) == work' = [work EXCEPT ![t] = Idle]

(* On to the next node.  A parser with no place of its kind does nothing,  *)
(* so the next node is the first that is not such a parser.                *)
GoOn(t, new) ==
    \E n \in new.node + 1 .. Len(Nodes) :
        /\ Nodes[n] \notin Kinds \ new.kinds
        /\ \A m \in new.node + 1 .. n - 1 : Nodes[m] \in Kinds \ new.kinds
        /\ work' = [work EXCEPT ![t] = [new EXCEPT !.node = n, !.i = 1]]

-----------------------------------------------------------------------------
(* The model's answers.  An answer that is no list counts as an empty one; *)
(* an answer that does not come raises, which ends the analysis.           *)
Begin(t) ==
    /\ work[t] = Idle /\ begun < MaxAnalyses /\ begun' = begun + 1
    /\ \E x \in DOMAIN Texts : GoOn(t, [Idle EXCEPT !.text = x])
    /\ UNCHANGED <<graph, edges, posted, cleaner, faults, restarts>>

Recognise(t) ==
    /\ At(t, "ner") \/ At(t, "preprocess")
    /\ GoOn(t, work[t]) /\ Stay /\ UNCHANGED faults

Classify(t) ==
    /\ At(t, "classify")
    /\ \E kinds \in {DOMAIN Texts[work[t].text], {}} : GoOn(t, [work[t] EXCEPT !.kinds = kinds])
    /\ Stay /\ UNCHANGED faults

NoAnswer(t) ==
    /\ \/ \E name \in {"ner", "preprocess", "classify"} : At(t, name)
       \/ \E k \in work[t].kinds : At(t, k)
    /\ Fault /\ Leave(t) /\ Stay

(* A parser adds its items and sets right, in all items so far, a latitude *)
(* and a longitude that are the wrong way round.                           *)
MUT_BeforeExtend(items, new) ==
    [i \in DOMAIN items |-> IF items[i].lat = "swapped" THEN [items[i] EXCEPT !.lat = "right"] ELSE items[i]]
        \o new

Straighten(items, new) ==
    LET all == items \o new IN
    [i \in DOMAIN all |-> IF all[i].lat = "swapped" THEN [all[i] EXCEPT !.lat = "right"] ELSE all[i]]

Parse(t) ==
    \E k \in Kinds :
        /\ At(t, k)
        /\ \E new \in Texts[work[t].text][k] \cup {<<>>} :
              LET items == work[t].items \o new IN
              IF \E i \in DOMAIN items : items[i].lat = "absent" THEN Leave(t)
              ELSE GoOn(t, [work[t] EXCEPT !.items = Straighten(@, new)])
        /\ Stay /\ UNCHANGED faults

-----------------------------------------------------------------------------
(* Items without coordinates are looked up; what they already say of their *)
(* city and district stays.  One lookup that raises ends the analysis.     *)
Outcomes(item) == IF item.lat # "null" THEN {item}
                  ELSE {[item EXCEPT !.lat = IF o.where = {} THEN "null" ELSE "right", !.where = o.where,
                                     !.si = IF @ = Null THEN o.si ELSE @,
                                     !.gu = IF @ = Null THEN o.gu ELSE @] : o \in Resolve(item)}

Enrich(t) ==
    /\ At(t, "enrich")
    /\ LET items == work[t].items
           all   == UNION {Outcomes(items[i]) : i \in DOMAIN items} IN
       IF \E i \in DOMAIN items : Outcomes(items[i]) = {} THEN Leave(t)
       ELSE \E new \in [DOMAIN items -> all] :
               /\ \A i \in DOMAIN items : new[i] \in Outcomes(items[i])
               /\ GoOn(t, [work[t] EXCEPT !.items = new])
    /\ Stay /\ UNCHANGED faults

-----------------------------------------------------------------------------
(* The incident an item is stored as.                                      *)
Id(item) == CASE item.type = "BUSSTOP" -> <<item.since, "BUSSTOP", item.name>>
              [] item.type = "SUBWAY"  -> <<item.since, "SUBWAY", <<item.name, item.start, item.end>>>>
              [] OTHER                 -> <<item.since, "POINT", item.where>>

(* Items for which no query is sent: a place without a latitude or with    *)
(* one that is no number, a closure of a line with a name that is none, or *)
(* with one name that is empty.                                            *)
MUT_OneSided(item) ==
    CASE item.type = "BUSSTOP" -> FALSE
      [] item.type = "SUBWAY"  -> item.start = Null \/ item.end = Null
      [] OTHER                 -> item.lat \in {"null", "text"}

Unfit(item) ==
    CASE item.type = "BUSSTOP" -> FALSE
      [] item.type = "SUBWAY"  -> \/ item.start = Null \/ item.end = Null
                                  \/ (item.start = "") # (item.end = "")
      [] OTHER                 -> item.lat \in {"null", "text"}

(* The platforms of a line; there are none on a line the graph lacks.      *)
OnLine(line) == IF line \in DOMAIN Track THEN Track[line] ELSE <<>>

Stretch(line, a, b) ==
    LET track    == OnLine(line)
        on(name) == {i \in DOMAIN track : track[i] \in Called[name]} IN
    {track[k] : k \in {k \in DOMAIN track :
        \E i \in on(a), j \in on(b) : i <= k /\ k <= j /\ j <= i + 30}}

(* The platforms the query of an item finds.                               *)
Matched(item) ==
    CASE item.type = "BUSSTOP" -> StopOf[item.name]
      [] item.type = "SUBWAY" -> IF item.start # item.end THEN Stretch(item.road, item.start, item.end)
                                 ELSE IF item.start = "" THEN ToSet(OnLine(item.road))
                                 ELSE ToSet(OnLine(item.road)) \cap Called[item.start]
      [] OTHER -> UNION {Near[p] : p \in item.where}

(* MERGE: the incident and its edges, each once.                           *)
Merge(item) ==
    /\ graph' = graph \cup {Id(item)}
    /\ edges' = edges \cup {<<p, Id(item)>> : p \in Matched(item)}

Applying(t) == At(t, "apply") /\ work[t].i <= Len(work[t].items)
Item(t)     == work[t].items[work[t].i]
Skip(t)     == work' = [work EXCEPT ![t].i = @ + 1]

Pass(t) ==
    /\ Applying(t) /\ Unfit(Item(t)) /\ Skip(t)
    /\ Stay /\ UNCHANGED faults

Store(t) ==
    /\ Applying(t) /\ ~Unfit(Item(t)) /\ Merge(Item(t))
    /\ work' = [work EXCEPT ![t].kept = @ \cup {work[t].i}, ![t].i = @ + 1]
    /\ UNCHANGED <<posted, cleaner, begun, faults, restarts>>

MUT_Break(t) ==
    /\ Applying(t) /\ ~Unfit(Item(t)) /\ Fault /\ GoOn(t, work[t])
    /\ Merge(Item(t)) \/ UNCHANGED <<graph, edges>>
    /\ UNCHANGED <<posted, cleaner, begun, restarts>>

(* The query raises, executed or not; the item is passed over.             *)
StoreFails(t) ==
    /\ Applying(t) /\ ~Unfit(Item(t)) /\ Fault /\ Skip(t)
    /\ Merge(Item(t)) \/ UNCHANGED <<graph, edges>>
    /\ UNCHANGED <<posted, cleaner, begun, restarts>>

Applied(t) ==
    /\ At(t, "apply") /\ ~Applying(t) /\ GoOn(t, work[t])
    /\ Stay /\ UNCHANGED faults

-----------------------------------------------------------------------------
(* What is stored and has a district goes to its stream, in order.         *)
MUT_AnyCity(si) == si
City(si)     == IF si # Null /\ "Seoul" \in ToSet(si) THEN Seoul ELSE si
MUT_AsGiven(gu) == gu
District(gu) == IF Last(gu) = "gu" THEN gu ELSE Append(gu, "gu")
Message(item) == [stream |-> <<City(item.si), District(item.gu)>>, id |-> Id(item)]

Watched == {<<Seoul, <<d, "gu">>>> : d \in Districts}

Publishing(t) == At(t, "publish") /\ work[t].i <= Len(work[t].items)
MUT_AllItems(t) == Item(t).gu # Null
ToPublish(t)  == work[t].i \in work[t].kept /\ Item(t).gu # Null
Xadd(t)       == posted' = posted \cup {Message(Item(t))}

Publish(t) ==
    /\ Publishing(t) /\ Skip(t)
    /\ IF ToPublish(t) THEN Xadd(t) ELSE UNCHANGED posted
    /\ UNCHANGED <<graph, edges, cleaner, begun, faults, restarts>>

(* XADD raises, executed or not; what is left is not published.            *)
PublishFails(t) ==
    /\ Publishing(t) /\ ToPublish(t) /\ Fault /\ Leave(t)
    /\ Xadd(t) \/ UNCHANGED posted
    /\ UNCHANGED <<graph, edges, cleaner, begun, restarts>>

Published(t) ==
    /\ At(t, "publish") /\ ~Publishing(t) /\ GoOn(t, work[t])
    /\ Stay /\ UNCHANGED faults

Report(t) == At(t, "report") /\ Leave(t) /\ Stay /\ UNCHANGED faults

-----------------------------------------------------------------------------
(* The cleaner looks for a field that no message has, so that the first    *)
(* message it sees raises.                                                 *)
Clean ==
    /\ cleaner = "asleep" /\ \E m \in posted : m.stream \in Watched
    /\ cleaner' = "backoff"
    /\ UNCHANGED <<work, graph, edges, posted, begun, faults, restarts>>

BackOff ==
    /\ cleaner = "backoff" /\ cleaner' = "asleep"
    /\ UNCHANGED <<work, graph, edges, posted, begun, faults, restarts>>

(* The process ends and starts; the server wipes the graph, the daemon     *)
(* does not.  The streams stay.                                            *)
Restart ==
    /\ restarts < MaxRestarts /\ restarts' = restarts + 1
    /\ work' = [t \in Task |-> Idle] /\ cleaner' = "asleep"
    /\ \/ graph' = {} /\ edges' = {}
       \/ UNCHANGED <<graph, edges>>
    /\ UNCHANGED <<posted, begun, faults>>

Step(t) == Recognise(t) \/ Classify(t) \/ NoAnswer(t) \/ Parse(t) \/ Enrich(t) \/ Pass(t) \/ Store(t)
           \/ StoreFails(t) \/ Applied(t) \/ Publish(t) \/ PublishFails(t) \/ Published(t) \/ Report(t)

Next == (\E t \in Task : Begin(t) \/ Step(t)) \/ Clean \/ BackOff \/ Restart

Spec == Init /\ [][Next]_vars

-----------------------------------------------------------------------------
TypeOK ==
    /\ \A t \in Task :
          LET w == work[t] IN
          /\ w.node \in 0 .. Len(Nodes) /\ w.text \in DOMAIN Texts \cup {Null}
          /\ w.kinds \subseteq Kinds /\ w.i \in 1 .. Len(w.items) + 1 /\ w.kept \subseteq DOMAIN w.items
    /\ cleaner \in {"asleep", "backoff"} /\ begun \in 0 .. MaxAnalyses
    /\ faults \in 0 .. MaxFaults /\ restarts \in 0 .. MaxRestarts
    /\ \A e \in edges : e[2] \in graph
    /\ \A m \in posted : Last(m.stream[2]) = "gu"

(* Whoever reads of an incident finds it in the graph: it is stored before *)
(* it is published (agents_new.py 603), nothing but the start of the       *)
(* server takes incidents from the graph, and the cleaner purges none.     *)
B == INSTANCE Board WITH known <- graph
OnBoard == B!Spec

(* An item that cannot be stored costs no other item its place: of what is *)
(* fit no more is missing than queries raised, also when one of the first  *)
(* of several raises (agents_new.py 584-601).                              *)
Missed(w) == {i \in DOMAIN w.items : i \notin w.kept /\ ~Unfit(w.items[i])}

EachOnItsOwn == \A t \in Task : At(t, "publish") => Cardinality(Missed(work[t])) <= faults

(* No incident is stored with its latitude and longitude swapped, whatever *)
(* the language model answered.                                            *)
Upright == \A t \in Task : \A i \in work[t].kept : work[t].items[i].lat # "swapped"

(* An analysis that ends well has put each incident it stored on a stream, *)
(* if its district is known, whatever the other analysis and the failures  *)
(* did in between; one in a district of Seoul is on a stream that MAS02    *)
(* watches, with whichever words the city is written, and whether or not   *)
(* the district is written with the word for it (tools.py 185-188).        *)
InDistrictOfSeoul(item) ==
    /\ item.si # Null /\ "Seoul" \in ToSet(item.si)
    /\ \E d \in Districts : item.gu \in {<<d>>, <<d, "gu">>}

PostedInFull ==
    \A t \in Task :
        At(t, "report") =>
            \A i \in work[t].kept :
                LET item == work[t].items[i] IN
                item.gu # Null =>
                    \E m \in posted :
                        /\ m.id = Id(item)
                        /\ InDistrictOfSeoul(item) => m.stream \in Watched

(* A closure of a line that names stations affects only platforms from the *)
(* first to the second of them; only one that names none affects the whole *)
(* line.                                                                   *)
InScope(e) ==
    e[2][2] = "SUBWAY" =>
        LET start == e[2][3][2]
            end   == e[2][3][3] IN
        \/ start = "" /\ end = ""
        \/ start # "" /\ end # "" /\ \E line \in DOMAIN Track :
            \E i, j, k \in DOMAIN Track[line] :
                /\ i <= k /\ k <= j /\ Track[line][k] = e[1]
                /\ Track[line][i] \in Called[start] /\ Track[line][j] \in Called[end]

ClosureScope == \A e \in edges : InScope(e)

-----------------------------------------------------------------------------
(* What makes the invariants inductive.  An analysis at the node of a      *)
(* parser has found that kind of place in its announcement, what it keeps  *)
(* it keeps from the node that stores on, and the item counter of that     *)
(* node and of the next divides the items into those dealt with and those  *)
(* still to come.                                                          *)
Fields == {"node", "text", "kinds", "items", "i", "kept"}

Straight == {item \in ItemOf : item.lat # "swapped"}

Shaped(w) ==
    /\ DOMAIN w = Fields /\ w.node \in 0 .. Len(Nodes)
    /\ w.text \in DOMAIN Texts \cup {Null} /\ w.kinds \subseteq Kinds
    /\ w.node > 0 => /\ w.text \in DOMAIN Texts /\ w.kinds \subseteq DOMAIN Texts[w.text]
                     /\ Nodes[w.node] \notin Kinds \ w.kinds
    /\ w.items \in Seq(Straight)
    /\ w.i \in 1 .. Len(w.items) + 1
    /\ w.kept \subseteq DOMAIN w.items /\ (w.kept # {} => w.node >= 10)

Past(w, node, i) == w.node > node \/ (w.node = node /\ i < w.i)

Lost(w)  == {i \in Missed(w) : Past(w, 10, i)}
Dealt(w) == Cardinality(Lost(w)) <= faults

Told(w) ==
    \A i \in w.kept : Past(w, 11, i) /\ w.items[i].gu # Null => Message(w.items[i]) \in posted

TasksOK == /\ DOMAIN work = Task
           /\ \A t \in Task : Shaped(work[t]) /\ Dealt(work[t]) /\ Told(work[t])

AgentInv == TypeOK /\ ClosureScope /\ TasksOK
=============================================================================
