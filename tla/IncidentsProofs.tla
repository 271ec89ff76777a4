-------------------------- MODULE IncidentsProofs --------------------------
(***************************************************************************)
(* The agent of MAS01 implements the board, and keeps what it promises of  *)
(* each item, whatever the announcements, the answers of the language      *)
(* model, the node table, Kakao's answers and the network are, and however *)
(* many calls fail.                                                        *)
(***************************************************************************)
EXTENDS Incidents, FiniteSetTheorems, TLAPS

(* An analysis has kept items only from the node that stores them on, and  *)
(* what it has kept is in the graph: the later nodes do not change items,  *)
(* and only a restart, which ends both analyses, takes anything out.       *)
Formed(w) == /\ DOMAIN w = Fields /\ w.node \in 0 .. 12
             /\ w.kept # {} => w.node >= 10

Stored(w, g) == \A i \in w.kept : Id(w.items[i]) \in g

IInv == /\ DOMAIN work = Task
        /\ \A t \in Task : Formed(work[t]) /\ Stored(work[t], graph)

(* The number of the node that a task is at.                               *)
LEMMA NodeNumbers ==
    ASSUME NEW t \in Task, IInv
    PROVE  /\ Len(Nodes) = 12
           /\ \A name \in {"ner", "preprocess", "classify", "enrich"} \cup Kinds :
                  At(t, name) => work[t].node < 10 /\ work[t].kept = {}
           /\ At(t, "apply") => work[t].node = 10
           /\ At(t, "publish") => work[t].node = 11
<1>1. Len(Nodes) = 12 /\ work[t].node \in 0 .. 12
  BY DEF Nodes, IInv, Formed
<1>2. \A n \in 1 .. 12 : /\ n >= 10 => Nodes[n] \notin {"ner", "preprocess", "classify", "enrich"} \cup Kinds
                         /\ Nodes[n] = "apply" => n = 10
                         /\ Nodes[n] = "publish" => n = 11
  BY DEF Nodes, Kinds
<1> QED
  BY <1>1, <1>2 DEF At, IInv, Formed

(* Going on keeps the items and what is kept of them.                      *)
LEMMA GoingOn ==
    ASSUME IInv, NEW t \in Task, NEW new, GoOn(t, new), NEW g, graph \subseteq g,
           DOMAIN new = Fields, new.node \in 0 .. 12, new.kept # {} => new.node >= 10, Stored(new, g)
    PROVE  /\ DOMAIN work' = Task
           /\ \A u \in Task : Formed(work'[u]) /\ Stored(work'[u], g)
<1>1. PICK n \in new.node + 1 .. 12 : work' = [work EXCEPT ![t] = [new EXCEPT !.node = n, !.i = 1]]
  BY DEF GoOn, Nodes
<1>2. /\ DOMAIN work' = Task
      /\ work'[t] = [new EXCEPT !.node = n, !.i = 1]
      /\ \A u \in Task \ {t} : work'[u] = work[u]
  BY <1>1 DEF IInv
<1>3. /\ DOMAIN work'[t] = Fields /\ work'[t].node = n
      /\ work'[t].kept = new.kept /\ work'[t].items = new.items
  BY <1>2 DEF Fields
<1>4. Formed(work'[t]) /\ Stored(work'[t], g)
  BY <1>1, <1>3 DEF Formed, Stored
<1>5. \A u \in Task \ {t} : Formed(work'[u]) /\ Stored(work'[u], g)
  BY <1>2 DEF IInv, Stored
<1> QED
  BY <1>2, <1>4, <1>5

(* A task that leaves keeps the invariant, if the graph stays.             *)
LEMMA Leaving ==
    ASSUME IInv, NEW t \in Task, Leave(t), graph' = graph
    PROVE  IInv'
<1>1. /\ DOMAIN work' = Task /\ work'[t] = Idle
      /\ \A u \in Task \ {t} : work'[u] = work[u]
  BY DEF Leave, IInv
<1>2. Formed(Idle) /\ Stored(Idle, graph')
  BY DEF Formed, Stored, Idle, Fields
<1>3. \A u \in Task \ {t} : Formed(work'[u]) /\ Stored(work'[u], graph')
  BY <1>1 DEF IInv
<1> QED
  BY <1>1, <1>2, <1>3 DEF IInv

(* A step over one item, which may add to the graph and to what is kept.   *)
LEMMA Skipping ==
    ASSUME IInv, NEW t \in Task, Skip(t), graph \subseteq graph'
    PROVE  IInv'
<1>1. /\ DOMAIN work' = Task /\ work'[t] = [work[t] EXCEPT !.i = work[t].i + 1]
      /\ \A u \in Task \ {t} : work'[u] = work[u]
  BY DEF Skip, IInv
<1>2. /\ DOMAIN work'[t] = Fields /\ work'[t].node = work[t].node
      /\ work'[t].kept = work[t].kept /\ work'[t].items = work[t].items
  BY <1>1 DEF IInv, Formed, Fields
<1> QED
  BY <1>1, <1>2 DEF IInv, Formed, Stored

(* The invariant holds at the start.                                       *)
LEMMA InitIInv ==
    ASSUME Init
    PROVE  IInv
BY DEF Init, IInv, Formed, Stored, Idle, Fields

(* A step of the agent that stores nothing keeps the graph as it is.       *)
LEMMA ReadingStep ==
    ASSUME IInv, NEW t \in Task,
           Begin(t) \/ Recognise(t) \/ Classify(t) \/ NoAnswer(t) \/ Parse(t) \/ Enrich(t) \/ Pass(t)
              \/ Applied(t) \/ Publish(t) \/ PublishFails(t) \/ Published(t) \/ Report(t)
    PROVE  IInv' /\ graph' = graph
<1>1. graph' = graph
  BY DEF Begin, Recognise, Classify, NoAnswer, Parse, Enrich, Pass, Applied, Publish, PublishFails,
         Published, Report, Stay
<1>2. Formed(work[t]) /\ Stored(work[t], graph)
  BY DEF IInv
<1>3. CASE Begin(t)
  <2>1. PICK x \in DOMAIN Texts : GoOn(t, [Idle EXCEPT !.text = x])
    BY <1>3 DEF Begin
  <2> DEFINE new == [Idle EXCEPT !.text = x]
  <2>2. DOMAIN new = Fields /\ new.node = 0 /\ new.kept = {}
    BY DEF Idle, Fields
  <2>3. DOMAIN new = Fields /\ new.node \in 0 .. 12 /\ (new.kept # {} => new.node >= 10) /\ Stored(new, graph)
    BY <2>2 DEF Stored
  <2> HIDE DEF new
  <2> QED
    BY <1>1, <2>1, <2>3, GoingOn DEF new, IInv
<1>4. CASE Recognise(t) \/ Applied(t) \/ Published(t)
  <2>1. GoOn(t, work[t])
    BY <1>4 DEF Recognise, Applied, Published
  <2> QED
    BY <1>1, <1>2, <2>1, GoingOn DEF IInv, Formed
<1>5. CASE Classify(t)
  <2>1. PICK kinds : GoOn(t, [work[t] EXCEPT !.kinds = kinds])
    BY <1>5 DEF Classify
  <2> DEFINE new == [work[t] EXCEPT !.kinds = kinds]
  <2>2. DOMAIN new = Fields /\ new.node = work[t].node /\ new.kept = work[t].kept /\ new.items = work[t].items
    BY <1>2 DEF Formed, Fields
  <2>3. DOMAIN new = Fields /\ new.node \in 0 .. 12 /\ (new.kept # {} => new.node >= 10) /\ Stored(new, graph)
    BY <1>2, <2>2 DEF Formed, Stored
  <2> HIDE DEF new
  <2> QED
    BY <1>1, <2>1, <2>3, GoingOn DEF new, IInv
<1>6. CASE (Parse(t) \/ Enrich(t)) /\ ~Leave(t)
  <2>1. PICK items : GoOn(t, [work[t] EXCEPT !.items = items])
    BY <1>6 DEF Parse, Enrich
  <2>2. work[t].kept = {}
    BY <1>6, NodeNumbers DEF Parse, Enrich
  <2> DEFINE new == [work[t] EXCEPT !.items = items]
  <2>3. DOMAIN new = Fields /\ new.node = work[t].node /\ new.kept = {}
    BY <1>2, <2>2 DEF Formed, Fields
  <2>4. DOMAIN new = Fields /\ new.node \in 0 .. 12 /\ (new.kept # {} => new.node >= 10) /\ Stored(new, graph)
    BY <1>2, <2>3 DEF Formed, Stored
  <2> HIDE DEF new
  <2> QED
    BY <1>1, <2>1, <2>4, GoingOn DEF new, IInv
<1>7. CASE Leave(t)
  BY <1>1, <1>7, Leaving
<1>8. CASE NoAnswer(t) \/ PublishFails(t) \/ Report(t)
  BY <1>1, <1>8, Leaving DEF NoAnswer, PublishFails, Report
<1>9. CASE Pass(t) \/ Publish(t)
  BY <1>1, <1>9, Skipping DEF Pass, Publish
<1> QED
  BY <1>1, <1>3, <1>4, <1>5, <1>6, <1>7, <1>8, <1>9

(* Storing: the item that is kept is the one that the query merged.        *)
LEMMA StoringStep ==
    ASSUME IInv, NEW t \in Task, Store(t) \/ StoreFails(t)
    PROVE  IInv' /\ graph' \in {graph, graph \cup {Id(Item(t))}}
<1>1. graph' \in {graph, graph \cup {Id(Item(t))}}
  BY DEF Store, StoreFails, Merge
<1>2. CASE StoreFails(t)
  BY <1>1, <1>2, Skipping DEF StoreFails
<1>3. CASE Store(t)
  <2>1. /\ graph' = graph \cup {Id(Item(t))} /\ work[t].node = 10
        /\ work' = [work EXCEPT ![t].kept = work[t].kept \cup {work[t].i}, ![t].i = work[t].i + 1]
    BY <1>3, NodeNumbers DEF Store, Merge, Applying
  <2>2. /\ DOMAIN work' = Task /\ \A u \in Task \ {t} : work'[u] = work[u]
        /\ DOMAIN work'[t] = Fields /\ work'[t].node = 10 /\ work'[t].items = work[t].items
        /\ work'[t].kept = work[t].kept \cup {work[t].i}
    BY <2>1 DEF IInv, Formed, Fields
  <2>3. Formed(work'[t])
    BY <2>2 DEF Formed
  <2>4. Stored(work'[t], graph')
    BY <2>1, <2>2 DEF Stored, IInv, Item
  <2> QED
    BY <2>1, <2>2, <2>3, <2>4 DEF IInv, Stored
<1> QED
  BY <1>1, <1>2, <1>3

(* Every step keeps it.                                                    *)
LEMMA NextIInv ==
    ASSUME IInv, [Next]_vars
    PROVE  IInv'
<1>1. ASSUME NEW t \in Task, Begin(t) \/ Step(t) PROVE IInv'
  BY <1>1, ReadingStep, StoringStep DEF Step
<1>2. CASE Clean \/ BackOff \/ UNCHANGED vars
  BY <1>2 DEF Clean, BackOff, vars, IInv
<1>3. CASE Restart
  BY <1>3 DEF Restart, IInv, Formed, Stored, Idle, Fields
<1> QED
  BY <1>1, <1>2, <1>3 DEF Next

(* What is kept of an analysis stays in the graph as long as it runs.      *)
THEOREM KeptIsStored == Spec => []IInv
BY InitIInv, NextIInv, PTL DEF Spec

-----------------------------------------------------------------------------
(* Every step is one of the board or leaves the board as it is.            *)
LEMMA StepOnBoard ==
    ASSUME IInv, [Next]_vars
    PROVE  [B!Next]_<<graph, posted>>
<1> USE DEF B!Next, B!Learn, B!Post, B!Forget
<1>1. ASSUME NEW t \in Task, Store(t) \/ StoreFails(t) PROVE [B!Next]_<<graph, posted>>
  <2>1. graph' \in {graph, graph \cup {Id(Item(t))}} /\ posted' = posted
    BY <1>1, StoringStep DEF Store, StoreFails
  <2> QED
    BY <2>1
<1>2. ASSUME NEW t \in Task, Publish(t) \/ PublishFails(t) PROVE [B!Next]_<<graph, posted>>
  <2>1. graph' = graph /\ posted' \in {posted, posted \cup {Message(Item(t))}}
    BY <1>2 DEF Publish, PublishFails, Xadd
  <2>2. posted' # posted => Message(Item(t)).id \in graph
    BY <1>2 DEF Publish, PublishFails, ToPublish, Item, Message, IInv, Stored
  <2> QED
    BY <2>1, <2>2
<1>3. ASSUME NEW t \in Task, Begin(t) \/ Step(t), ~(Store(t) \/ StoreFails(t)), ~(Publish(t) \/ PublishFails(t))
      PROVE  [B!Next]_<<graph, posted>>
  <2>1. graph' = graph /\ posted' = posted
    BY <1>3 DEF Step, Begin, Recognise, Classify, NoAnswer, Parse, Enrich, Pass, Applied, Published, Report, Stay
  <2> QED
    BY <2>1
<1>4. CASE Clean \/ BackOff \/ Restart \/ UNCHANGED vars
  BY <1>4 DEF Clean, BackOff, Restart, vars
<1> QED
  BY <1>1, <1>2, <1>3, <1>4 DEF Next

(* Whoever reads of an incident finds it in the graph: it is stored before *)
(* it is published (agents_new.py 603), and only the start of the server   *)
(* takes incidents from the graph.                                         *)
THEOREM AgentImplementsBoard == Spec => OnBoard
<1>1. Init => B!Init
  BY DEF Init, B!Init
<1> QED
  BY <1>1, KeptIsStored, StepOnBoard, PTL DEF Spec, OnBoard, B!Spec

-----------------------------------------------------------------------------
(* Where a name is found, the place is made of strings and the city and    *)
(* the district of words.                                                  *)
LEMMA WordsInArea ==
    /\ Seoul \in Area /\ <<"unsorted">> \in Area
    /\ \A gu \in Seq(Words) : Append(gu, "gu") \in Seq(Words)
<1>1. \A S : \A a \in S, b \in S : <<a, b>> \in Seq(S) /\ <<a>> \in Seq(S)
  OBVIOUS
<1>2. \A S : \A a \in S, s \in Seq(S) : Append(s, a) \in Seq(S)
  OBVIOUS
<1> QED
  BY <1>1, <1>2, LookupAssumption DEF Seoul, Area

(* A row of the table gives a location.                                    *)
LEMMA RowLocated ==
    ASSUME NEW row \in [place : STRING, gu : Area, ok : BOOLEAN]
    PROVE  OfRow(row) \in Located
<1>1. Seoul \in Area
  BY WordsInArea
<1>2. Null \in Area
  BY DEF Area
<1> QED
  BY <1>1, <1>2 DEF OfRow, Located

(* So does the service, whatever it answers.                               *)
LEMMA KakaoLocated ==
    ASSUME NEW name \in Names
    PROVE  AskKakao(name) \subseteq Located
<1>1. Seoul \in Area /\ <<"unsorted">> \in Area
  BY WordsInArea
<1> QED
  BY <1>1, LookupAssumption DEF AskKakao, Located, Unsorted

(* To know nothing is a location too.                                      *)
LEMMA NothingLocated == Nothing \in Located
BY DEF Nothing, Located, Area

(* The first row of a name is a row and gives a location.                  *)
LEMMA FirstRow ==
    ASSUME NEW name \in Names, Table[name] # <<>>
    PROVE  /\ Head(Table[name]) \in [place : STRING, gu : Area, ok : BOOLEAN]
           /\ OfRow(Head(Table[name])) \in Located
<1> DEFINE Row == [place : STRING, gu : Area, ok : BOOLEAN]
<1>1. Table[name] \in Seq(Row)
  BY LookupAssumption
<1> HIDE DEF Row
<1>2. Head(Table[name]) \in Row
  BY <1>1
<1> QED
  BY <1>2, RowLocated DEF Row

(* Nothing lies between two stops of which one is unknown.                 *)
LEMMA NothingBetween ==
    ASSUME NEW start, NEW end, start = Null \/ end = Null
    PROVE  Between(start, end) = {}
BY DEF Between

(* Whatever the item names, resolving it gives a location.                 *)
LEMMA ResolveLocated ==
    ASSUME NEW item \in ItemOf
    PROVE  Resolve(item) \subseteq Located
<1>1. item.start \in {Null} \cup Names /\ item.end \in {Null} \cup Names
  BY DEF ItemOf
<1>2. ASSUME NEW x \in Located, NEW where \in SUBSET STRING
      PROVE  [x EXCEPT !.where = where] \in Located
  BY DEF Located
<1>3. Linear(item.road, item.start) \subseteq Located
  <2>1. CASE item.road \in Links /\ item.start \in Names /\ Table[item.start] # <<>>
    <3>1. {item.road} \in SUBSET STRING
      BY <2>1, LookupAssumption
    <3>2. [OfRow(Head(Table[item.start])) EXCEPT !.where = {item.road}] \in Located
      BY <1>2, <2>1, <3>1, FirstRow
    <3> QED
      BY <2>1, <3>2 DEF Linear
  <2> QED
    BY <1>1, <2>1, NothingLocated DEF Linear
<1>4. ASSUME item.start # Null PROVE Address(item.start) \subseteq Located
  <2> DEFINE rows == Table[item.start]
             where == IF \A i \in DOMAIN rows : rows[i].ok THEN {rows[i].place : i \in DOMAIN rows} ELSE {}
  <2>1. item.start \in Names
    BY <1>1, <1>4
  <2>2. CASE rows # <<>>
    <3> DEFINE Row == [place : STRING, gu : Area, ok : BOOLEAN]
    <3>1. rows \in Seq(Row)
      BY <2>1, LookupAssumption
    <3>2. \A i \in DOMAIN rows : rows[i] \in Row
      <4> HIDE DEF rows, Row
      <4> QED
        BY <3>1
    <3>3. where \in SUBSET STRING
      <4> HIDE DEF rows
      <4> QED
        BY <3>2
    <3>4. OfRow(Head(rows)) \in Located
      BY <2>1, <2>2, FirstRow
    <3>5. [OfRow(Head(rows)) EXCEPT !.where = where] \in Located
      <4> HIDE DEF where, rows
      <4> QED
        BY <1>2, <3>3, <3>4
    <3>6. Address(item.start) = {[OfRow(Head(rows)) EXCEPT !.where = where]}
      BY <1>4, <2>2 DEF Address
    <3> HIDE DEF where, rows
    <3> QED
      BY <3>5, <3>6
  <2>3. CASE rows = <<>>
    BY <1>4, <2>3, NothingLocated DEF Address
  <2> QED
    BY <2>2, <2>3
<1>5. ASSUME item.start # Null, item.end # Null PROVE Between(item.start, item.end) \subseteq Located
  <2> DEFINE a == Trim[item.start]
             b == Trim[item.end]
             Far == IF Table[b] = <<>> THEN AskKakao(b) ELSE {OfRow(Head(Table[b]))}
  <2>1. a \in Names /\ b \in Names
    BY <1>1, <1>5, LookupAssumption
  <2> HIDE DEF a, b
  <2>2. Far \subseteq Located
    BY <2>1, FirstRow, KakaoLocated
  <2>3. ASSUME NEW from \in AskKakao(a), NEW to \in Far
        PROVE  (IF from.where = {} THEN Nothing ELSE [to EXCEPT !.where = @ \cup from.where]) \in Located
    <3>1. from \in Located /\ to \in Located
      BY <2>1, <2>2, KakaoLocated
    <3>2. to.where \cup from.where \in SUBSET STRING
      BY <3>1 DEF Located
    <3> HIDE DEF Far
    <3> QED
      BY <1>2, <3>1, <3>2, NothingLocated
  <2>4. ASSUME Table[a] # <<>>, Table[b] # <<>>
        PROVE  [OfRow(Head(Table[a])) EXCEPT !.where = {Head(Table[a]).place, Head(Table[b]).place}] \in Located
    <3>1. {Head(Table[a]).place, Head(Table[b]).place} \in SUBSET STRING
      BY <2>1, <2>4, FirstRow
    <3> QED
      BY <1>2, <2>1, <2>4, <3>1, FirstRow
  <2>5. Between(item.start, item.end) =
          CASE Table[a] # <<>> /\ Table[b] = <<>> -> {OfRow(Head(Table[a]))}
            [] Table[a] # <<>> /\ Table[b] # <<>> ->
                 IF ~Head(Table[a]).ok \/ ~Head(Table[b]).ok THEN {}
                 ELSE {[OfRow(Head(Table[a])) EXCEPT !.where = {Head(Table[a]).place, Head(Table[b]).place}]}
            [] OTHER -> {IF from.where = {} THEN Nothing ELSE [to EXCEPT !.where = @ \cup from.where] :
                           from \in AskKakao(a), to \in Far}
    BY <1>5, SMTT(60) DEF Between, a, b
  <2> HIDE DEF Far
  <2>6. CASE Table[a] # <<>> /\ Table[b] = <<>>
    BY <2>1, <2>5, <2>6, FirstRow
  <2>7. CASE Table[a] # <<>> /\ Table[b] # <<>>
    <3>1. Between(item.start, item.end) \in
            {{}, {[OfRow(Head(Table[a])) EXCEPT !.where = {Head(Table[a]).place, Head(Table[b]).place}]}}
      BY <2>5, <2>7
    <3> QED
      BY <2>4, <2>7, <3>1
  <2>8. CASE Table[a] = <<>>
    <3>1. Between(item.start, item.end) =
            {IF from.where = {} THEN Nothing ELSE [to EXCEPT !.where = @ \cup from.where] :
               from \in AskKakao(a), to \in Far}
      BY <2>5, <2>8
    <3>2. ASSUME NEW x \in Between(item.start, item.end) PROVE x \in Located
      <4>1. PICK from \in AskKakao(a), to \in Far :
               x = IF from.where = {} THEN Nothing ELSE [to EXCEPT !.where = @ \cup from.where]
        BY <3>1
      <4> QED
        BY <2>3, <4>1
    <3> QED
      BY <3>2
  <2> QED
    BY <2>6, <2>7, <2>8
<1>6. Between(item.start, item.end) \subseteq Located
  BY <1>5, NothingBetween
<1>7. Address(item.start) \subseteq Located
  BY <1>4 DEF Address
<1> QED
  BY <1>3, <1>6, <1>7, NothingLocated DEF Resolve

(* What an item is after the search for its coordinates.                   *)
LEMMA OutcomesStraight ==
    ASSUME NEW item \in Straight
    PROVE  Outcomes(item) \subseteq Straight
<1>1. CASE item.lat # "null"
  BY <1>1 DEF Outcomes
<1>2. CASE item.lat = "null"
  <2> DEFINE lat(o) == IF o.where = {} THEN "null" ELSE "right"
             si(o)  == IF item.si = Null THEN o.si ELSE item.si
             gu(o)  == IF item.gu = Null THEN o.gu ELSE item.gu
             new(o) == [item EXCEPT !.lat = lat(o), !.where = o.where, !.si = si(o), !.gu = gu(o)]
  <2>1. ASSUME NEW o \in Located, NEW l \in {"null", "right"}, NEW s \in Area, NEW g \in Area
        PROVE  [item EXCEPT !.lat = l, !.where = o.where, !.si = s, !.gu = g] \in Straight
    BY DEF Straight, ItemOf, Located
  <2>2. ASSUME NEW o \in Resolve(item) PROVE new(o) \in Straight
    <3>1. o \in Located /\ item \in ItemOf
      BY ResolveLocated DEF Straight
    <3>2. lat(o) \in {"null", "right"} /\ si(o) \in Area /\ gu(o) \in Area
      BY <3>1 DEF Located, ItemOf
    <3> HIDE DEF lat, si, gu
    <3> QED
      BY <2>1, <3>1, <3>2
  <2>3. Outcomes(item) = {new(o) : o \in Resolve(item)}
    BY <1>2 DEF Outcomes
  <2> HIDE DEF new
  <2> QED
    BY <2>2, <2>3
<1> QED
  BY <1>1, <1>2

(* After a parser no item has its coordinates the wrong way round.         *)
LEMMA StraightenStraight ==
    ASSUME NEW items \in Seq(Straight), NEW new \in Seq(ItemOf)
    PROVE  Straighten(items, new) \in Seq(Straight)
<1> DEFINE all == items \o new
<1>1. all \in Seq(ItemOf)
  <2>1. items \in Seq(ItemOf)
    <3>1. Straight \subseteq ItemOf
      BY DEF Straight
    <3> HIDE DEF all
    <3> QED
      BY <3>1
  <2> HIDE DEF all
  <2> QED
    BY <2>1 DEF all
<1>2. Straighten(items, new) =
        [i \in DOMAIN all |-> IF all[i].lat = "swapped" THEN [all[i] EXCEPT !.lat = "right"] ELSE all[i]]
  BY DEF Straighten
<1> HIDE DEF all
<1>3. ASSUME NEW item \in ItemOf
      PROVE  (IF item.lat = "swapped" THEN [item EXCEPT !.lat = "right"] ELSE item) \in Straight
  BY DEF ItemOf, Straight
<1>4. ASSUME NEW i \in DOMAIN all PROVE all[i] \in ItemOf
  BY <1>1
<1>5. DOMAIN all = 1 .. Len(all) /\ Len(all) \in Nat
  BY <1>1
<1> QED
  BY <1>2, <1>3, <1>4, <1>5

-----------------------------------------------------------------------------
(* What an item's query finds, and where its message goes.                 *)
LEMMA OnLinePlatforms ==
    ASSUME NEW line, NEW k \in DOMAIN OnLine(line)
    PROVE  k <= k /\ line \in DOMAIN Track /\ OnLine(line) = Track[line]
<1>1. DOMAIN <<>> = {}
  OBVIOUS
<1>2. line \in DOMAIN Track /\ OnLine(line) = Track[line]
  BY <1>1 DEF OnLine
<1>3. Track[line] \in Seq(STRING)
  BY <1>2, NetworkAssumption
<1>4. DOMAIN Track[line] = 1 .. Len(Track[line]) /\ Len(Track[line]) \in Nat
  BY <1>3
<1> QED
  BY <1>2, <1>4

(* The platforms that a closure with named stations affects lie between    *)
(* platforms of these stations.                                            *)
LEMMA MatchedBetween ==
    ASSUME NEW item \in ItemOf, ~Unfit(item), item.type = "SUBWAY",
           ~(item.start = "" /\ item.end = ""), NEW p \in Matched(item)
    PROVE  /\ item.start # "" /\ item.end # ""
           /\ \E line \in DOMAIN Track :
                \E i, j, k \in DOMAIN Track[line] :
                    /\ i <= k /\ k <= j /\ Track[line][k] = p
                    /\ Track[line][i] \in Called[item.start] /\ Track[line][j] \in Called[item.end]
<1> DEFINE track == OnLine(item.road)
<1>1. item.start # "" /\ item.end # ""
  BY DEF Unfit
<1>2. CASE item.start = item.end
  <2>1. p \in ToSet(track) /\ p \in Called[item.start]
    BY <1>1, <1>2 DEF Matched
  <2>2. PICK k \in DOMAIN track : track[k] = p /\ p \in Called[item.start]
    BY <2>1 DEF ToSet
  <2>3. k <= k
    BY OnLinePlatforms
  <2>4. item.road \in DOMAIN Track /\ track = Track[item.road]
    BY <2>2, OnLinePlatforms
  <2> QED
    BY <1>1, <1>2, <2>2, <2>3, <2>4
<1>3. CASE item.start # item.end
  <2>1. Matched(item) = Stretch(item.road, item.start, item.end)
    BY <1>1, <1>3 DEF Matched
  <2>2. PICK k \in DOMAIN track : 
           /\ track[k] = p
           /\ \E i, j \in DOMAIN track : /\ track[i] \in Called[item.start] /\ track[j] \in Called[item.end]
                                         /\ i <= k /\ k <= j
    BY <2>1 DEF Stretch
  <2>3. item.road \in DOMAIN Track /\ track = Track[item.road]
    BY <2>2, OnLinePlatforms
  <2> QED
    BY <1>1, <2>2, <2>3
<1> QED
  BY <1>2, <1>3

(* What is merged for a fit item is in the scope of the item.              *)
LEMMA MergedInScope ==
    ASSUME NEW item \in ItemOf, ~Unfit(item), NEW p \in Matched(item)
    PROVE  InScope(<<p, Id(item)>>)
<1>1. CASE item.type = "SUBWAY"
  <2>1. Id(item) = <<item.since, "SUBWAY", <<item.name, item.start, item.end>>>>
    BY <1>1 DEF Id
  <2> DEFINE e == <<p, Id(item)>>
  <2>2. e[1] = p /\ e[2][3][2] = item.start /\ e[2][3][3] = item.end
    BY <2>1
  <2> HIDE DEF e
  <2>3. InScope(e)
    BY <1>1, <2>2, MatchedBetween DEF InScope
  <2> QED
    BY <2>3 DEF e
<1>2. CASE item.type # "SUBWAY"
  <2>1. Id(item)[2] # "SUBWAY"
    BY <1>2 DEF Id
  <2> QED
    BY <2>1 DEF InScope
<1> QED
  BY <1>1, <1>2

(* Appending to one element makes two.                                     *)
LEMMA AppendToOne ==
    ASSUME NEW a, NEW b
    PROVE  Append(<<a>>, b) = <<a, b>>
<1>1. <<a>> \in Seq({a, b})
  OBVIOUS
<1>2. /\ Append(<<a>>, b) \in Seq({a, b}) /\ Len(Append(<<a>>, b)) = 2
      /\ Append(<<a>>, b)[1] = a /\ Append(<<a>>, b)[2] = b
  BY <1>1
<1>3. <<a, b>> \in Seq({a, b}) /\ Len(<<a, b>>) = 2 /\ <<a, b>>[1] = a /\ <<a, b>>[2] = b
  OBVIOUS
<1>4. \A s, t \in Seq({a, b}) : Len(s) = 2 /\ Len(t) = 2 /\ s[1] = t[1] /\ s[2] = t[2] => s = t
  OBVIOUS
<1> QED
  BY <1>2, <1>3, <1>4

(* The stream of a message has the word for district, and is one that      *)
(* MAS02 watches if the item is in a district of Seoul.                    *)
LEMMA MessageStream ==
    ASSUME NEW item \in ItemOf, item.gu # Null
    PROVE  /\ Message(item).id = Id(item)
           /\ Last(Message(item).stream[2]) = "gu"
           /\ InDistrictOfSeoul(item) => Message(item).stream \in Watched
<1>1. item.gu \in Seq(Words) /\ "gu" \in Words
  BY LookupAssumption DEF ItemOf, Area
<1>2. /\ Message(item).id = Id(item)
      /\ Message(item).stream = <<City(item.si), District(item.gu)>>
  BY DEF Message
<1>3. Last(District(item.gu)) = "gu"
  <2>1. Append(item.gu, "gu")[Len(Append(item.gu, "gu"))] = "gu"
    BY <1>1
  <2> QED
    BY <2>1 DEF District, Last
<1>4. ASSUME InDistrictOfSeoul(item) PROVE Message(item).stream \in Watched
  <2>1. PICK d \in Districts : item.gu \in {<<d>>, <<d, "gu">>}
    BY <1>4 DEF InDistrictOfSeoul
  <2>2. d # "gu"
    BY NetworkAssumption
  <2>3. Last(<<d>>) = d /\ Last(<<d, "gu">>) = "gu"
    <3>1. Len(<<d>>) = 1 /\ Len(<<d, "gu">>) = 2
      OBVIOUS
    <3> QED
      BY <3>1 DEF Last
  <2>6. Append(<<d>>, "gu") = <<d, "gu">>
    BY AppendToOne
  <2>4. District(item.gu) = <<d, "gu">>
    BY <2>1, <2>2, <2>3, <2>6 DEF District
  <2>5. City(item.si) = Seoul
    BY <1>4 DEF InDistrictOfSeoul, City
  <2> QED
    BY <1>2, <2>4, <2>5 DEF Watched
<1> QED
  BY <1>2, <1>3, <1>4

-----------------------------------------------------------------------------
(* The order of the nodes: the parsers come before the node that stores,   *)
(* the node that publishes follows it, and no node is passed over but a    *)
(* parser without a place of its kind.                                     *)
LEMMA NodeOrder ==
    /\ Len(Nodes) = 12
    /\ \A n \in 1 .. 12 : /\ Nodes[n] \in Kinds => n < 10
                          /\ Nodes[n] \in {"ner", "preprocess", "classify", "enrich"} => n < 10
                          /\ Nodes[n] = "apply" <=> n = 10
                          /\ Nodes[n] = "publish" <=> n = 11
                          /\ Nodes[n] = "report" <=> n = 12
BY DEF Nodes, Kinds

(* What an analysis has lost of its items can be counted; before the node  *)
(* that stores them it has lost none.                                      *)
LEMMA LostFinite ==
    ASSUME NEW w, w.items \in Seq(Straight)
    PROVE  IsFiniteSet(Lost(w)) /\ Cardinality(Lost(w)) \in Nat
<1>1. Len(w.items) \in Nat /\ DOMAIN w.items = 1 .. Len(w.items)
  OBVIOUS
<1>2. IsFiniteSet(1 .. Len(w.items))
  BY <1>1, FS_Interval
<1>3. Lost(w) \subseteq 1 .. Len(w.items)
  BY <1>1 DEF Lost, Missed
<1>4. IsFiniteSet(Lost(w))
  BY <1>2, <1>3, FS_Subset
<1> QED
  BY <1>4, FS_CardinalityType

(* Nothing lost is within any number of failures.                          *)
LEMMA NoneLost ==
    ASSUME NEW w, Lost(w) = {}, NEW n \in Nat
    PROVE  Cardinality(Lost(w)) <= n
<1>1. Cardinality({}) = 0
  BY FS_EmptySet
<1> QED
  BY <1>1

(* What is true of an analysis before a step that concerns another one     *)
(* stays true: failures are counted and messages stay.                     *)
LEMMA OthersStay ==
    ASSUME TasksOK, NEW t \in Task, DOMAIN work' = Task,
           \A u \in Task \ {t} : work'[u] = work[u],
           faults \in Nat, faults' = faults \/ faults' = faults + 1, posted \subseteq posted',
           Shaped(work'[t]), Dealt(work[t])', Told(work[t])'
    PROVE  TasksOK'
<1>1. ASSUME NEW u \in Task \ {t}
      PROVE  Shaped(work'[u]) /\ Dealt(work[u])' /\ Told(work[u])'
  <2>1. Shaped(work[u]) /\ Dealt(work[u]) /\ Told(work[u]) /\ work'[u] = work[u]
    BY DEF TasksOK
  <2>2. /\ Lost(work[u])' = Lost(work[u]) /\ work[u].items \in Seq(Straight)
        /\ Dealt(work[u])' <=> Cardinality(Lost(work[u])') <= faults'
    BY <2>1 DEF Dealt, Lost, Missed, Past, Shaped
  <2>3. Cardinality(Lost(work[u])) \in Nat /\ Cardinality(Lost(work[u])) <= faults
    BY <2>1, <2>2, LostFinite DEF Dealt
  <2>4. Cardinality(Lost(work[u])) <= faults'
    BY <2>3
  <2> QED
    BY <2>1, <2>2, <2>4 DEF Told
<1> QED
  BY <1>1 DEF TasksOK, Shaped

(* A task that leaves its item, done or by a fault, keeps the invariant of *)
(* the tasks.                                                              *)
LEMMA LeavingOK ==
    ASSUME TasksOK, NEW t \in Task, Leave(t), faults \in Nat,
           faults' = faults \/ faults' = faults + 1, posted \subseteq posted'
    PROVE  TasksOK'
<1>1. /\ DOMAIN work' = Task /\ work'[t] = Idle
      /\ \A u \in Task \ {t} : work'[u] = work[u]
  BY DEF Leave, TasksOK
<1>2. Shaped(Idle)
  BY NodeOrder DEF Shaped, Idle, Fields
<1>3. Cardinality(Lost(Idle)) <= faults'
  <2>1. Lost(Idle) = {}
    BY DEF Lost, Missed, Idle
  <2>2. faults' \in Nat
    OBVIOUS
  <2> QED
    BY <2>1, <2>2, NoneLost
<1>4. Dealt(work[t])' /\ Told(work[t])'
  <2>1. Dealt(work[t])' <=> Cardinality(Lost(Idle)') <= faults'
    BY <1>1 DEF Dealt, Lost, Missed, Past
  <2>2. Lost(Idle)' = Lost(Idle)
    BY DEF Lost, Missed, Past
  <2>3. Told(work[t])'
    BY <1>1 DEF Told, Idle
  <2> QED
    BY <1>3, <2>1, <2>2, <2>3
<1> QED
  BY <1>1, <1>2, <1>4, OthersStay

(* On to the next node, with what the node before has found.               *)
LEMMA GoingOnOK ==
    ASSUME TasksOK, NEW t \in Task, NEW new, GoOn(t, new), faults \in Nat, UNCHANGED <<posted, faults>>,
           DOMAIN new = Fields, new.node \in 0 .. 12,
           new.text \in DOMAIN Texts, new.kinds \subseteq DOMAIN Texts[new.text],
           new.items \in Seq(Straight), new.kept \subseteq DOMAIN new.items,
           new.node < 10 => new.kept = {},
           new.node >= 10 => Cardinality(Missed(new)) <= faults,
           new.node >= 11 => \A i \in new.kept : new.items[i].gu # Null => Message(new.items[i]) \in posted
    PROVE  TasksOK'
<1>1. PICK n \in new.node + 1 .. 12 :
          /\ Nodes[n] \notin Kinds \ new.kinds
          /\ \A m \in new.node + 1 .. n - 1 : Nodes[m] \in Kinds \ new.kinds
          /\ work' = [work EXCEPT ![t] = [new EXCEPT !.node = n, !.i = 1]]
  BY NodeOrder DEF GoOn
<1>2. /\ DOMAIN work' = Task
      /\ work'[t] = [new EXCEPT !.node = n, !.i = 1]
      /\ \A u \in Task \ {t} : work'[u] = work[u]
  BY <1>1 DEF TasksOK
<1>3. /\ DOMAIN work'[t] = Fields /\ work'[t].node = n /\ work'[t].i = 1
      /\ work'[t].text = new.text /\ work'[t].kinds = new.kinds
      /\ work'[t].kept = new.kept /\ work'[t].items = new.items
  BY <1>2 DEF Fields
<1>4. n \in 1 .. 12 /\ (new.node < 10 => n <= 10) /\ (new.node = 10 => n = 11)
  <2>1. ASSUME new.node < 10, n > 10 PROVE FALSE
    <3>1. 10 \in new.node + 1 .. n - 1
      BY <1>1, <2>1
    <3> QED
      BY <1>1, <3>1, NodeOrder DEF Nodes, Kinds
  <2>2. ASSUME new.node = 10, n > 11 PROVE FALSE
    <3>1. 11 \in new.node + 1 .. n - 1
      BY <1>1, <2>2
    <3> QED
      BY <1>1, <3>1, NodeOrder DEF Nodes, Kinds
  <2>3. \A m \in 0 .. 12 : \A k \in m + 1 .. 12 :
           /\ k \in 1 .. 12
           /\ (m < 10 => ~(k > 10)) => (m < 10 => k <= 10)
           /\ (m = 10 => ~(k > 11)) => (m = 10 => k = 11)
    BY SMTT(60)
  <2> QED
    BY <1>1, <2>1, <2>2, <2>3
<1>5. Len(new.items) \in Nat /\ DOMAIN new.items = 1 .. Len(new.items)
  OBVIOUS
<1>6. Shaped(work'[t])
  <2>1. new.kinds \subseteq Kinds
    BY AnswersAssumption
  <2>2. 1 \in 1 .. Len(new.items) + 1
    BY <1>5
  <2>3. new.kept # {} => n >= 10
    BY <1>1, SMTT(60)
  <2>4. n > 0 /\ n \in 0 .. Len(Nodes)
    BY <1>4, NodeOrder
  <2> DEFINE w == work'[t]
  <2>5. DOMAIN w = Fields /\ w.node \in 0 .. Len(Nodes) /\ w.node > 0
    BY <1>3, <2>4
  <2>6. /\ w.text \in DOMAIN Texts /\ w.kinds \subseteq Kinds /\ w.kinds \subseteq DOMAIN Texts[w.text]
        /\ Nodes[w.node] \notin Kinds \ w.kinds
    BY <1>1, <1>3, <2>1
  <2>7. w.items \in Seq(Straight) /\ w.i \in 1 .. Len(w.items) + 1
    BY <1>3, <2>2
  <2>8. w.kept \subseteq DOMAIN w.items /\ (w.kept # {} => w.node >= 10)
    BY <1>3, <2>3
  <2> HIDE DEF w
  <2>9. Shaped(w)
    BY <2>5, <2>6, <2>7, <2>8 DEF Shaped
  <2> QED
    BY <2>9 DEF w
<1>7. Dealt(work[t])'
  <2> DEFINE w == work'[t]
  <2>1. ASSUME NEW i \in DOMAIN new.items, Past(w, 10, i)
        PROVE  new.node >= 10
    <3>1. n > 10 \/ (n = 10 /\ i < 1)
      BY <1>3, <2>1 DEF Past
    <3> QED
      BY <1>4, <1>5, <3>1
  <2>2. w.items = new.items /\ w.kept = new.kept /\ w.node = n
    BY <1>3
  <2> HIDE DEF w
  <2>3. Missed(w) = Missed(new) /\ Missed(w) \subseteq DOMAIN new.items
    BY <2>2 DEF Missed
  <2>4. CASE new.node < 10
    <3>1. Lost(w) = {}
      BY <2>1, <2>3, <2>4 DEF Lost
    <3> QED
      BY <3>1, NoneLost DEF Dealt, w
  <2>5. CASE ~(new.node < 10)
    <3>1. new.node >= 10 /\ n > 10
      BY <1>1, <2>5
    <3>2. Lost(w) = Missed(new)
      BY <2>2, <2>3, <3>1 DEF Lost, Past
    <3> QED
      BY <3>1, <3>2 DEF Dealt, w
  <2> QED
    BY <2>4, <2>5
<1>8. Told(work[t])'
  <2>1. ASSUME NEW i \in DOMAIN new.items, Past(work'[t], 11, i)
        PROVE  new.node >= 11
    <3>1. n > 11 \/ (n = 11 /\ i < 1)
      BY <1>3, <2>1 DEF Past
    <3> QED
      BY <1>4, <1>5, <3>1
  <2> QED
    BY <1>3, <2>1 DEF Told
<1> QED
  BY <1>2, <1>6, <1>7, <1>8, OthersStay

(* Over one item: it is dealt with in the node that stores, and told of in *)
(* the node that publishes.                                                *)
LEMMA StepOverOK ==
    ASSUME TasksOK, NEW t \in Task, NEW kept, DOMAIN work' = Task,
           \A u \in Task \ {t} : work'[u] = work[u],
           DOMAIN work'[t] = Fields, work'[t].node = work[t].node, work'[t].text = work[t].text,
           work'[t].kinds = work[t].kinds, work'[t].items = work[t].items,
           work'[t].i = work[t].i + 1, work'[t].kept = kept,
           faults \in Nat, faults' = faults \/ faults' = faults + 1, posted \subseteq posted',
           work[t].i <= Len(work[t].items), work[t].node \in {10, 11},
           kept = work[t].kept \/ (work[t].node = 10 /\ kept = work[t].kept \cup {work[t].i}),
           work[t].node = 10 => work[t].i \in kept \/ Unfit(Item(t)) \/ faults' = faults + 1,
           work[t].node = 11 /\ work[t].i \in kept /\ Item(t).gu # Null => Message(Item(t)) \in posted'
    PROVE  TasksOK'
<1> DEFINE w == work[t]
           i == work[t].i
<1>1. Shaped(w) /\ Dealt(w) /\ Told(w)
  BY DEF TasksOK
<1>2. /\ w.items \in Seq(Straight) /\ Len(w.items) \in Nat /\ DOMAIN w.items = 1 .. Len(w.items)
      /\ i \in 1 .. Len(w.items)
  BY <1>1 DEF Shaped
<1>3. Shaped(work'[t])
  <2>1. work[t].i + 1 \in 1 .. Len(w.items) + 1
    BY <1>2
  <2>2. kept \subseteq DOMAIN w.items
    BY <1>1, <1>2 DEF Shaped
  <2> QED
    BY <1>1, <1>2, <2>1, <2>2 DEF Shaped
<1>4. \A j \in DOMAIN w.items : j < i + 1 => j < i \/ j = i
  BY <1>2
<1>5. Dealt(work[t])'
  <2> DEFINE v == work'[t]
  <2>1. /\ v.items = w.items /\ v.kept = kept /\ v.node = w.node /\ v.i = i + 1
        /\ w.kept \subseteq kept
    OBVIOUS
  <2> HIDE DEF v
  <2>2. Missed(v) \subseteq Missed(w) /\ Missed(v) \subseteq DOMAIN w.items
    BY <2>1 DEF Missed
  <2>3. ASSUME NEW j \in Lost(v)
        PROVE  j \in Lost(w) \/ (w.node = 10 /\ j = i /\ faults' = faults + 1)
    <3>1. j \in Missed(v) /\ j \in Missed(w) /\ j \in DOMAIN w.items
      BY <2>2, <2>3 DEF Lost
    <3>2. Past(w, 10, j) \/ (w.node = 10 /\ j = i)
      BY <1>4, <2>1, <2>3, <3>1 DEF Past, Lost
    <3>3. ASSUME w.node = 10, j = i PROVE faults' = faults + 1
      <4>1. j \notin kept /\ ~Unfit(w.items[j])
        BY <2>1, <3>1 DEF Missed
      <4> QED
        BY <3>3, <4>1 DEF Item
    <3> QED
      BY <3>1, <3>2, <3>3 DEF Lost
  <2>4. /\ IsFiniteSet(Lost(w)) /\ Cardinality(Lost(w)) \in Nat /\ Cardinality(Lost(w)) <= faults
        /\ IsFiniteSet(Lost(v)) /\ Cardinality(Lost(v)) \in Nat
    BY <1>1, <1>2, <2>1, LostFinite DEF Dealt
  <2>5. CASE Lost(v) \subseteq Lost(w)
    <3>1. Cardinality(Lost(v)) <= Cardinality(Lost(w))
      BY <2>4, <2>5, FS_Subset
    <3> QED
      BY <2>4, <3>1 DEF Dealt, v
  <2>6. CASE ~(Lost(v) \subseteq Lost(w))
    <3> DEFINE more == Lost(w) \cup {i}
    <3>1. faults' = faults + 1 /\ Lost(v) \subseteq more
      BY <2>3, <2>6
    <3>2. /\ IsFiniteSet(more)
          /\ Cardinality(more) = Cardinality(Lost(w)) \/ Cardinality(more) = Cardinality(Lost(w)) + 1
      BY <2>4, FS_AddElement
    <3> HIDE DEF more
    <3>3. Cardinality(Lost(v)) <= Cardinality(more)
      BY <3>1, <3>2, FS_Subset
    <3>4. Cardinality(Lost(v)) <= faults'
      BY <2>4, <3>1, <3>2, <3>3
    <3> QED
      BY <3>4 DEF Dealt, v
  <2> QED
    BY <2>5, <2>6
<1>6. Told(work[t])'
  <2>1. ASSUME NEW j \in kept, Past(work'[t], 11, j), w.items[j].gu # Null
        PROVE  Message(w.items[j]) \in posted'
    <3>1. w.node = 11 /\ kept = w.kept /\ j \in DOMAIN w.items
      BY <1>1, <2>1 DEF Past, Shaped
    <3>2. Past(w, 11, j) \/ j = i
      BY <1>4, <2>1, <3>1 DEF Past
    <3>3. CASE Past(w, 11, j)
      BY <1>1, <2>1, <3>1, <3>3 DEF Told
    <3>4. CASE j = i
      BY <2>1, <3>1, <3>4 DEF Item
    <3> QED
      BY <3>2, <3>3, <3>4
  <2> QED
    BY <2>1 DEF Told
<1> QED
  BY <1>3, <1>5, <1>6, OthersStay

(* So does one that goes on to its next item.                              *)
LEMMA SkippingOK ==
    ASSUME TasksOK, NEW t \in Task, Skip(t), Applying(t) \/ Publishing(t),
           faults \in Nat, faults' = faults \/ faults' = faults + 1, posted \subseteq posted',
           Applying(t) => Unfit(Item(t)) \/ faults' = faults + 1,
           Publishing(t) /\ ToPublish(t) => Message(Item(t)) \in posted'
    PROVE  TasksOK'
<1>1. Shaped(work[t])
  BY DEF TasksOK
<1>2. /\ work[t].node \in {10, 11} /\ work[t].i <= Len(work[t].items)
      /\ work[t].node = 10 => Applying(t)
      /\ work[t].node = 11 => Publishing(t)
  <2>1. work[t].node \in 0 .. 12
    BY <1>1, NodeOrder DEF Shaped
  <2> QED
    BY <2>1, NodeOrder DEF Applying, Publishing, At
<1>3. /\ DOMAIN work' = Task /\ work'[t] = [work[t] EXCEPT !.i = work[t].i + 1]
      /\ \A u \in Task \ {t} : work'[u] = work[u]
  BY DEF Skip, TasksOK
<1>4. /\ DOMAIN work'[t] = Fields /\ work'[t].node = work[t].node /\ work'[t].text = work[t].text
      /\ work'[t].kinds = work[t].kinds /\ work'[t].items = work[t].items
      /\ work'[t].i = work[t].i + 1 /\ work'[t].kept = work[t].kept
  BY <1>1, <1>3 DEF Shaped, Fields
<1> QED
  BY <1>2, <1>3, <1>4, StepOverOK DEF ToPublish

(* So does one that stores what it found.                                  *)
LEMMA StoreOK ==
    ASSUME TasksOK, NEW t \in Task, Store(t), faults \in Nat
    PROVE  TasksOK'
<1>1. Shaped(work[t])
  BY DEF TasksOK
<1>2. work[t].node = 10 /\ work[t].i <= Len(work[t].items)
  <2>1. work[t].node \in 0 .. 12
    BY <1>1, NodeOrder DEF Shaped
  <2> QED
    BY <2>1, NodeOrder DEF Store, Applying, At
<1> DEFINE kept == work[t].kept \cup {work[t].i}
<1>3. /\ DOMAIN work' = Task
      /\ work'[t] = [work[t] EXCEPT !.kept = kept, !.i = work[t].i + 1]
      /\ \A u \in Task \ {t} : work'[u] = work[u]
      /\ faults' = faults /\ posted' = posted
  BY DEF Store, TasksOK
<1> HIDE DEF kept
<1>4. /\ DOMAIN work'[t] = Fields /\ work'[t].node = work[t].node /\ work'[t].text = work[t].text
      /\ work'[t].kinds = work[t].kinds /\ work'[t].items = work[t].items
      /\ work'[t].i = work[t].i + 1 /\ work'[t].kept = kept
  BY <1>1, <1>3 DEF Shaped, Fields
<1>5. /\ kept = work[t].kept \/ (work[t].node = 10 /\ kept = work[t].kept \cup {work[t].i})
      /\ work[t].i \in kept /\ work[t].node \in {10, 11} /\ work[t].node # 11
  BY <1>2 DEF kept
<1>6. posted \subseteq posted' /\ (faults' = faults \/ faults' = faults + 1)
  BY <1>3
<1> QED
  BY <1>2, <1>3, <1>4, <1>5, <1>6, StepOverOK

-----------------------------------------------------------------------------
(* The steps of the agent before it stores anything.                       *)
LEMMA ReadingOK ==
    ASSUME AgentInv, NEW t \in Task,
           Begin(t) \/ Recognise(t) \/ Classify(t) \/ Parse(t) \/ Enrich(t)
    PROVE  TasksOK'
<1>1. Shaped(work[t]) /\ faults \in Nat /\ TasksOK
  BY BoundsAssumption DEF AgentInv, TasksOK, TypeOK
<1>2. faults' = faults /\ posted' = posted
  BY DEF Begin, Recognise, Classify, Parse, Enrich, Stay
<1>3. CASE Begin(t)
  <2>1. PICK x \in DOMAIN Texts : GoOn(t, [Idle EXCEPT !.text = x])
    BY <1>3 DEF Begin
  <2> DEFINE new == [Idle EXCEPT !.text = x]
  <2>2. /\ DOMAIN new = Fields /\ new.node = 0 /\ new.text = x /\ new.kinds = {}
        /\ new.items = <<>> /\ new.kept = {}
    BY DEF Idle, Fields
  <2>3. <<>> \in Seq(Straight)
    OBVIOUS
  <2>4. GoOn(t, new)
    BY <2>1
  <2> HIDE DEF new
  <2>5. new.node \in 0 .. 12 /\ new.node < 10 /\ ~(new.node >= 10) /\ ~(new.node >= 11)
    BY <2>2
  <2>6. new.text \in DOMAIN Texts /\ new.kinds \subseteq DOMAIN Texts[new.text]
    BY <2>2
  <2>7. new.items \in Seq(Straight) /\ new.kept \subseteq DOMAIN new.items /\ new.kept = {}
    BY <2>2, <2>3
  <2> QED
    BY <1>1, <1>2, <2>2, <2>4, <2>5, <2>6, <2>7, GoingOnOK
<1>4. work[t].node \in 0 .. 12
  BY <1>1, NodeOrder DEF Shaped
<1>5. ASSUME ~Begin(t)
      PROVE  /\ work[t].node < 10 /\ work[t].kept = {} /\ work[t].node > 0
             /\ work[t].text \in DOMAIN Texts /\ work[t].kinds \subseteq DOMAIN Texts[work[t].text]
  <2>1. \E name \in {"ner", "preprocess", "classify", "enrich"} \cup Kinds : At(t, name)
    BY <1>5 DEF Recognise, Classify, Parse, Enrich
  <2>2. work[t].node < 10 /\ work[t].node > 0
    BY <1>4, <2>1, NodeOrder DEF At
  <2> QED
    BY <1>1, <1>4, <2>2 DEF Shaped
<1>6. CASE Recognise(t) /\ ~Begin(t)
  <2>1. GoOn(t, work[t])
    BY <1>6 DEF Recognise
  <2>2. /\ DOMAIN work[t] = Fields /\ work[t].items \in Seq(Straight)
        /\ work[t].kept \subseteq DOMAIN work[t].items
    BY <1>1 DEF Shaped
  <2>3. work[t].node < 10 /\ ~(work[t].node >= 10) /\ ~(work[t].node >= 11)
    BY <1>4, <1>5, <1>6
  <2> QED
    BY <1>1, <1>2, <1>4, <1>5, <1>6, <2>1, <2>2, <2>3, GoingOnOK, SMTT(60)
<1>7. CASE Classify(t) /\ ~Begin(t)
  <2>1. PICK kinds \in {DOMAIN Texts[work[t].text], {}} : GoOn(t, [work[t] EXCEPT !.kinds = kinds])
    BY <1>7 DEF Classify
  <2> DEFINE new == [work[t] EXCEPT !.kinds = kinds]
  <2>2. /\ DOMAIN new = Fields /\ new.node = work[t].node /\ new.text = work[t].text
        /\ new.kinds = kinds /\ new.items = work[t].items /\ new.kept = work[t].kept
    BY <1>1 DEF Shaped, Fields
  <2>3. kinds \subseteq DOMAIN Texts[work[t].text] /\ GoOn(t, new)
    BY <2>1
  <2>4. work[t].items \in Seq(Straight)
    BY <1>1 DEF Shaped
  <2> HIDE DEF new
  <2> QED
    BY <1>1, <1>2, <1>4, <1>5, <1>7, <2>2, <2>3, <2>4, GoingOnOK, SMTT(60)
<1>8. CASE Leave(t)
  BY <1>1, <1>2, <1>8, LeavingOK
<1>9. ASSUME NEW items \in Seq(Straight), GoOn(t, [work[t] EXCEPT !.items = items]), ~Begin(t)
      PROVE  TasksOK'
  <2> DEFINE new == [work[t] EXCEPT !.items = items]
  <2>2. /\ DOMAIN new = Fields /\ new.node = work[t].node /\ new.text = work[t].text
        /\ new.kinds = work[t].kinds /\ new.items = items /\ new.kept = work[t].kept
    BY <1>1 DEF Shaped, Fields
  <2>3. GoOn(t, new)
    BY <1>9
  <2> HIDE DEF new
  <2> QED
    BY <1>1, <1>2, <1>4, <1>5, <1>9, <2>2, <2>3, GoingOnOK, SMTT(60)
<1>10. CASE Parse(t) /\ ~Begin(t) /\ ~Leave(t)
  <2>1. PICK k \in Kinds : At(t, k) /\ \E new \in Texts[work[t].text][k] \cup {<<>>} :
                              GoOn(t, [work[t] EXCEPT !.items = Straighten(work[t].items, new)])
    BY <1>10 DEF Parse
  <2>2. PICK new \in Texts[work[t].text][k] \cup {<<>>} :
                GoOn(t, [work[t] EXCEPT !.items = Straighten(work[t].items, new)])
    BY <2>1
  <2>3. k \in DOMAIN Texts[work[t].text]
    BY <1>1, <1>5, <1>10, <2>1 DEF Shaped, At
  <2>4. new \in Seq(ItemOf)
    <3>1. Texts[work[t].text][k] \subseteq Seq(ItemOf)
      BY <1>5, <1>10, <2>3, AnswersAssumption
    <3>2. <<>> \in Seq(ItemOf)
      OBVIOUS
    <3> QED
      BY <3>1, <3>2
  <2>5. Straighten(work[t].items, new) \in Seq(Straight)
    BY <1>1, <2>4, StraightenStraight DEF Shaped
  <2> QED
    BY <1>9, <1>10, <2>2, <2>5
<1>11. CASE Enrich(t) /\ ~Begin(t) /\ ~Leave(t)
  <2> DEFINE items == work[t].items
  <2>1. PICK new : /\ DOMAIN new = DOMAIN items
                   /\ new \in [DOMAIN items -> UNION {Outcomes(items[i]) : i \in DOMAIN items}]
                   /\ \A i \in DOMAIN items : new[i] \in Outcomes(items[i])
                   /\ GoOn(t, [work[t] EXCEPT !.items = new])
    BY <1>11 DEF Enrich
  <2>2. items \in Seq(Straight)
    BY <1>1 DEF Shaped
  <2> HIDE DEF items
  <2>3. \A i \in DOMAIN items : items[i] \in Straight
    BY <2>2
  <2>4. \A i \in DOMAIN items : new[i] \in Straight
    BY <2>1, <2>3, OutcomesStraight
  <2>5. new \in [1 .. Len(items) -> Straight] /\ Len(items) \in Nat
    BY <2>1, <2>2, <2>4
  <2>6. new \in Seq(Straight)
    BY <2>5
  <2> QED
    BY <1>9, <1>11, <2>1, <2>6
<1> QED
  BY <1>3, <1>6, <1>7, <1>8, <1>10, <1>11

(* The steps of the nodes that store and publish, and those that end an    *)
(* analysis.                                                               *)
LEMMA WritingOK ==
    ASSUME AgentInv, NEW t \in Task,
           NoAnswer(t) \/ Pass(t) \/ Store(t) \/ StoreFails(t) \/ Applied(t) \/ Publish(t)
              \/ PublishFails(t) \/ Published(t) \/ Report(t)
    PROVE  TasksOK'
<1>1. Shaped(work[t]) /\ Dealt(work[t]) /\ Told(work[t]) /\ faults \in Nat /\ TasksOK
  BY BoundsAssumption DEF AgentInv, TasksOK, TypeOK
<1>2. /\ work[t].node \in 0 .. 12 /\ work[t].i \in Nat
      /\ Len(work[t].items) \in Nat /\ DOMAIN work[t].items = 1 .. Len(work[t].items)
  BY <1>1, NodeOrder, SMTT(60) DEF Shaped
<1>3. CASE NoAnswer(t) \/ PublishFails(t) \/ Report(t)
  <2>1. Leave(t) /\ (faults' = faults \/ faults' = faults + 1) /\ posted \subseteq posted'
    BY <1>3 DEF NoAnswer, PublishFails, Report, Fault, Stay, Xadd
  <2> QED
    BY <1>1, <2>1, LeavingOK
<1>4. ASSUME At(t, "apply") PROVE work[t].node = 10 /\ ~Publishing(t)
  BY <1>2, <1>4, NodeOrder, SMTT(60) DEF At, Publishing
<1>5. ASSUME At(t, "publish") PROVE work[t].node = 11 /\ ~Applying(t)
  BY <1>2, <1>5, NodeOrder, SMTT(60) DEF At, Applying
<1>6. CASE Pass(t) \/ StoreFails(t)
  <2>1. /\ Applying(t) /\ Skip(t) /\ (faults' = faults \/ faults' = faults + 1)
        /\ posted' = posted /\ (Unfit(Item(t)) \/ faults' = faults + 1)
    BY <1>1, <1>6 DEF Pass, StoreFails, Fault, Stay
  <2> QED
    BY <1>1, <1>4, <2>1, SkippingOK DEF Applying
<1>7. CASE Store(t)
  BY <1>1, <1>7, StoreOK
<1>8. CASE Publish(t)
  <2>1. /\ Publishing(t) /\ Skip(t) /\ faults' = faults /\ posted \subseteq posted'
        /\ ToPublish(t) => Message(Item(t)) \in posted'
    BY <1>8 DEF Publish, Xadd
  <2> QED
    BY <1>1, <1>5, <2>1, SkippingOK DEF Publishing
<1>9. CASE Applied(t) \/ Published(t)
  <2>1. GoOn(t, work[t]) /\ UNCHANGED <<posted, faults>>
    BY <1>9 DEF Applied, Published, Stay
  <2>2. work[t].node >= 10
    BY <1>4, <1>5, <1>9 DEF Applied, Published
  <2>3. Cardinality(Missed(work[t])) <= faults
    <3>1. \A i \in DOMAIN work[t].items : Past(work[t], 10, i)
      <4>1. CASE Applied(t)
        BY <1>2, <1>4, <4>1 DEF Applied, Applying, Past
      <4>2. CASE Published(t)
        BY <1>5, <4>2 DEF Published, Past
      <4> QED
        BY <1>9, <4>1, <4>2
    <3>2. Lost(work[t]) = Missed(work[t])
      BY <3>1 DEF Lost, Missed
    <3> QED
      BY <1>1, <3>2 DEF Dealt
  <2>4. work[t].node >= 11 =>
           \A i \in work[t].kept : work[t].items[i].gu # Null => Message(work[t].items[i]) \in posted
    <3>1. CASE Applied(t)
      BY <1>4, <3>1 DEF Applied
    <3>2. CASE Published(t)
      <4>1. \A i \in work[t].kept : Past(work[t], 11, i)
        BY <1>1, <1>2, <1>5, <3>2, SMTT(60) DEF Published, Publishing, Past, Shaped
      <4> QED
        BY <1>1, <4>1 DEF Told
    <3> QED
      BY <1>9, <3>1, <3>2
  <2>5. /\ DOMAIN work[t] = Fields /\ work[t].text \in DOMAIN Texts
        /\ work[t].kinds \subseteq DOMAIN Texts[work[t].text]
        /\ work[t].items \in Seq(Straight) /\ work[t].kept \subseteq DOMAIN work[t].items
    BY <1>1, <1>2, <2>2 DEF Shaped
  <2>6. ~(work[t].node < 10)
    BY <1>2, <2>2
  <2> QED
    BY <1>1, <1>2, <2>1, <2>3, <2>4, <2>5, <2>6, GoingOnOK
<1> QED
  BY <1>3, <1>6, <1>7, <1>8, <1>9

(* Every step keeps the invariant of the tasks.                            *)
LEMMA TasksStep ==
    ASSUME AgentInv, [Next]_vars
    PROVE  TasksOK'
<1>1. ASSUME NEW t \in Task, Begin(t) \/ Step(t) PROVE TasksOK'
  BY <1>1, ReadingOK, WritingOK DEF Step
<1>2. CASE Clean \/ BackOff \/ UNCHANGED vars
  <2>1. work' = work /\ faults' = faults /\ posted' = posted
    BY <1>2 DEF Clean, BackOff, vars
  <2> QED
    BY <2>1 DEF AgentInv, TasksOK, Shaped, Dealt, Told, Lost, Missed, Past
<1>3. CASE Restart
  <2>1. work' = [t \in Task |-> Idle]
    BY <1>3 DEF Restart
  <2>2. Shaped(Idle)
    BY NodeOrder DEF Shaped, Idle, Fields
  <2>3. Lost(Idle) = {} /\ faults' \in Nat
    BY <1>3, BoundsAssumption DEF Restart, AgentInv, TypeOK, Lost, Missed, Idle
  <2>4. \A t \in Task : Dealt(work[t])' /\ Told(work[t])'
    BY <2>1, <2>3, NoneLost DEF Dealt, Told, Idle
  <2> QED
    BY <2>1, <2>2, <2>4 DEF TasksOK
<1> QED
  BY <1>1, <1>2, <1>3 DEF Next

-----------------------------------------------------------------------------
(* The items of an analysis are what the model answers.                    *)
LEMMA ItemInHand ==
    ASSUME AgentInv, NEW t \in Task, Applying(t) \/ Publishing(t)
    PROVE  Item(t) \in ItemOf
<1>1. work[t].items \in Seq(Straight) /\ work[t].i \in 1 .. Len(work[t].items)
  BY DEF AgentInv, TasksOK, Shaped, Applying, Publishing
<1>2. work[t].items[work[t].i] \in Straight
  BY <1>1
<1> QED
  BY <1>2 DEF Item, Straight

(* The edges of the graph lead to incidents of the graph, in the scope of  *)
(* their closure.                                                          *)
LEMMA EdgesStep ==
    ASSUME AgentInv, [Next]_vars
    PROVE  (\A e \in edges' : e[2] \in graph') /\ ClosureScope'
<1>1. \A e \in edges : e[2] \in graph /\ InScope(e)
  BY DEF AgentInv, TypeOK, ClosureScope
<1>2. SUFFICES \A e \in edges' : e[2] \in graph' /\ InScope(e)
  BY DEF ClosureScope
<1>3. ASSUME NEW t \in Task, Applying(t), ~Unfit(Item(t)), Merge(Item(t))
      PROVE  \A e \in edges' : e[2] \in graph' /\ InScope(e)
  <2>1. \A p \in Matched(Item(t)) : InScope(<<p, Id(Item(t))>>)
    BY <1>3, ItemInHand, MergedInScope
  <2> QED
    BY <1>1, <1>3, <2>1 DEF Merge
<1>4. CASE edges' = edges /\ graph' = graph
  BY <1>1, <1>4
<1>5. CASE edges' = {}
  BY <1>5
<1>6. \/ \E t \in Task : Applying(t) /\ ~Unfit(Item(t)) /\ Merge(Item(t))
      \/ edges' = edges /\ graph' = graph
      \/ edges' = {}
  BY ZenonT(60) DEF Next, Step, Begin, Recognise, Classify, NoAnswer, Parse, Enrich, Pass, Store, StoreFails,
         Applied, Publish, PublishFails, Published, Report, Clean, BackOff, Restart, Stay, vars
<1> QED
  BY <1>3, <1>4, <1>5, <1>6

(* Every message is on the stream of a district.                           *)
LEMMA PostedStep ==
    ASSUME AgentInv, [Next]_vars
    PROVE  \A m \in posted' : Last(m.stream[2]) = "gu"
<1>1. \A m \in posted : Last(m.stream[2]) = "gu"
  BY DEF AgentInv, TypeOK
<1>2. ASSUME NEW t \in Task, Publishing(t), ToPublish(t)
      PROVE  Last(Message(Item(t)).stream[2]) = "gu"
  BY <1>2, ItemInHand, MessageStream DEF ToPublish
<1>3. \/ posted' = posted
      \/ \E t \in Task : Publishing(t) /\ ToPublish(t) /\ posted' = posted \cup {Message(Item(t))}
  BY DEF Next, Step, Begin, Recognise, Classify, NoAnswer, Parse, Enrich, Pass, Store, StoreFails,
         Applied, Publish, PublishFails, Published, Report, Clean, BackOff, Restart, Stay, Xadd, vars
<1> QED
  BY <1>1, <1>2, <1>3

(* Every step keeps the counters in their bounds.                          *)
LEMMA CountersStep ==
    ASSUME AgentInv, [Next]_vars
    PROVE  /\ cleaner' \in {"asleep", "backoff"} /\ begun' \in 0 .. MaxAnalyses
           /\ faults' \in 0 .. MaxFaults /\ restarts' \in 0 .. MaxRestarts
<1>1. /\ cleaner \in {"asleep", "backoff"} /\ begun \in 0 .. MaxAnalyses
      /\ faults \in 0 .. MaxFaults /\ restarts \in 0 .. MaxRestarts
  BY DEF AgentInv, TypeOK
<1>2. cleaner' \in {cleaner, "asleep", "backoff"}
  BY ZenonT(60) DEF Next, Step, Begin, Recognise, Classify, NoAnswer, Parse, Enrich, Pass, Store, StoreFails,
         Applied, Publish, PublishFails, Published, Report, Clean, BackOff, Restart, Stay, vars
<1>3. begun' = begun \/ (begun < MaxAnalyses /\ begun' = begun + 1)
  BY ZenonT(60) DEF Next, Step, Begin, Recognise, Classify, NoAnswer, Parse, Enrich, Pass, Store, StoreFails,
         Applied, Publish, PublishFails, Published, Report, Clean, BackOff, Restart, Stay, vars
<1>4. faults' = faults \/ (faults < MaxFaults /\ faults' = faults + 1)
  BY ZenonT(60) DEF Next, Step, Begin, Recognise, Classify, NoAnswer, Parse, Enrich, Pass, Store, StoreFails,
         Applied, Publish, PublishFails, Published, Report, Clean, BackOff, Restart, Fault, vars
<1>5. restarts' = restarts \/ (restarts < MaxRestarts /\ restarts' = restarts + 1)
  BY ZenonT(60) DEF Next, Step, Begin, Recognise, Classify, NoAnswer, Parse, Enrich, Pass, Store, StoreFails,
         Applied, Publish, PublishFails, Published, Report, Clean, BackOff, Restart, Stay, vars
<1> QED
  BY <1>1, <1>2, <1>3, <1>4, <1>5, BoundsAssumption

(* The inductive invariant: every analysis has the shape of its node, and  *)
(* has dealt with and told of the items before its counter.                *)
THEOREM AgentInvariant == Spec => []AgentInv
<1>1. Init => AgentInv
  <2> SUFFICES ASSUME Init PROVE AgentInv
    OBVIOUS
  <2>1. Shaped(Idle)
    BY NodeOrder DEF Shaped, Idle, Fields
  <2>2. TasksOK
    <3>1. Lost(Idle) = {} /\ faults \in Nat
      BY DEF Init, Lost, Missed, Idle
    <3>2. \A t \in Task : work[t] = Idle
      BY DEF Init
    <3> QED
      BY <2>1, <3>1, <3>2, NoneLost DEF Init, TasksOK, Dealt, Told, Idle
  <2>3. TypeOK
    BY BoundsAssumption, NodeOrder DEF Init, TypeOK, Idle
  <2> QED
    BY <2>2, <2>3 DEF Init, AgentInv, ClosureScope
<1>2. ASSUME AgentInv, [Next]_vars PROVE AgentInv'
  <2>1. TasksOK'
    BY <1>2, TasksStep
  <2>2. TypeOK'
    BY <1>2, <2>1, CountersStep, EdgesStep, PostedStep DEF TypeOK, TasksOK, Shaped
  <2> QED
    BY <1>2, <2>1, <2>2, EdgesStep DEF AgentInv
<1> QED
  BY <1>1, <1>2, PTL DEF Spec

(* The state of the agent has the types its declarations say, always.      *)
THEOREM TypeCorrect == Spec => []TypeOK
BY AgentInvariant, PTL DEF AgentInv

(* A closure of a line with named stations affects only what lies between  *)
(* them, for every network and every answer of the model.                  *)
THEOREM ClosureInScope == Spec => []ClosureScope
BY AgentInvariant, PTL DEF AgentInv

(* Of the items that are fit an analysis misses no more than queries       *)
(* raised, for any number of items and of failures: neither an unfit item  *)
(* nor a query that raises costs another item its place.                   *)
THEOREM NoItemLost == Spec => []EachOnItsOwn
<1>1. AgentInv => EachOnItsOwn
  <2> SUFFICES ASSUME AgentInv, NEW t \in Task, At(t, "publish")
               PROVE  Cardinality(Missed(work[t])) <= faults
    BY DEF EachOnItsOwn
  <2>1. Shaped(work[t]) /\ Dealt(work[t])
    BY DEF AgentInv, TasksOK
  <2>2. work[t].node = 11
    BY <2>1, NodeOrder DEF At, Shaped
  <2>3. Lost(work[t]) = Missed(work[t])
    BY <2>2 DEF Lost, Missed, Past
  <2> QED
    BY <2>1, <2>3 DEF Dealt
<1> QED
  BY <1>1, AgentInvariant, PTL

(* No incident is stored with its latitude and longitude swapped, whatever *)
(* the language model answers.                                             *)
THEOREM NothingSwapped == Spec => []Upright
<1>1. AgentInv => Upright
  <2> SUFFICES ASSUME AgentInv, NEW t \in Task, NEW i \in work[t].kept
               PROVE  work[t].items[i].lat # "swapped"
    BY DEF Upright
  <2>1. work[t].items \in Seq(Straight) /\ i \in DOMAIN work[t].items
    BY DEF AgentInv, TasksOK, Shaped
  <2>2. work[t].items[i] \in Straight
    BY <2>1
  <2> QED
    BY <2>2 DEF Straight
<1> QED
  BY <1>1, AgentInvariant, PTL

(* An analysis that ends well has put every incident it stored, and whose  *)
(* district is known, on a stream; one of Seoul on one that MAS02 watches. *)
THEOREM AllPosted == Spec => []PostedInFull
<1>1. AgentInv => PostedInFull
  <2> SUFFICES ASSUME AgentInv, NEW t \in Task, At(t, "report"), NEW i \in work[t].kept,
                      work[t].items[i].gu # Null
               PROVE  \E m \in posted : /\ m.id = Id(work[t].items[i])
                                        /\ InDistrictOfSeoul(work[t].items[i]) => m.stream \in Watched
    BY DEF PostedInFull
  <2>1. Shaped(work[t]) /\ Told(work[t])
    BY DEF AgentInv, TasksOK
  <2>2. work[t].node = 12
    BY <2>1, NodeOrder DEF At, Shaped
  <2>3. Message(work[t].items[i]) \in posted
    BY <2>1, <2>2 DEF Told, Past
  <2>4. work[t].items[i] \in ItemOf
    <3>1. work[t].items \in Seq(Straight) /\ i \in DOMAIN work[t].items
      BY <2>1 DEF Shaped
    <3>2. work[t].items[i] \in Straight
      BY <3>1
    <3> QED
      BY <3>2 DEF Straight
  <2> QED
    BY <2>3, <2>4, MessageStream
<1> QED
  BY <1>1, AgentInvariant, PTL
=============================================================================
