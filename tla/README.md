# Formal models of project-02-ai

TLA+ specifications of the incident pipeline in `src/`: two multi-agent systems
that run as asyncio tasks of one process and talk through Redis, Neo4j and
MySQL. MAS01 turns announcements about traffic closures into incidents; MAS02
finds the users an incident affects, alerts them and works out detours. The
modules are checked with TLC on small instances; all their safety invariants, and
that the agent of MAS01 implements an abstract board of incidents and MAS02
abstract notices to users, are proved with TLAPS for every value of the constants.

## The system

| component | source | state it keeps | operations |
|---|---|---|---|
| stream listener | `apps/mas01_incident/workers.py` 22-111 | consumer group and pending list of 25 announcement streams (Redis), the batch it is working through | set up groups, read, check, analyse, acknowledge |
| notice listener | same, 113-160 | rows of the last poll | poll `topis_notice`, check, analyse |
| duplicate check | `apps/mas01_incident/tools.py` 37-84 | `incident:dedup:<md5 of the text>` with a lifetime (Redis) | claim with SET NX EX |
| MAS01 agent | `apps/mas01_incident/agents_new.py` | incidents and AFFECTED_BY edges (Neo4j), incident streams (Redis) | eleven nodes: extract, classify, locate, store, publish |
| cleaner | `apps/mas01_incident/workers.py` 162-219 | none of its own | purge ended incidents from graph and streams every 5 minutes |
| incident consumer | `apps/mas02_reroute/workers.py` 23-143 | consumer group of 25 incident streams, its batch | read, search users, alert, route, acknowledge |
| patrol | same, 146-251 | the stream it is at | sweep all streams every 15 s with the same processing |
| user search | `apps/mas02_reroute/tools.py` 28-142 | reroute history `user:<u>:reroute:history:<i>` for 24 h | affected places, snapshots within 200 m, mark |
| alerts | `apps/mas02_reroute/alert.py` | inbox `user:incidents:<u>`, summary `incident:meta:<i>` | summarise, cache, deliver |
| routing agent | `apps/mas02_reroute/agents.py`, `rerouting.py`, `tools.py` 180-231 | three GDS projections (Neo4j), live route `routine:live:incident:full:<u>` | position, start and end, three searches, format, fare |
| lifecycle | `main.py`, `run_pipeline.py`, `config.py` | clients, tunnels, tasks | open, start tasks, shut down |
| HTTP interface | `routers/router.py` | none | reads the live route and the inbox |

How they interact. Producers outside the program (one is `insert_stream.py`)
append announcements to a stream per district and day; another service fills
`topis_notice`. Both listeners call the duplicate check, then the agent, whose
last node writes the graph and then appends one incident per place to
`incident:stream:<si>:<gu>`. The consumer reads these through a group, the patrol
reads them whole; both look the incident's places up in the graph, compare them
with the users' snapshots (written by another service) and write history,
inboxes and live routes, which the HTTP interface serves. The routing agent
searches three projections of the graph that the start of the process builds.

What makes it hard. Five tasks interleave at every `await`. Every call to a
service can raise, having been executed or not. A task that catches an
exception at the bottom of its loop has dropped a batch that Redis regards as
delivered. The process can die anywhere; on a start the groups are destroyed and
made anew, so that everything is read again, while keys with a lifetime survive.
Keys expire by a clock that the code read earlier. History, inbox and live
route are shared by two tasks without a lock.

What makes each component correct. *Intake*: an announcement is analysed once while its event
runs, but for checks that raise; nothing acknowledged is unaccounted for; nothing delivered is stranded;
notices are retried. *Duplicate check*: a key lives to the end of the event.
*MAS02*: a user near an incident is alerted; a detour never precedes the alert;
duplicates across the tasks are bounded; a live route lives as long as its
incident. *Agent*: only stored incidents are published, all of them, on the
stream of their district, and one bad item costs no other its place. *Cleaner*:
nothing in force goes (in fact nothing goes at all). *Routing*: routes avoid
incidents, are connected, differ, take the minutes and cost the fare of their
links. *Lifecycle*: no worker starts on what is missing or on another start's
projections, and a signal ends the process.

## Modules

| module | what it is |
|---|---|
| `Intake` | both listeners of MAS01, the duplicate check as one step, consumer group, crash, restart, midnight |
| `IntakeProofs` | theorems about `Intake` |
| `Dedup` | the duplicate key of one text against the clock, the check in two steps |
| `DedupProofs` | theorems about `Dedup` |
| `Reroute` | consumer and patrol of MAS02 and the state they share |
| `Notices` | abstract specification: users are found near an incident before they are told, and told before they are led around it |
| `RerouteProofs` | theorems about `Reroute`, among them that it implements `Notices` |
| `MCReroute` | `Reroute` with the symmetry of users, for TLC |
| `Geocode` | operators: how MAS01 finds a place and its district |
| `Incidents` | the agent of MAS01 in both listeners, the graph, the incident streams, the cleaner, restarts |
| `Board` | abstract specification: incidents are known before they are posted |
| `MCIncidents` | announcements, a node table and a line for `Incidents` |
| `IncidentsProofs` | theorems about `Incidents`, among them that it implements `Board` |
| `Paths` | operators: what is made of the paths found (segments, overlap, walks, order) and the fare |
| `Routing` | projections, weights, searches and the routing agent; extends `Paths` |
| `FoldProofs` | what a fold over a sequence goes through, and sums |
| `PathsProofs` | theorems about `Paths`: minutes, metres, connection, rides, order and overlap of the routes shown, and the fare |
| `RoutingProofs` | theorems about the searches of `Routing` |
| `Lifecycle` | start and stop of the server and of the daemon |
| `Service` | `Lifecycle` and `Routing` composed: the start prepares the graph, the tasks run the agent |
| `ServiceProofs` | theorems about `Service` |
| `MCService` | a network for `Service` |

Names starting with `MUT_` are deliberately wrong variants of the definition
that follows them. Nothing refers to them; substituting one for the definition
makes the property it is meant for fail, which shows that the property depends
on what the code does there.

### Intake

`src`, `group`, `pel` are the announcement streams, the last delivered entry of
the consumer group and its pending list; `dedup` and `table` the duplicate keys
and the notice table. `pc`, `text`, `entry`, `todo`, `rows` are the local
state of the two tasks, with program points `setup` (42-59), `loop`, `check`
(84, 138), `agent` (90, 144) and `ack` (98, 102). `admits` (the analyses the
check admitted while the event ran), `raised` (those of them that it admitted because
its SET raised, `tools.py` 82-84), `done` and `failed` are history that only
properties read.

- An announcement is its text, since the text alone makes the key. Its end is a
  function of the text here; `Dedup` lets deliveries of one text differ.
  A text is `Dated`, `Undated` (no end, the key never expires) or neither (an end
  that does not parse, one hour). The texts of streams and notices share one
  key space, as in the code.
- `SetupGroup` destroys and creates one group per step, each call failing or not.
  `ReadLost` is a delivery whose reply is lost. `SkipEntry` is the `continue` for
  an entry without `info`, which is never acknowledged; `Blank` is one whose text
  is blank, which bypasses the check.
- `CheckNew`, `CheckDup`, `CheckError` are the answers of the check.
  The time of an event has three phases because the truncated lifetime
  lets a key go in the last second; `Dedup` justifies that this is all.
- `AgentCompletes` and `AgentRaises` are the analysis. `ModelBound` says whether
  `config` carries the client the agent calls. The repository's `config.py`
  does not (`config.model` and `config.model_name` are defined nowhere, so each
  analysis raises after its key was claimed; with `ModelBound = FALSE` the
  property `AnalysisCompletes` fails). The runs show what holds once it does.
- `Crash` stands for a kill as well as for a cancellation. `Restart` computes
  the stream keys anew; `DayTurn` does not, so that `LiveStreamRead` does not
  hold on the second day.

### Dedup

One key, callers that each read the clock and compute the lifetime (`Decide`)
and later execute the SET (`Set`), with ticks in between, several to a second.
`expires` is what Redis knows; `claims` the history of granted claims.

### Reroute

Each task goes through `locate`, `scan`/`mark` (search), `alert`, `inbox`, `route`,
`live`, `expire`, `done`, and the consumer through `ack`. `marked`, `inbox`,
`live` and the pending list are what survives a crash. Decisions:

- A snapshot is the set of incidents the route passes near, or none. It changes
  at any time (`Move`) and is arbitrary at the start.
- `EXISTS` of the history and `GET` of the snapshot are one step: between them
  only the snapshot's change or a mark by the other task matters; a change is
  the same as one before the step, and a mark in between only adds a duplicate
  like the one between `Probe` and `Mark`, which is there.
- Exceptions that a handler inside the loops catches (graph lookup, agent, SET
  and EXPIRE of the route) continue there; all others go to `Drop`. Writes that
  raise have happened or not.
- `live[u]` records the incident whose route is stored and the incident whose
  end gave the lifetime. A route that has come to its end is not removed.
  `Dated` are the incidents whose end parses: for another one `strptime` raises
  between SET and EXPIRE (`workers.py` 107-120), so its route is stored and never
  given a lifetime.
- The stored text is a JSON string, so also an empty list of routes is stored.
- `Publish` adds the incident to the graph or not: the publication does not ask
  whether any platform was connected (`agents_new.py` 591-612).
- `WipesGraph` is the start through `main.py`, which empties the graph.
- The day modelled is shorter than the 24 h of the history and the 48 h of an
  inbox, so neither expires.

`Notices` speaks of pairs of a user and an incident: which are near, found, told, and
which incident a user is led around. A pair is found only while near, told only
once found, led only once told, and a new detour takes the place of the former
one; users and incidents may come and go in between. `Reroute` implements it
(`Notified`) with the pairs of the graph and the snapshots, the history `seen`, the
inboxes and the live routes. `BatchEnds` gives each task a measure that each of
its steps within a batch, failing or not, lessens: the entries left, the stage of
the one it is at, the users left in the loop, what is left for this user.

### Incidents, Geocode and Board

`work[t]` is the analysis listener `t` is at: the node of the workflow, the items
found so far, the index of the loop in the last two nodes (one function in the
code) and the indices of what was stored (`success_nodes`). `graph` and `edges`
are the Incident nodes and their AFFECTED_BY relations, `posted` the streams.
Actions are interleaved where the code awaits: each answer of the language
model, each query, each XADD.

- A text is, per kind of place, the lists of items a parser may answer; an
  answer that is no JSON gives none. `lat` stands for both coordinates: `right`,
  `swapped`, `text` (no number), `null` or `absent` (a missing key raises).
  Entity recognition, preprocessing and classification only decide which
  kinds come up; a parser without a place of its kind is passed over (`GoOn`).
- `Geocode` gives the set of outcomes of a lookup, none if it raises; a point is
  the set of places it is the middle of. The fall-back of an address with the
  search hands a coroutine function to a thread and never finds anything,
  the districts of a stretch come from its end when the search was needed:
  both as in the code.
- `Id` is the hash of the code: a bus stop, a line with two names, or a point;
  items with the same point are one incident.
- `Clean` is what the cleaner does: `payload.get(b"payload")` is `None` for every
  message, so the first one raises and the task backs off. What it would purge
  is behind that line and is not modelled, since it cannot run.
- `Restart` ends both analyses; the server's start empties the graph, the
  daemon's does not.

`Board` has two variables, what is known and what is posted, and three steps:
learn one incident, post about a known one, forget all. `Incidents` implements it
with `known` being the graph (`OnBoard`). This is the guarantee the comment at
`agents_new.py` 603 is about and on which the consumer relies when it looks an
incident up.

### Paths, Routing, Lifecycle and Service

`Paths` is `format_perfect_routing_paths` and `total_cost`, one operator per pass:
`Compress` (605-690), `Segments` (692-719), `Select` (721-759), `Format`, `Cost`.
Minutes are tenths, as the code rounds each link to one decimal; lines are sets.

`Routing` keeps a projection as the set of platforms affected when it was
built; `built` is a history of those that this start has built. Weights are the formulas of the three projections in twentieths of a
second, so that all are integers. Dijkstra's and Yen's algorithms belong to the
graph library: `Shortest` is the order of all simple paths by weight, of which
the code takes 1 or 15. `Diverse` is the overlap filter inside the queries.
`Results` is a table of all searches, so that each is worked out once. `job` is
the one routing agent, `offer` a history of its last result. The language model
picks any stop of the trip, or none that exists. The third projection leaves out nodes by their ids
(`Barred`: ids that begin with `SUBWAY` or contain `_호선`, 182-206) and walks of type `SUBWAY_TRANSFER` (`Passages`); platforms
of a subway line have ids like `1907_1호선` (`agents.py` 174), which that filter keeps.

`Lifecycle` has `main` (where the lifespan or `main` is), the open connections,
the steps of the preparation and the tasks. Both forms are in it: `mode` is
chosen at the start. Each call of the start and the stop may raise. In the
daemon a signal creates a task that cancels all others and waits for them; the
end of `main` ends the loop, and `asyncio.run` cancels that task while it waits,
so `close_db_connections` is not reached (`RunnerCancels`). The patrol is in
nobody's list of tasks and ends with the loop.

`Service` joins them: a step of the preparation is a drop or a build (daemon) or
the wipe (server), incidents arrive only from running listeners, the agent runs
only in a running consumer or patrol, and in the server, which never sets
`config.app`, its first search raises.

## Runs

`CHECK_DEADLOCK FALSE` in every run: once the bounds on arrivals, faults and
crashes are used up, idle tasks have nothing to do, and in the code they sleep.

| run | bounds | what it shows |
|---|---|---|
| `intake_safety` | 2 districts, 1 day, one dated and one undated text, 2 entries, batches of 1 of each stream, 2 faults, 1 crash; 3.5 M states | `TypeOK`, `AdmittedOnce`, `AckAccounted`, `StrandedPerFault` |
| `intake_live` | 1 district, 2 days, 1 text, 1 entry, 1 fault, 1 crash; fairness | `EntryHandled`, `NoticeClaimed` |
| `dedup` | 2 callers, 2 ends, no end and bad end, 2 ticks a second; 0.56 M states | `ReclaimedOnlyAtEnd`, `ClaimsApart`, `TwiceBeforeEnd` |
| `reroute_users` | 2 users, 1 incident, graph wiped at starts, 1 fault, 1 crash | `TypeOK`, `MarkedInHand`, `FindsBounded`, `BatchEnds` (each step) |
| `reroute_incidents` | 1 user, 2 incidents (one without a readable end), 2 districts, 2 messages, 1 fault, 1 crash; 2.8 M states | `AlertBeforeRoute`, `LifetimePending`, `Notified` (refinement) |
| `reroute_patrol` | 1 user, 2 districts, 1 message, 1 move, 1 fault, 1 crash; fairness | `NearUserAlerted` |
| `incidents` | 2 analyses of 3 texts with every kind of place, 1 fault, 1 restart; about 0.5 M states | `TypeOK`, `OnBoard` (refinement), `EachOnItsOwn`, `Upright`, `PostedInFull`, `ClosureScope` |
| `service` | 7 stops, 11 platforms, 24 links, 6 trips, 2 footprints, 2 signals, 1 failure; 0.25 M states; fairness | `WorkersReady`, `OneSnapshot`, `ServerClosesAll`, `StopsOnSignal`, `MinutesConserved`, `RoutesConnected`, `RoutesDiffer`, `RidesShown`, `FareFits`, `FirstAvoids`, `TypeOK` |
| `service_detour` | as `service`, no failure | `DetourAvoidsIncident` does not hold |
| `intake_replay` | | `AckedIsAnalysed` does not hold |
| `reroute_lifetime` | no fault, no crash | `RouteLivesToItsEnd` does not hold |
| `reroute_dropped` | fairness | `FoundUserAlerted` does not hold |

Why the bounds suffice to be interesting. Two entries and two listeners are
what a duplicate needs; one crash gives a redelivery of everything, and two
faults let one failure follow another (two failed checks, a failed check and a failed
acknowledgement, or a group that is neither destroyed nor made); a batch has one
entry of each stream, so that two entries of a stream are more than one failure may
strand (`StrandedPerFault`). Two signals give the daemon two
shutdown tasks, of which the later cancels the earlier. In MAS02 one
message is seen by both tasks; two incidents of one user collide on the live
key; two users make a loop that can be cut in the middle. The texts of
`MCIncidents` have an item for each branch of `Unfit`, `Matched` and `Geocode`; two
analyses, a fault and a restart are what tears storing from publishing. The
network of `MCService` has what the formatting is about: two lines on one link
of which one goes on, an exit with a walk, two stops of one name, a loop back to
a name, a walk of no time (alone between two stops of one name it leaves
a route without segments), walks that merge, a walk of more than 400 m between
rides, rides of more than 10 km and of 16 km, a subway, a village bus; its two
footprints leave a way around each.

What the runs that end in a counterexample show:

- *replay*: the key is claimed before the analysis and nothing releases it. A
  crash in the analysis makes the next start acknowledge the entry as a
  duplicate. `AckAccounted` is the weaker statement that does hold: the
  announcement is then in `failed`.
- *detour*: the projections are built once; an incident stored afterwards has no
  weight in them, and every route offered leads through the stop it closed.
  `FirstAvoids` is what does hold: the first search avoids what was affected when
  the projection was built, unless every way around weighs two hours more than the
  one it took.
- *lifetime*: consumer and patrol store routes for two incidents under one key;
  `EXPIRE` of the one lands on the route of the other.
  Both this trace and that of *detour* need a routing agent that works, that is, the model
  client that `config.py` does not define (below).
- *dropped*: the history is marked in the search, before the alert. A failing
  summary leaves a user that neither task will find again.

The model client. `config.py` defines neither `config.model` nor `config.model_name`,
which both agents call (`agents_new.py` 102, `agents.py` 109). `Intake`, `Reroute` and
`Routing` have the switch `ModelBound` for it: without it an analysis ends in an
exception, `Reroute`'s agent fails for every user, and `Begin` of `Routing` is never
taken, so nothing is offered. The runs of these modules set it: what the runs show of analyses, detours
and routes, `RouteLivesToItsEnd` and `DetourAvoidsIncident` among them, is what the
program does once it is given the client.

Fairness. In `Intake` and `Reroute` `FairSpec` asks weak fairness of each task, that is, asyncio resumes a
task that can go on and awaited calls return or raise. Nothing is assumed about
arrivals, moves, faults, crashes or that anybody restarts the process, hence
the liveness properties release their promise on a crash. `FairSpec` of
`Service` asks the same of the start and of the stop: steps that are due are
taken, calls return or raise, and a cancelled task gets to the `await` where it
sees the cancellation. Signals, failures and incidents are not assumed.

What the properties of failures leave open. A property that a failure voids says
nothing about that failure:

- `MarkedInHand` holds until the first exception or crash; what the exception does is the run
  `reroute_dropped`. `FindsBounded` bounds what consumer and patrol find together, not
  each of them.
- `NearUserAlerted` is released by an exception. After one the patrol begins at the first
  stream again (`Drop`), so an entry that raises each time keeps it from the streams
  behind; that is in the model and in no property.
- `AckAccounted` counts an analysis that raised as accounted for (`failed`): its claim is kept
  and the announcement is not analysed again.
- `ServerClosesAll` speaks of shutdowns in which no call failed. That the clients are closed
  before the workers are cancelled, and that a close that raises leaves the rest open, is in
  `Lifecycle`; nothing in the repository promises otherwise.
- `PostedInFull` speaks of analyses that end well, and excepts an item without a city.
  `EachOnItsOwn` begins where items are stored: a lookup that raises before ends the
  analysis (`Enrich`).
- `OnBoard` lets the server's start forget incidents that stay on the streams (`Forget`), and
  would also be satisfied by a cleaner that purges streams only.

What the properties of the routes leave open. `RidesShown` says nothing of a link all of
whose lines are identifiers (the code skips it, 655-661). `RoutesConnected` lets a ride end at a
stop that is shown earlier in it, because the code shows a name only once
(`rerouting.py` 644). `RoutesDiffer` speaks of pairs that overlap both ways, since
the code measures the later candidate only. A candidate that is rejected for a
long walk still suppresses later ones like it (739 comes before 751).

## Proofs

Every theorem holds for all constants that satisfy the named assumptions of the
module, which say no more than what the constants are: bounds are natural
numbers (`BoundsAssumption`, `LimitsAssumption`), texts with an end are texts
(`TextsAssumption`), a second has ticks (`TimeAssumption`), `None` is no incident
(`NoneAssumption`), answers of the language model are lists of items
(`AnswersAssumption`), a line is a list of names and "gu", the placeholder for a
district that was not found, is no district (`NetworkAssumption`), the tables of the
lookup are keyed by the strings in use and Kakao answers with a place or nothing
(`LookupAssumption`), `NoGraph` is no set of platforms and footprints are
(`ProjectionAssumption`), the transport network is finite, its links lead from stops
to platforms and on as their kinds say, and their seconds and metres are natural
numbers (`NetworkAssumption` of `Routing`, an assumption on what was imported into
Neo4j: the queries of `rerouting.py` read it so, 226-236 and 279-283), a ride leads between platforms of one line (`LineAssumption`:
the link carries the `route_id` by which 286 names it, and `agents_new.py` 482-485
follows links from platform to platform of one `route_id`), the stops of a trip have masters or `NoNode` and the
last resort exists (`TripsAssumption`). TLC evaluates them in each run.

### Intake

`TypeCorrect`, `Invariant` (`Spec => []IInv`), and from it `AnalysedOncePerRaise`
(`[]AdmittedOnce`) and `AckedAccounted` (`[]AckAccounted`). `AdmittedOnce` is not
inductive: an admission is excluded because the key of the one that went through is still
there, which is `ClaimHeld` (it needs that a key whose claim counts cannot expire); an
admission by a check that raised is paid from the faults.
`AckAccounted` needs `HandOK` (what the listener is about to acknowledge is the
entry it holds, and it is accounted for) and, since a duplicate is acknowledged on
the word of the key, `KeyAccounted` (every key belongs to an announcement that was
analysed, failed, is in progress or is over). The preservation proof has one step
per action.

`StrandedBounded` (`[]StrandedPerFault`) has an invariant of its own, `PendingInv`. What a
failed call strands is what the listener had in its hands, and that is one batch of a
stream (`OneBatch`: its entries lie within `Count` numbers of each other). After a crash
what was in hand is in nobody's, so the property says nothing while the process is down and
while the groups are made anew; `Allowed` says what holds instead: a stream whose group
the loop over the districts has still to reach (`Unswept`) may have one batch more. The
loop takes it away again, or a call fails and pays for it. An analysis that raises
because the model client is missing strands its batch without a failed call; hence
`ModelBound`.

### Dedup

The three properties of the run `dedup` from `TimeAssumption`: `IInv` says of each
pending SET that its lifetime, counted from now, reaches past the last second
before its end (time only adds to that) and of each granted claim that the key
outlives it. `TwiceTheorem` follows: with one end the third claim would be a second
one in the last second, and the floor of ten minutes, at least a second, keeps
them apart.

### Incidents

`KeptIsStored` (`Spec => []IInv`) and from it `AgentImplementsBoard`
(`Spec => OnBoard`): for every set of texts and answers, table, network and number
of analyses, faults and restarts. `IInv` says that an analysis has kept items only
from the node that stores them on and that the incident of each kept item is in the
graph. It is needed because `Publish` does not look at the graph: it posts what the
analysis kept, some steps after it was stored, while the other analysis and the
restarts are at the same graph. It is inductive because items do not change
once they are kept, the graph only grows, and whoever empties it also ends both
analyses. `StepOnBoard` then maps each step: a stored item is a `Learn` or a
stutter (the incident was known), a published one a `Post` or a stutter, a restart
`Forget` or a stutter, all others stutter.

`AgentInvariant` (`Spec => []AgentInv`) gives `TypeCorrect`, `ClosureInScope`,
`NoItemLost` (`[]EachOnItsOwn`), `NothingSwapped` (`[]Upright`) and `AllPosted`
(`[]PostedInFull`). The counter of the last two nodes is one and the same variable,
which is set back in between; so the invariant is stated by `Past(w, node, i)`, the
loop of that node is over or has passed item `i`: past the storing every item is kept,
unfit or lost to a failed query, of which there are as many as were lost (`Dealt`), past the publishing every kept item with a
district has its message on a stream (`Told`). `Shaped` has the form of an analysis at its
node, with `items` drawn from `Straight`, items whose coordinates are not swapped:
each parser straightens what it appends, before it appends it. `ClosureInScope`
rests on `MatchedBetween`: the query takes only platforms that lie, on one line,
between a station of the first name and one of the second.
Also needed were the lemmas about what the lookups return
(`ResolveLocated`, `OutcomesStraight`, `MessageStream`).

### Reroute

`Invariant` (`Spec => []IInv`) gives `TypeCorrect`, `AlertedBeforeRerouted`,
`MarkedIsInHand`, `LifetimeIsPending` and `FoundBounded`. Its parts:

- `InHand`: the entry a task is at is on its stream, so the incident it speaks of
  does not change under it (streams only grow, `IncStays`); the user it is at is among
  those it found.
- `Told`: whom the loop over the alerts has passed has the alert, and when it is
  over all found have. With it, `AlertBeforeRoute` follows although the route is
  stored many steps later and the other task works on the same inbox: nothing
  leaves an inbox (`SharedGrow`).
- `LifetimeInHand`: `LifetimePending` alone is not inductive. The task about to set
  the lifetime must be at the very incident of the stored route: one that is at an
  incident without an end raises instead.
- `SeenBound`: how often a pair was found is bounded by the failures so far
  plus, while it is unmarked, the tasks just about to mark it. A task adds one when it
  finds the pair and gives it back when it marks it; only the mark of the
  history excludes another find, and only a task that is cut off pays from the
  failures.

`ImplementsNotices` (`Spec => Notified`) needs one more invariant, `Sought`: before
the search a task has found nobody, during the search its incident is in the
graph, and whom it has found was found near this very incident. The graph
loses incidents only at a start, when no task is searching (`GraphGrows`). With it a
find maps to `Find`, an alert to `Tell` and, by `Told`, a stored route to `Lead`; every
other step leaves all three as they are, and the lifetime does not touch whom a
route is around (`OthersOnNotices`).

`BatchesEnd` (`Spec => BatchEnds`) goes action by action (`WorkIsNearer`). It is no
liveness: that a task is scheduled and each call returns is assumed by
`FairSpec`; what is proved is that no task can go round within a batch.

### Service

`Invariant` (`Spec => []ServiceInv`) gives `TypeCorrect`, `StartedOnceReady`
(`[]WorkersReady`), `ProjectionsAlike` (`[]OneSnapshot`) and `NothingLeftOpen`
(`[]ServerClosesAll`). Its parts: until the start is complete no task is on
(`NoneStarted`); what is open is a prefix of the order of opening or a rest of the
order of closing (`WhatIsOpen`); only a daemon is cancelled and only a server
closes (`WhoseEnd`); and from the fourth step of the preparation on, the
projections are built by this start (`built`) and hold what is affected now
(`BuiltAlike`), so that at the end none of a former process is left. The last part is
inductive only because of the first: incidents come from the listeners, and these
are not on yet. A failed drop costs nothing but a failed start: the build of the first
projection raises if the old one is still there, and the others drop theirs again.

### Paths, Routing and the offers of Service

What a route says is computed by folds over lists of any length, so the proofs
need induction over data. The library's induction theorems and folds take
operators, which the provers cannot instantiate. `FoldProofs` goes round that:
`Induction` is derived from the well-foundedness of the naturals, which speaks of
sets, and `FoldExists` and `FoldClimbs` turn `FoldLeft`, whose definition chooses a
function on all sets of indices, into a sequence of values, one per element, of
which each follows from the one before by a step given as a function.

- `LengthKept`: the first pass holds, in its segments and in the ride in progress,
  the minutes, and the metres ridden, of the rows read so far (`HeldRead`). This fails
  for a row that rides on or alights while there is no ride, which the code skips; hence
  `Boarded`. Merging loses none (`PutKeeps`): a walk that is left out takes none.
- `SegmentsLead`: after each row at whose end the passenger is at a stop, the segments
  lead there (`Led`, `ReadLeads`); while a ride is in progress they lead to where it was
  boarded. Merging keeps that (`PutLeads`): a walk that is left out ends at a stop of the
  name at which it began, and a merged walk begins and ends where the two did. Hiding
  repeated names keeps the first, the last and every name (`TidyShows`). It needs
  that the rows join (`Through`); a path of no more than such a walk shows
  nothing, and then its two ends have one name.
- `SegmentsRide`: the segments of type TRANSIT and the rows that board can be matched one
  to one and in their order, so that each segment shows the ride of its row (`ShowsRide`). The
  first pass keeps such a matching up to the ride in progress, and for that one what has
  been read of it (`Matched`, with one lemma for each kind of row): the ride began at row
  `c`, nothing since boards or walks, and the active lines run on the links so far; on the
  first link, which replaces them instead of intersecting, there is none so far. That the line
  waited for stays needs that it runs on all the links (`OneLine`). Merging
  only leaves out and joins walks, so its rides are those of the first pass (`PutRides`), and
  matchings compose (`InOrderThen`).
- `SearchDrawn`: all searches return such paths between the two stops, since only
  boarding leads from a stop to a platform and only alighting back (`WalkDrawn`) and a ride
  stays on its line until it alights (`WalkOneLine`), whatever
  Dijkstra, Yen and the filter of overlaps choose among the paths.
- `CostFits`: the price is the dearest base (`DearestOf`) and the hundreds that rounding
  up gives.
- `FormatOrders`: the selection only holds routes apart from all seen before them
  (`Accepted`), and sorting rearranges them (`SortedOrder`); two that are alike in both
  directions cannot both be there, whichever was first.
- `FirstSearchClear`: a path that touches an affected platform pays the hour on the link
  that reaches it and on the one that goes on from it (`PaysTwice`), one that touches none
  weighs as without incidents (`WeightExtra`), and Dijkstra's is of least weight: so a
  clear way left aside weighs two hours more than the way taken, both without incidents
  (`WorthIt`).

`SearchInvariant` (`Spec => []SearchInv`) carries this to the agent: its finds are such
paths from the job's start to its destination, of three searches when it formats (`FoundOK`), so that offers are made of them (`OfferOK`);
the daemon's first find is that of the projection that is there now (`FirstOK`),
which is inductive since projections only change while the agent is at rest
(`AtRest`). It gives `MinutesAdd` (`[]MinutesConserved`), `RoutesLead`
(`[]RoutesConnected`), `RidesAreShown` (`[]RidesShown`), `FareFollows` (`[]FareFits`), `OffersDiffer` (`[]RoutesDiffer`) and `FirstKeepsClear` (`[]FirstAvoids`).

### Only model-checked

All liveness, which the provers do not reach: `EntryHandled`,
`NoticeClaimed`, `NearUserAlerted`, `StopsOnSignal`. That an analysis ends
under fairness was left out of `incidents`: the graph of that instance is too
large for it, and each analysis is a loop over finite lists.

## Not modelled, and the plan

Left out for good: prompt texts, geometry, the outside geocoders and
language models other than by what they answer, the evaluation of Cypher and
the algorithms of the graph library, opening hours of lines, the former copies
`mas01_incident/agents.py` and `mas02_reroute/rerouting_save.py` (nothing imports
them), scripts and notebooks under `test/`, `prompt_test/` and `analysis/`. The
branch `IS_TEST_MODE = False` of the stream listener is not reachable in the
source, nor is the purge of the cleaner. The HTTP interface reads two keys and
changes nothing.

Partly: the summary cache of `alert.py`, which `Reroute` abstracts to a call that
returns or raises; the distances of the user search, which are the relation `Near`;
the outside producers.

Next:

1. The summary cache of `alert.py` in `Reroute`.
