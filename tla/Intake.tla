------------------------------- MODULE Intake -------------------------------
(***************************************************************************)
(* How MAS01 takes incident announcements in: the stream listener and the *)
(* notice-table listener of apps/mas01_incident/workers.py, the duplicate *)
(* check they share (check_duplicate of tools.py), the Redis consumer      *)
(* group between the producer and the stream listener, and what a crash,   *)
(* a restart and midnight do to them.                                      *)
(*                                                                         *)
(* An announcement is its text, because the text alone makes the key that  *)
(* check_duplicate claims.  A text is Dated (its end can be parsed),       *)
(* Undated (no end: the claim never expires) or neither (an end that does  *)
(* not parse: the claim lasts an hour).  Blank stands for a stream entry   *)
(* whose text is blank, Empty for one without any text.  The agent that    *)
(* analyses an announcement is one step here.                              *)
(***************************************************************************)
EXTENDS Integers, FiniteSets, Sequences

CONSTANTS
    NGu,        \* number of districts (SEOUL_GUS has 25)
    MaxDay,     \* bound: days the model runs through
    Texts,      \* announcement texts
    Dated,      \* those whose end is given and parses
    Undated,    \* those without an end
    Blank,      \* a stream entry whose text is blank
    Empty,      \* a stream entry without a text
    Count,      \* entries per stream in one read (5 in the code)
    ModelBound, \* whether config carries the model client the agent calls
    MaxMsgs,    \* bound: entries the producers write in all
    MaxFaults,  \* bound: failed external calls
    MaxCrashes  \* bound: crashes

ASSUME BoundsAssumption ==
    /\ NGu \in Nat \ {0} /\ MaxDay \in Nat \ {0} /\ Count \in Nat \ {0}
    /\ MaxMsgs \in Nat /\ MaxFaults \in Nat /\ MaxCrashes \in Nat
    /\ ModelBound \in BOOLEAN

ASSUME TextsAssumption ==
    /\ Dated \subseteq Texts /\ Undated \subseteq Texts
    /\ Dated \cap Undated = {}
    /\ Blank \notin Texts /\ Empty \notin Texts /\ Blank # Empty

Gu      == 1 .. NGu
Day     == 1 .. MaxDay
Stream  == Gu \X Day
Entry   == Gu \X Day \X (Nat \ {0})
Payload == Texts \cup {Blank, Empty}
Worker  == {"redis", "mysql"}
Pc      == {"down", "setup", "loop", "check", "agent", "ack"}
NoEntry == <<>>
NoGroup == -1

VARIABLES
    src,      \* the announcement streams, one per district and day
    group,    \* last entry the consumer group has delivered, or NoGroup
    pel,      \* entries delivered and not acknowledged
    dedup,    \* texts whose duplicate key exists
    table,    \* texts in topis_notice
    phase,    \* "active", "closing" (the last second before its end), "ended"
    today,    \* the current day
    watched,  \* the day whose streams the listener reads
    setup,    \* the district whose group is set up next
    pc,       \* where each worker is
    text,     \* the announcement each worker holds
    entry,    \* the stream entry the stream listener holds
    todo,     \* the entries of its last read it has not reached yet
    rows,     \* the rows of the last poll not reached yet
    admits,   \* history: analyses the duplicate check admitted while the event ran
    raised,   \* history: those of them it admitted because its SET raised
    done,     \* history: texts analysed to the end
    failed,   \* history: texts whose analysis raised or was cut short
    faults,   \* external calls that failed so far
    crashes   \* crashes so far

queue   == <<src, group, pel>>
clock   == <<phase, today>>
proc    == <<watched, setup, pc, text, entry, todo, rows>>
history == <<admits, raised, done, failed>>
vars    == <<queue, dedup, table, clock, proc, history, faults, crashes>>

Entries(s)  == {<<s[1], s[2], i>> : i \in 1 .. Len(src[s])}
StreamOf(e) == <<e[1], e[2]>>
Exists(e)   == StreamOf(e) \in Stream /\ e[3] \in 1 .. Len(src[StreamOf(e)])
Content(e)  == src[StreamOf(e)][e[3]]
Watched     == {s \in Stream : s[2] = watched}
Up          == \E w \in Worker : pc[w] # "down"
Active(t)   == phase[t] = "active"

(* A claim made now cannot expire before the event's last second.          *)
Holds(t) == t \in Undated \/ (t \in Dated /\ Active(t))

Over(t)     == t \in Texts /\ phase[t] = "ended"

InProgress   == {text[w] : w \in {v \in Worker : pc[v] = "agent"}}
Accounted(t) == t \in done \cup failed \cup InProgress \/ Over(t)
Acked(e)   == e[3] <= group[StreamOf(e)] /\ e \notin pel
InHand     == todo \cup (IF pc["redis"] \in {"check", "agent", "ack"} THEN {entry} ELSE {})

(* Entries the group will not deliver again and nobody works on.           *)
Stranded(s) == {e \in pel : StreamOf(e) = s /\ e \notin InHand /\ Content(e) # Empty}

Init ==
    /\ src = [s \in Stream |-> <<>>]
    /\ group = [s \in Stream |-> NoGroup]
    /\ pel = {} /\ dedup = {} /\ table = {}
    /\ phase = [t \in Texts |-> "active"]
    /\ today = 1 /\ watched = 1 /\ setup = 1
    /\ pc = [w \in Worker |-> IF w = "redis" THEN "setup" ELSE "loop"]
    /\ text = [w \in Worker |-> Empty]
    /\ entry = NoEntry /\ todo = {} /\ rows = {}
    /\ admits = [t \in Texts |-> 0] /\ raised = [t \in Texts |-> 0]
    /\ done = {} /\ failed = {} /\ faults = 0 /\ crashes = 0

(***************************************************************************)
(* A call to Redis, MySQL or the agent that raises.                        *)
(***************************************************************************)
Fault   == faults < MaxFaults /\ faults' = faults + 1
NoFault == UNCHANGED faults

Goto(w, l) == pc' = [pc EXCEPT ![w] = l] /\ UNCHANGED <<text, entry>>

(* Back to the head of the loop, with nothing in hand.                     *)
Leave(w) ==
    /\ pc' = [pc EXCEPT ![w] = "loop"]
    /\ text' = [text EXCEPT ![w] = Empty]
    /\ entry' = IF w = "redis" THEN NoEntry ELSE entry

Settle(w) == IF w = "redis" THEN Goto(w, "ack") ELSE Leave(w)

-----------------------------------------------------------------------------
(* The stream listener: one group per stream is destroyed and created      *)
(* again from id 0, the failures of both calls being swallowed.            *)

MUT_DestroyedLast(s, destroyed, created) ==
    IF destroyed THEN NoGroup ELSE IF group[s] = NoGroup /\ created THEN 0 ELSE group[s]

GroupAfter(s, destroyed, created) ==
    IF group[s] # NoGroup /\ ~destroyed THEN group[s]
    ELSE IF created THEN 0 ELSE NoGroup

SetupGroup ==
    /\ pc["redis"] = "setup" /\ setup \in Gu
    /\ LET s == <<setup, watched>> IN
       \E destroyed \in BOOLEAN, created \in BOOLEAN :
        /\ IF destroyed /\ created THEN NoFault ELSE Fault
        /\ group' = [group EXCEPT ![s] = GroupAfter(s, destroyed, created)]
        /\ pel' = IF destroyed THEN pel \ Entries(s) ELSE pel
    /\ setup' = setup + 1
    /\ pc' = [pc EXCEPT !["redis"] = IF setup = NGu THEN "loop" ELSE "setup"]
    /\ UNCHANGED <<src, dedup, table, clock, watched, text, entry, todo, rows, history, crashes>>

MUT_CursorPastEnd(s) == group[s] + Count

Cursor(s) == IF group[s] + Count < Len(src[s]) THEN group[s] + Count ELSE Len(src[s])

Fresh(s)  == {e \in Entries(s) : group[s] < e[3] /\ e[3] <= group[s] + Count}
FreshAll  == UNION {Fresh(s) : s \in Watched}

(* XREADGROUP ">" over every watched stream.  It raises, and the listener  *)
(* keeps retrying, as long as one of the groups does not exist.            *)
Deliver ==
    /\ pc["redis"] = "loop" /\ todo = {} /\ FreshAll # {}
    /\ \A s \in Watched : group[s] # NoGroup
    /\ group' = [s \in Stream |-> IF s \in Watched THEN Cursor(s) ELSE group[s]]
    /\ pel' = pel \cup FreshAll

Read ==
    /\ Deliver /\ todo' = FreshAll
    /\ UNCHANGED <<src, dedup, table, clock, watched, setup, pc, text, entry, rows, history,
                   faults, crashes>>

(* The server delivers, but the reply never reaches the listener.          *)
ReadLost ==
    /\ Deliver /\ Fault
    /\ UNCHANGED <<src, dedup, table, clock, proc, history, crashes>>

(* The reply lists the streams in order and each stream's entries by id.   *)
First(e) == \A f \in todo : e[1] < f[1] \/ (e[1] = f[1] /\ e[3] <= f[3])

(* An entry without a text is passed over, and never acknowledged.         *)
SkipEntry ==
    /\ pc["redis"] = "loop"
    /\ \E e \in todo : First(e) /\ Content(e) = Empty /\ todo' = todo \ {e}
    /\ UNCHANGED <<queue, dedup, table, clock, watched, setup, pc, text, entry, rows, history,
                   faults, crashes>>

MUT_AckOnTake ==
    /\ pc["redis"] = "loop"
    /\ \E e \in todo :
        /\ First(e) /\ Content(e) # Empty
        /\ todo' = todo \ {e} /\ entry' = e /\ pel' = pel \ {e}
        /\ text' = [text EXCEPT !["redis"] = Content(e)]
    /\ pc' = [pc EXCEPT !["redis"] = "check"]
    /\ UNCHANGED <<src, group, dedup, table, clock, watched, setup, rows, history, faults, crashes>>

TakeEntry ==
    /\ pc["redis"] = "loop"
    /\ \E e \in todo :
        /\ First(e) /\ Content(e) # Empty
        /\ todo' = todo \ {e} /\ entry' = e
        /\ text' = [text EXCEPT !["redis"] = Content(e)]
    /\ pc' = [pc EXCEPT !["redis"] = "check"]
    /\ UNCHANGED <<queue, dedup, table, clock, watched, setup, rows, history, faults, crashes>>

-----------------------------------------------------------------------------
(* The notice-table listener: it selects the notices in force, then goes   *)
(* through the result in the order the database returned it.               *)

Poll ==
    /\ pc["mysql"] = "loop" /\ rows = {}
    /\ rows' = {t \in table : phase[t] # "ended"}
    /\ UNCHANGED <<queue, dedup, table, clock, watched, setup, pc, text, entry, todo, history,
                   faults, crashes>>

TakeRow ==
    /\ pc["mysql"] = "loop"
    /\ \E t \in rows :
        /\ rows' = rows \ {t}
        /\ text' = [text EXCEPT !["mysql"] = t]
    /\ pc' = [pc EXCEPT !["mysql"] = "check"]
    /\ UNCHANGED <<queue, dedup, table, clock, watched, setup, entry, todo, history, faults, crashes>>

-----------------------------------------------------------------------------
(* check_duplicate, and what each worker does with its answer.             *)

(* SET key EX ttl NX, attempted while the event has not ended.             *)
Claimable(t) == t \in Texts /\ ~Over(t) /\ t \notin dedup

(* One more of text t, as long as its event runs.                          *)
Counted(count, t) == IF Holds(t) THEN [count EXCEPT ![t] = @ + 1] ELSE count

CheckNew(w) ==
    /\ pc[w] = "check" /\ Goto(w, "agent")
    /\ \/ text[w] = Blank /\ UNCHANGED <<dedup, admits>>
       \/ /\ Claimable(text[w])
          /\ dedup' = dedup \cup {text[w]}
          /\ admits' = Counted(admits, text[w])
    /\ UNCHANGED <<queue, table, clock, watched, setup, todo, rows, raised, done, failed, faults,
                   crashes>>

MUT_DuplicateNotAcked(w) ==
    /\ pc[w] = "check" /\ text[w] \in Texts /\ ~Claimable(text[w])
    /\ Leave(w)
    /\ UNCHANGED <<queue, dedup, table, clock, watched, setup, todo, rows, history,
                   faults, crashes>>

CheckDup(w) ==
    /\ pc[w] = "check" /\ text[w] \in Texts /\ ~Claimable(text[w])
    /\ Settle(w)
    /\ UNCHANGED <<queue, dedup, table, clock, watched, setup, todo, rows, history,
                   faults, crashes>>

MUT_ErrorIsDuplicate(w) ==
    /\ pc[w] = "check" /\ text[w] \in Texts /\ ~Over(text[w]) /\ Fault
    /\ Settle(w)
    /\ \E executed \in BOOLEAN : dedup' = IF executed THEN dedup \cup {text[w]} ELSE dedup
    /\ UNCHANGED <<queue, table, clock, watched, setup, todo, rows, history, crashes>>

(* The SET raises, whether or not Redis executed it: taken for new.        *)
CheckError(w) ==
    /\ pc[w] = "check" /\ text[w] \in Texts /\ ~Over(text[w]) /\ Fault
    /\ Goto(w, "agent")
    /\ \E executed \in BOOLEAN : dedup' = IF executed THEN dedup \cup {text[w]} ELSE dedup
    /\ admits' = Counted(admits, text[w]) /\ raised' = Counted(raised, text[w])
    /\ UNCHANGED <<queue, table, clock, watched, setup, todo, rows, done, failed, crashes>>

AgentCompletes(w) ==
    /\ pc[w] = "agent" /\ ModelBound
    /\ done' = done \cup ({text[w]} \cap Texts)
    /\ Settle(w)
    /\ UNCHANGED <<queue, dedup, table, clock, watched, setup, todo, rows, admits,
                   raised, failed, faults, crashes>>

(* An exception leaves the for loops: the rest of the batch is dropped.    *)
DropBatch(w) ==
    /\ todo' = IF w = "redis" THEN {} ELSE todo
    /\ rows' = IF w = "mysql" THEN {} ELSE rows

AgentRaises(w) ==
    /\ pc[w] = "agent" /\ IF ModelBound THEN Fault ELSE NoFault
    /\ failed' = failed \cup ({text[w]} \cap Texts)
    /\ DropBatch(w) /\ Leave(w)
    /\ UNCHANGED <<queue, dedup, table, clock, watched, setup, admits, raised, done, crashes>>

Ack ==
    /\ pc["redis"] = "ack"
    /\ pel' = pel \ {entry}
    /\ Leave("redis")
    /\ UNCHANGED <<src, group, dedup, table, clock, watched, setup, todo, rows, history,
                   faults, crashes>>

AckError ==
    /\ pc["redis"] = "ack" /\ Fault
    /\ \E executed \in BOOLEAN : pel' = IF executed THEN pel \ {entry} ELSE pel
    /\ DropBatch("redis") /\ Leave("redis")
    /\ UNCHANGED <<src, group, dedup, table, clock, watched, setup, history, crashes>>

-----------------------------------------------------------------------------
(* The world around the workers: producers, time, the process's life.      *)

Written == Cardinality(UNION {Entries(s) : s \in Stream})

(* A producer appends to one of the streams of the current day.            *)
Publish ==
    /\ Written < MaxMsgs
    /\ \E g \in Gu, p \in Payload : src' = [src EXCEPT ![<<g, today>>] = Append(@, p)]
    /\ UNCHANGED <<group, pel, dedup, table, clock, proc, history, faults, crashes>>

InsertNotice ==
    /\ \E t \in Dated : Active(t) /\ table' = table \cup {t}
    /\ UNCHANGED <<queue, dedup, clock, proc, history, faults, crashes>>

PhaseAdvance ==
    /\ \E t \in Dated :
        \/ phase[t] = "active" /\ phase' = [phase EXCEPT ![t] = "closing"]
        \/ phase[t] = "closing" /\ phase' = [phase EXCEPT ![t] = "ended"]
    /\ UNCHANGED <<queue, dedup, table, today, proc, history, faults, crashes>>

MUT_ExpiresEarly(t) == t \notin Undated

(* A claim of a dated text lasts at least the whole seconds left to the    *)
(* end, so it can go in the last second or later; without an end it stays. *)
Expirable(t) == ~Holds(t)

KeyExpires ==
    /\ \E t \in dedup : Expirable(t) /\ dedup' = dedup \ {t}
    /\ UNCHANGED <<queue, table, clock, proc, history, faults, crashes>>

DayTurn ==
    /\ today < MaxDay /\ today' = today + 1
    /\ UNCHANGED <<queue, dedup, table, phase, proc, history, faults, crashes>>

(* The process dies or is stopped: what its workers held is gone.          *)
Crash ==
    /\ Up /\ crashes < MaxCrashes /\ crashes' = crashes + 1
    /\ failed' = failed \cup (InProgress \cap Texts)
    /\ pc' = [w \in Worker |-> "down"]
    /\ text' = [w \in Worker |-> Empty]
    /\ entry' = NoEntry /\ todo' = {} /\ rows' = {}
    /\ UNCHANGED <<queue, dedup, table, clock, watched, setup, admits, raised, done, faults>>

(* The stream keys are computed once, from the date of the start.          *)
Restart ==
    /\ ~Up
    /\ watched' = today /\ setup' = 1
    /\ pc' = [w \in Worker |-> IF w = "redis" THEN "setup" ELSE "loop"]
    /\ UNCHANGED <<queue, dedup, table, clock, text, entry, todo, rows, history, faults, crashes>>

-----------------------------------------------------------------------------
Handle(w) == CheckNew(w) \/ CheckDup(w) \/ CheckError(w) \/ AgentCompletes(w) \/ AgentRaises(w)

Redis == \/ SetupGroup \/ Read \/ ReadLost \/ SkipEntry \/ TakeEntry
         \/ Handle("redis") \/ Ack \/ AckError

Mysql == Poll \/ TakeRow \/ Handle("mysql")

Environment == Publish \/ InsertNotice \/ PhaseAdvance \/ KeyExpires \/ DayTurn \/ Crash \/ Restart

Next == Redis \/ Mysql \/ Environment

Spec == Init /\ [][Next]_vars

(* The event loop schedules both tasks and every awaited call returns or   *)
(* raises.  Nothing makes an announcement arrive, a call fail, the process *)
(* crash or somebody restart it.                                           *)
FairSpec == Spec /\ WF_vars(Redis) /\ WF_vars(Mysql)

-----------------------------------------------------------------------------
(* Type invariant.                                                         *)
TypeOK ==
    /\ src \in [Stream -> Seq(Payload)]
    /\ group \in [Stream -> Nat \cup {NoGroup}]
    /\ \A s \in Stream : group[s] <= Len(src[s])
    /\ pel \subseteq Entry /\ todo \subseteq Entry
    /\ \A e \in todo : Exists(e)
    /\ dedup \subseteq Texts /\ table \subseteq Dated /\ rows \subseteq Dated
    /\ phase \in [Texts -> {"active", "closing", "ended"}]
    /\ today \in Day /\ watched \in Day /\ setup \in 1 .. NGu + 1
    /\ pc \in [Worker -> Pc]
    /\ text \in [Worker -> Payload]
    /\ entry \in Entry \cup {NoEntry}
    /\ admits \in [Texts -> Nat] /\ raised \in [Texts -> Nat]
    /\ done \subseteq Texts /\ failed \subseteq Texts
    /\ faults \in 0 .. MaxFaults /\ crashes \in 0 .. MaxCrashes

(* For as long as its event runs, an announcement is analysed once,        *)
(* whichever of the two workers meets it, however often it is delivered    *)
(* again, and across restarts -- and once more for each of its own checks  *)
(* whose SET raised (tools.py 82-84 takes it for new).  An announcement    *)
(* whose checks all went through is never analysed twice, however many     *)
(* other calls failed.                                                     *)
AdmittedOnce == \A t \in Texts : admits[t] <= 1 + raised[t] /\ raised[t] <= faults

(* An announcement the listener has acknowledged, and Redis will not give  *)
(* it again under this group, was analysed, or its analysis failed or is   *)
(* still going on in the other worker, or its event is over.               *)
AckAccounted ==
    \A s \in Stream : \A e \in Entries(s) :
        Acked(e) /\ Content(e) \in Texts => Accounted(Content(e))

(* A failed call strands at most one batch of each stream being read:      *)
(* entries the group has delivered, that carry a text, and that wait for   *)
(* an acknowledgement nobody will send.  Without a failed call none is     *)
(* stranded, and crashes and restarts strand none, because the groups are  *)
(* made anew (workers.py 42-53).  An agent without its model client fails  *)
(* on every announcement.                                                  *)
StrandedPerFault ==
    ModelBound /\ pc["redis"] \notin {"down", "setup"} =>
        \A s \in Watched : Cardinality(Stranded(s)) <= Count * faults

(* What an operator reads into workers.py 50 and tools.py 84: an entry     *)
(* leaves the group only once its announcement is analysed or over.        *)
AckedIsAnalysed ==
    \A s \in Stream : \A e \in Entries(s) :
        Acked(e) /\ Content(e) \in Texts =>
            Content(e) \in done \cup InProgress \/ Over(Content(e))

(* What makes AdmittedOnce and AckAccounted inductive: a claim that went   *)
(* through still has its key, a key belongs to an accounted announcement,  *)
(* and the listener holds what the stream says and acknowledges what is    *)
(* accounted.                                                              *)
ClaimHeld    == \A t \in Texts : admits[t] > raised[t] /\ Holds(t) => t \in dedup
KeyAccounted == \A t \in dedup : Accounted(t)
HandOK ==
    /\ pc["redis"] \in {"check", "agent", "ack"} =>
          entry \in Entry /\ Exists(entry) /\ Content(entry) = text["redis"]
    /\ pc["redis"] = "ack" /\ text["redis"] \in Texts => Accounted(text["redis"])

IInv == TypeOK /\ AdmittedOnce /\ ClaimHeld /\ KeyAccounted /\ HandOK /\ AckAccounted

(* What makes StrandedPerFault inductive: the listener's hands hold one    *)
(* batch of a stream, and until a stream's group is made anew what a crash *)
(* left there may be stranded as well.                                     *)
Unswept(s) == pc["redis"] = "down" \/ (pc["redis"] = "setup" /\ s[1] >= setup)
Allowed(s) == Count * faults + IF Unswept(s) THEN Count ELSE 0

OneBatch(S) == \E n \in Nat : \A e \in S : n < e[3] /\ e[3] <= n + Count

PendingInv ==
    /\ TypeOK
    /\ watched <= today /\ \A e \in pel : Exists(e) /\ e[2] <= watched
    /\ pc["redis"] = "setup" => setup \in Gu
    /\ pc["redis"] \in {"down", "setup"} => todo = {}
    /\ \A s \in Stream : OneBatch({e \in InHand : StreamOf(e) = s})
    /\ ModelBound => \A s \in Watched : Cardinality(Stranded(s)) <= Allowed(s)

-----------------------------------------------------------------------------
BoundedEntry == Gu \X Day \X (1 .. MaxMsgs)

(* Every entry of the streams being read is acknowledged, or carries no    *)
(* text, unless a call fails or the process dies first; crashes before     *)
(* that do not matter.                                                     *)
EntryHandled ==
    \A e \in BoundedEntry, c \in 0 .. MaxCrashes :
        Exists(e) /\ StreamOf(e) \in Watched /\ Up /\ faults = 0 /\ crashes = c
            ~> Acked(e) \/ (Exists(e) /\ Content(e) = Empty) \/ faults > 0 \/ crashes > c

(* Every notice in force is analysed, however many calls fail meanwhile,   *)
(* or its analysis has failed, or its event ends, or the process dies.     *)
NoticeClaimed ==
    \A t \in Dated, c \in 0 .. MaxCrashes :
        t \in table /\ Up /\ crashes = c
            ~> t \in done \cup failed \/ Over(t) \/ crashes > c

(* The stream listener watches the live streams (workers.py 24): whatever  *)
(* a producer writes to them reaches the group.                            *)
LiveStreamRead == \A e \in BoundedEntry : Exists(e) ~> Exists(e) /\ e[3] <= group[StreamOf(e)]

(* An analysis that was started runs to its end (workers.py 90-93).        *)
AnalysisCompletes == \A t \in Texts : t \in InProgress ~> t \in done
=============================================================================
