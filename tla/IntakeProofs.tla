---------------------------- MODULE IntakeProofs ----------------------------
(***************************************************************************)
(* Theorems about Intake for every number of districts and days, every set *)
(* of texts and every bound: the state is well typed, the duplicate check  *)
(* admits an announcement once while its event runs and once more for each *)
(* check of it that raises, an acknowledged entry is accounted for, and    *)
(* a failed call strands one batch of a stream at most.                    *)
(***************************************************************************)
EXTENDS Intake, FiniteSetTheorems, TLAPS

USE DEF NoEntry, NoGroup

(* The entries of a stream, and no others, are on that stream.             *)
LEMMA EntriesOfStream ==
    ASSUME NEW s \in Stream, NEW e \in Entries(s), TypeOK
    PROVE  /\ e \in Entry /\ StreamOf(e) = s /\ Exists(e)
           /\ e[3] \in 1 .. Len(src[s]) /\ Content(e) = src[s][e[3]]
           /\ Content(e) \in Payload
<1>1. Len(src[s]) \in Nat /\ src[s] \in Seq(Payload)
  BY DEF TypeOK
<1>2. s \in Gu \X Day /\ s = <<s[1], s[2]>> /\ s[1] \in Gu /\ s[2] \in Day
  BY DEF Stream
<1>3. PICK i \in 1 .. Len(src[s]) : e = <<s[1], s[2], i>>
  BY DEF Entries
<1>4. e[1] = s[1] /\ e[2] = s[2] /\ e[3] = i
  BY <1>3
<1>5. StreamOf(e) = s
  BY <1>2, <1>4 DEF StreamOf
<1>6. e \in Entry
  BY <1>1, <1>2, <1>3 DEF Entry
<1>7. src[s][i] \in Payload
  BY <1>1
<1> QED
  BY <1>4, <1>5, <1>6, <1>7 DEF Exists, Content

(* An entry that exists is one of its stream's entries.                    *)
LEMMA ExistingEntry ==
    ASSUME NEW e \in Entry, Exists(e), TypeOK
    PROVE  StreamOf(e) \in Stream /\ e \in Entries(StreamOf(e))
<1>1. e = <<e[1], e[2], e[3]>>
  BY DEF Entry
<1>2. StreamOf(e)[1] = e[1] /\ StreamOf(e)[2] = e[2]
  BY DEF StreamOf
<1>3. e = <<StreamOf(e)[1], StreamOf(e)[2], e[3]>>
  BY <1>1, <1>2
<1> QED
  BY <1>3 DEF Exists, Entries

(* What a read delivers are entries that exist, and the group moves on no  *)
(* further than the stream.                                                *)
LEMMA Delivered ==
    ASSUME TypeOK, Deliver
    PROVE  /\ FreshAll \subseteq Entry
           /\ \A e \in FreshAll : Exists(e)
           /\ pel' \subseteq Entry
           /\ group' \in [Stream -> Nat \cup {NoGroup}]
           /\ \A s \in Stream : group'[s] <= Len(src[s])
<1>1. \A e \in FreshAll : e \in Entry /\ Exists(e)
  BY EntriesOfStream DEF FreshAll, Fresh, Watched
<1>2. pel' \subseteq Entry
  BY <1>1 DEF Deliver, TypeOK
<1>3. ASSUME NEW s \in Stream
      PROVE  /\ group[s] \in Nat \cup {NoGroup} /\ Len(src[s]) \in Nat
             /\ group[s] <= Len(src[s])
             /\ s \in Watched => group[s] \in Nat
  BY DEF TypeOK, Deliver
<1>4. ASSUME NEW s \in Watched
      PROVE  Cursor(s) \in Nat /\ Cursor(s) <= Len(src[s])
  BY <1>3, BoundsAssumption DEF Cursor, Watched
<1>5. group' = [s \in Stream |-> IF s \in Watched THEN Cursor(s) ELSE group[s]]
  BY DEF Deliver
<1> QED
  BY <1>1, <1>2, <1>3, <1>4, <1>5

(* Streams only grow: what an entry says never changes.                    *)
LEMMA StreamsGrow ==
    ASSUME TypeOK, [Next]_vars
    PROVE  /\ src' \in [Stream -> Seq(Payload)]
           /\ \A s \in Stream : /\ Len(src[s]) \in Nat /\ Len(src'[s]) \in Nat
                                /\ Len(src[s]) <= Len(src'[s])
                                /\ \A i \in 1 .. Len(src[s]) : src'[s][i] = src[s][i]
<1> USE DEF TypeOK
<1>1. ASSUME NEW s \in Stream PROVE src[s] \in Seq(Payload) /\ Len(src[s]) \in Nat
  OBVIOUS
<1>2. CASE src' = src
  BY <1>1, <1>2
<1>3. CASE Publish
  <2>1. PICK g \in Gu, p \in Payload : src' = [src EXCEPT ![<<g, today>>] = Append(@, p)]
    BY <1>3 DEF Publish
  <2>2. <<g, today>> \in Stream
    BY DEF Stream
  <2>3. ASSUME NEW s \in Stream
        PROVE src'[s] = IF s = <<g, today>> THEN Append(src[s], p) ELSE src[s]
    BY <2>1, <2>2
  <2>4. ASSUME NEW s \in Stream
        PROVE /\ Append(src[s], p) \in Seq(Payload)
              /\ Len(Append(src[s], p)) = Len(src[s]) + 1
              /\ \A i \in 1 .. Len(src[s]) : Append(src[s], p)[i] = src[s][i]
    BY <1>1
  <2>5. src' \in [Stream -> Seq(Payload)]
    <3>1. Append(src[<<g, today>>], p) \in Seq(Payload)
      BY <2>2, <2>4
    <3>2. src' = [src EXCEPT ![<<g, today>>] = Append(src[<<g, today>>], p)]
      BY <2>1
    <3>3. src \in [Stream -> Seq(Payload)]
      OBVIOUS
    <3> HIDE DEF TypeOK
    <3> QED
      BY <2>2, <3>1, <3>2, <3>3
  <2>6. ASSUME NEW s \in Stream
        PROVE /\ Len(src'[s]) \in Nat /\ Len(src[s]) <= Len(src'[s])
              /\ \A i \in 1 .. Len(src[s]) : src'[s][i] = src[s][i]
    <3>1. CASE s = <<g, today>>
      <4>1. src'[s] = Append(src[s], p)
        BY <2>3, <3>1
      <4> HIDE DEF TypeOK
      <4> QED
        BY <1>1, <2>4, <4>1
    <3>2. CASE s # <<g, today>>
      <4>1. src'[s] = src[s]
        BY <2>3, <3>2
      <4> HIDE DEF TypeOK
      <4> QED
        BY <1>1, <4>1
    <3> QED
      BY <3>1, <3>2
  <2> QED
    BY <1>1, <2>5, <2>6
<1>4. src' = src \/ Publish
  BY DEF Next, Redis, Mysql, Environment, Handle, SetupGroup, Read, ReadLost, SkipEntry,
         TakeEntry, Poll, TakeRow, CheckNew, CheckDup, CheckError, AgentCompletes, AgentRaises,
         Ack, AckError, InsertNotice, PhaseAdvance, KeyExpires, DayTurn, Crash, Restart, Deliver,
         queue, vars
<1> QED
  BY <1>2, <1>3, <1>4

(* An entry stays, with its content.                                       *)
COROLLARY EntriesStay ==
    ASSUME TypeOK, [Next]_vars, NEW e, Exists(e)
    PROVE  Exists(e)' /\ Content(e)' = Content(e)
BY StreamsGrow DEF Exists, Content, StreamOf

(* Counting one more of a text leaves the other texts' counts alone.       *)
LEMMA CountedOne ==
    ASSUME NEW count \in [Texts -> Nat], NEW u \in Texts, NEW t \in Texts
    PROVE  Counted(count, u)[t] = IF t = u /\ Holds(u) THEN count[t] + 1 ELSE count[t]
BY DEF Counted

(* A count stays one.                                                      *)
LEMMA CountedType ==
    ASSUME NEW count \in [Texts -> Nat], NEW u \in Texts
    PROVE  Counted(count, u) \in [Texts -> Nat]
BY DEF Counted

(* What the type invariant needs of one step, stated action by action.     *)
LEMMA TypeStep == TypeOK /\ [Next]_vars => TypeOK'
<1> SUFFICES ASSUME TypeOK, [Next]_vars PROVE TypeOK'
  OBVIOUS
<1> USE BoundsAssumption, TextsAssumption DEF TypeOK, queue, clock, proc, history
<1>0. src' \in [Stream -> Seq(Payload)] /\ \A e \in todo : Exists(e)'
  BY StreamsGrow, EntriesStay
<1>1. CASE SetupGroup
  <2>1. pc' \in [Worker -> Pc] /\ setup' \in 1 .. NGu + 1
    BY <1>1 DEF SetupGroup, Gu, Worker, Pc
  <2>2. \A s \in Stream : Len(src[s]) \in Nat
    OBVIOUS
  <2>3. <<setup, watched>> \in Stream
    BY <1>1 DEF SetupGroup, Stream
  <2>4. PICK destroyed \in BOOLEAN, created \in BOOLEAN :
          /\ group' = [group EXCEPT ![<<setup, watched>>] =
                          GroupAfter(<<setup, watched>>, destroyed, created)]
          /\ pel' = IF destroyed THEN pel \ Entries(<<setup, watched>>) ELSE pel
          /\ IF destroyed /\ created THEN NoFault ELSE Fault
    BY <1>1 DEF SetupGroup
  <2>6. GroupAfter(<<setup, watched>>, destroyed, created)
          \in {group[<<setup, watched>>], 0, NoGroup}
    BY DEF GroupAfter
  <2>7. group' \in [Stream -> Nat \cup {NoGroup}]
    BY <2>3, <2>4, <2>6
  <2>8. ASSUME NEW s \in Stream PROVE group'[s] <= Len(src[s])
    <3>1. group'[s] \in {group[s], 0, -1}
      BY <2>3, <2>4, <2>6
    <3>2. group[s] <= Len(src[s]) /\ Len(src[s]) \in Nat
      BY <2>2
    <3> HIDE DEF TypeOK
    <3> QED
      BY <3>1, <3>2
  <2>9. src' = src /\ pel' \subseteq Entry
    BY <1>1, <2>4 DEF SetupGroup
  <2>5. faults' \in 0 .. MaxFaults
    BY <2>4 DEF Fault, NoFault
  <2> QED
    BY <1>0, <1>1, <2>1, <2>5, <2>7, <2>8, <2>9 DEF SetupGroup
<1>2. CASE Read
  BY <1>0, <1>2, Delivered, EntriesStay DEF Read, Deliver
<1>3. CASE ReadLost
  BY <1>0, <1>3, Delivered DEF ReadLost, Deliver, Fault
<1>4. CASE SkipEntry
  BY <1>0, <1>4 DEF SkipEntry
<1>5. CASE TakeEntry
  <2>1. PICK e \in todo : /\ todo' = todo \ {e} /\ entry' = e
                         /\ text' = [text EXCEPT !["redis"] = Content(e)]
    BY <1>5 DEF TakeEntry
  <2>2. pc' \in [Worker -> Pc]
    BY <1>5 DEF TakeEntry, Worker, Pc
  <2>3. Content(e) \in Payload
    BY EntriesOfStream, ExistingEntry
  <2> QED
    BY <1>0, <1>5, <2>1, <2>2, <2>3 DEF TakeEntry
<1>6. CASE Poll
  BY <1>0, <1>6 DEF Poll
<1>7. CASE TakeRow
  BY <1>0, <1>7 DEF TakeRow, Worker, Pc, Payload
<1>8. ASSUME NEW w \in Worker, CheckNew(w) PROVE TypeOK'
  <2>1. dedup' \subseteq Texts /\ admits' \in [Texts -> Nat]
    <3>1. CASE text[w] \in Texts
      <4>1. Counted(admits, text[w]) \in [Texts -> Nat]
        BY <3>1, CountedType
      <4> QED
        BY <1>8, <3>1, <4>1 DEF CheckNew
    <3>2. CASE text[w] \notin Texts
      BY <1>8, <3>2 DEF CheckNew, Claimable
    <3> QED
      BY <3>1, <3>2
  <2>2. pc' \in [Worker -> Pc] /\ text' = text /\ entry' = entry
    BY <1>8 DEF CheckNew, Goto, Pc
  <2> QED
    BY <1>0, <1>8, <2>1, <2>2 DEF CheckNew
<1>9. ASSUME NEW w \in Worker, CheckDup(w) PROVE TypeOK'
  BY <1>0, <1>9 DEF CheckDup, Settle, Goto, Leave, Pc, Payload
<1>10. ASSUME NEW w \in Worker, CheckError(w) PROVE TypeOK'
  <2>1. admits' \in [Texts -> Nat] /\ raised' \in [Texts -> Nat]
    BY <1>10, CountedType DEF CheckError
  <2> QED
    BY <1>0, <1>10, <2>1 DEF CheckError, Goto, Fault, Pc
<1>11. ASSUME NEW w \in Worker, AgentCompletes(w) PROVE TypeOK'
  BY <1>0, <1>11 DEF AgentCompletes, Settle, Goto, Leave, Pc, Payload
<1>12. ASSUME NEW w \in Worker, AgentRaises(w) PROVE TypeOK'
  BY <1>0, <1>12 DEF AgentRaises, DropBatch, Leave, Fault, NoFault, Pc, Payload
<1>13. CASE Ack
  BY <1>0, <1>13 DEF Ack, Leave, Pc, Payload
<1>14. CASE AckError
  <2>1. pel' \subseteq Entry /\ faults' \in 0 .. MaxFaults
    BY <1>14 DEF AckError, Fault
  <2>2. /\ pc' \in [Worker -> Pc] /\ text' \in [Worker -> Payload]
        /\ entry' \in Entry \cup {NoEntry}
    BY <1>14 DEF AckError, Leave, Pc, Payload
  <2>3. todo' = {} /\ rows' = rows
    BY <1>14 DEF AckError, DropBatch
  <2> QED
    BY <1>0, <1>14, <2>1, <2>2, <2>3 DEF AckError
<1>15. CASE Publish
  <2>1. ASSUME NEW s \in Stream PROVE group[s] <= Len(src'[s])
    <3>1. /\ group[s] \in Nat \cup {-1} /\ group[s] <= Len(src[s])
          /\ Len(src[s]) \in Nat /\ Len(src'[s]) \in Nat /\ Len(src[s]) <= Len(src'[s])
      BY StreamsGrow
    <3> HIDE DEF TypeOK
    <3> QED
      BY <3>1
  <2> QED
    BY <1>0, <1>15, <2>1 DEF Publish
<1>16. CASE InsertNotice
  BY <1>0, <1>16 DEF InsertNotice
<1>17. CASE PhaseAdvance
  BY <1>0, <1>17 DEF PhaseAdvance
<1>18. CASE KeyExpires
  BY <1>0, <1>18 DEF KeyExpires
<1>19. CASE DayTurn
  BY <1>0, <1>19 DEF DayTurn, Day
<1>20. CASE Crash
  BY <1>0, <1>20 DEF Crash, Pc, Payload
<1>21. CASE Restart
  BY <1>0, <1>21 DEF Restart, Pc
<1>22. CASE UNCHANGED vars
  BY <1>0, <1>22 DEF vars
<1> QED
  BY <1>1, <1>2, <1>3, <1>4, <1>5, <1>6, <1>7, <1>8, <1>9, <1>10, <1>11, <1>12, <1>13, <1>14,
     <1>15, <1>16, <1>17, <1>18, <1>19, <1>20, <1>21, <1>22
     DEF Next, Redis, Mysql, Environment, Handle, Worker

(* The state of Intake has the types its declarations say, always.         *)
THEOREM TypeCorrect == Spec => []TypeOK
<1>1. Init => TypeOK
  BY BoundsAssumption
     DEF Init, TypeOK, Stream, Day, Gu, Worker, Pc, Payload, Entry
<1> QED
  BY <1>1, TypeStep, PTL DEF Spec

(* Time runs forward: a claim that is not sure to hold never is again.     *)
LEMMA PhaseStep ==
    ASSUME TypeOK, [Next]_vars, NEW t \in Texts
    PROVE  (Over(t) => Over(t)') /\ (Holds(t)' => Holds(t))
<1>1. phase' = phase \/ PhaseAdvance
  BY DEF Next, Redis, Mysql, Environment, Handle, SetupGroup, Read, ReadLost, SkipEntry,
         TakeEntry, Poll, TakeRow, CheckNew, CheckDup, CheckError, AgentCompletes, AgentRaises,
         Ack, AckError, InsertNotice, Publish, KeyExpires, DayTurn, Crash, Restart, clock, vars
<1>2. CASE phase' = phase
  BY <1>2 DEF Over, Holds, Active
<1>3. CASE PhaseAdvance
  <2>1. PICK u \in Dated : \/ phase[u] = "active" /\ phase' = [phase EXCEPT ![u] = "closing"]
                           \/ phase[u] = "closing" /\ phase' = [phase EXCEPT ![u] = "ended"]
    BY <1>3 DEF PhaseAdvance
  <2> QED
    BY <2>1 DEF TypeOK, Over, Holds, Active
<1> QED
  BY <1>1, <1>2, <1>3

(* What has been analysed, has failed or is over stays so, and what is     *)
(* being analysed ends up in one of the two.                               *)
LEMMA AccountedStays ==
    ASSUME TypeOK, [Next]_vars, NEW t \in Texts, Accounted(t)
    PROVE  Accounted(t)'
<1> USE DEF Accounted
<1>1. CASE Over(t)
  BY <1>1, PhaseStep
<1>2. CASE t \in done
  <2>1. done \subseteq done'
    BY DEF Next, Redis, Mysql, Environment, Handle, SetupGroup, Read, ReadLost, SkipEntry,
         TakeEntry, Poll, TakeRow, CheckNew, CheckDup, CheckError, AgentCompletes, AgentRaises,
         Ack, AckError, InsertNotice, PhaseAdvance, Publish, KeyExpires, DayTurn, Crash, Restart,
         history, vars
  <2> QED
    BY <1>2, <2>1
<1>3. CASE t \in failed
  <2>1. failed \subseteq failed'
    BY DEF Next, Redis, Mysql, Environment, Handle, SetupGroup, Read, ReadLost, SkipEntry,
         TakeEntry, Poll, TakeRow, CheckNew, CheckDup, CheckError, AgentCompletes, AgentRaises,
         Ack, AckError, InsertNotice, PhaseAdvance, Publish, KeyExpires, DayTurn, Crash, Restart,
         history, vars
  <2> QED
    BY <1>3, <2>1
<1>4. ASSUME NEW v \in Worker, pc[v] = "agent", text[v] = t
      PROVE  t \in done' \cup failed' \cup InProgress'
  <2>1. CASE pc'[v] = "agent" /\ text'[v] = t
    BY <2>1 DEF InProgress
  <2>2. CASE AgentCompletes(v)
    BY <1>4, <2>2 DEF AgentCompletes
  <2>3. CASE AgentRaises(v)
    BY <1>4, <2>3 DEF AgentRaises
  <2>4. CASE Crash
    BY <1>4, <2>4 DEF Crash, InProgress
  <2>5. \/ pc'[v] = "agent" /\ text'[v] = t
        \/ AgentCompletes(v) \/ AgentRaises(v) \/ Crash
    <3> USE <1>4 DEF TypeOK
    <3>1. ASSUME NEW w \in Worker,
                 CheckNew(w) \/ CheckDup(w) \/ CheckError(w) \/ AgentCompletes(w) \/ AgentRaises(w)
          PROVE  w = v => AgentCompletes(v) \/ AgentRaises(v)
      BY <3>1 DEF CheckNew, CheckDup, CheckError
    <3>2. ASSUME NEW w \in Worker, w # v,
                 CheckNew(w) \/ CheckDup(w) \/ CheckError(w) \/ AgentCompletes(w) \/ AgentRaises(w)
          PROVE  pc'[v] = pc[v] /\ text'[v] = text[v]
      BY <3>2 DEF CheckNew, CheckDup, CheckError, AgentCompletes, AgentRaises, Settle, Goto, Leave
    <3>3. CASE \E w \in Worker : Handle(w)
      BY <3>1, <3>2, <3>3 DEF Handle
    <3>4. CASE SetupGroup \/ Read \/ ReadLost \/ SkipEntry \/ TakeEntry \/ Ack \/ AckError
      BY <3>4 DEF SetupGroup, Read, ReadLost, SkipEntry, TakeEntry, Ack, AckError, Leave, proc
    <3>5. CASE Poll \/ TakeRow
      BY <3>5 DEF Poll, TakeRow
    <3>6. CASE Environment \/ UNCHANGED vars
      BY <3>6 DEF Environment, Publish, InsertNotice, PhaseAdvance, KeyExpires, DayTurn, Restart,
                  Up, proc, vars, Worker
    <3> QED
      BY <3>3, <3>4, <3>5, <3>6 DEF Next, Redis, Mysql, Worker
  <2> QED
    BY <2>1, <2>2, <2>3, <2>4, <2>5
<1> QED
  BY <1>1, <1>2, <1>3, <1>4 DEF InProgress

(* A claim that went through keeps its key, and an announcement is counted *)
(* again only when its check raises.                                       *)
LEMMA ClaimStep ==
    TypeOK /\ AdmittedOnce /\ ClaimHeld /\ [Next]_vars => (AdmittedOnce /\ ClaimHeld)'
<1> DEFINE Kept(t) ==
             /\ admits'[t] <= 1 + raised'[t] /\ raised'[t] <= faults'
             /\ admits'[t] > raised'[t] /\ Holds(t)' => t \in dedup'
<1> SUFFICES ASSUME TypeOK, AdmittedOnce, ClaimHeld, [Next]_vars, NEW t \in Texts
             PROVE  Kept(t)
  BY DEF AdmittedOnce, ClaimHeld
<1>0. /\ admits[t] \in Nat /\ raised[t] \in Nat /\ faults \in Nat
      /\ admits[t] <= 1 + raised[t] /\ raised[t] <= faults
      /\ admits[t] > raised[t] /\ Holds(t) => t \in dedup
      /\ Holds(t)' => Holds(t)
  BY PhaseStep, BoundsAssumption DEF TypeOK, AdmittedOnce, ClaimHeld
<1>1. ASSUME admits' = admits, raised' = raised, faults' \in {faults, faults + 1},
             Holds(t) => (t \in dedup => t \in dedup')
      PROVE  Kept(t)
  BY <1>0, <1>1
<1>2. ASSUME NEW w \in Worker, CheckNew(w) PROVE Kept(t)
  <2>1. CASE text[w] = Blank /\ UNCHANGED <<dedup, admits>>
    BY <1>1, <1>2, <2>1 DEF CheckNew
  <2>2. CASE Claimable(text[w]) /\ dedup' = dedup \cup {text[w]} /\ admits' = Counted(admits, text[w])
    <3>1. admits'[t] = IF t = text[w] /\ Holds(t) THEN admits[t] + 1 ELSE admits[t]
      BY <2>2, CountedOne DEF Claimable, TypeOK
    <3>2. t = text[w] /\ Holds(t) => ~(admits[t] > raised[t])
      BY <1>0, <2>2 DEF Claimable
    <3>3. raised' = raised /\ faults' = faults
      BY <1>2 DEF CheckNew
    <3> QED
      BY <1>0, <2>2, <3>1, <3>2, <3>3
  <2> QED
    BY <1>2, <2>1, <2>2 DEF CheckNew
<1>3. ASSUME NEW w \in Worker, CheckError(w) PROVE Kept(t)
  <2>1. /\ admits'[t] = IF t = text[w] /\ Holds(t) THEN admits[t] + 1 ELSE admits[t]
        /\ raised'[t] = IF t = text[w] /\ Holds(t) THEN raised[t] + 1 ELSE raised[t]
    BY <1>3, CountedOne DEF CheckError, TypeOK
  <2>2. faults' = faults + 1 /\ dedup \subseteq dedup'
    BY <1>3 DEF CheckError, Fault
  <2> QED
    BY <1>0, <2>1, <2>2
<1>4. CASE KeyExpires
  BY <1>1, <1>4 DEF KeyExpires, Expirable, history
<1>5. CASE ~KeyExpires /\ \A w \in Worker : ~CheckNew(w) /\ ~CheckError(w)
  <2>1. admits' = admits /\ raised' = raised /\ dedup \subseteq dedup'
    BY <1>5 DEF Next, Redis, Mysql, Environment, Handle, SetupGroup, Read, ReadLost, SkipEntry,
         TakeEntry, Poll, TakeRow, CheckDup, AgentCompletes, AgentRaises,
         Ack, AckError, InsertNotice, PhaseAdvance, Publish, DayTurn, Crash, Restart,
         history, vars, Worker
  <2>2. faults' = faults \/ Fault
    BY <1>5 DEF Next, Redis, Mysql, Environment, Handle, SetupGroup, Read, ReadLost, SkipEntry,
         TakeEntry, Poll, TakeRow, CheckDup, AgentCompletes, AgentRaises, NoFault,
         Ack, AckError, InsertNotice, PhaseAdvance, Publish, DayTurn, Crash, Restart,
         vars, Worker
  <2> QED
    BY <1>1, <2>1, <2>2 DEF Fault
<1> QED
  BY <1>2, <1>3, <1>4, <1>5

(* A key that appears is that of an announcement handed to the agent.      *)
LEMMA KeyStep == TypeOK /\ KeyAccounted /\ [Next]_vars => KeyAccounted'
<1> SUFFICES ASSUME TypeOK, KeyAccounted, [Next]_vars, NEW t \in dedup'
             PROVE  Accounted(t)'
  BY DEF KeyAccounted
<1>1. CASE t \in dedup
  BY <1>1, AccountedStays DEF KeyAccounted, TypeOK
<1>2. ASSUME NEW w \in Worker, CheckNew(w) \/ CheckError(w), t \notin dedup
      PROVE  Accounted(t)'
  <2>1. t = text'[w] /\ pc'[w] = "agent"
    BY <1>2 DEF CheckNew, CheckError, Goto, TypeOK
  <2> QED
    BY <2>1 DEF Accounted, InProgress
<1>3. ASSUME t \notin dedup PROVE \E w \in Worker : CheckNew(w) \/ CheckError(w)
  BY <1>3 DEF Next, Redis, Mysql, Environment, Handle, SetupGroup, Read, ReadLost, SkipEntry,
         TakeEntry, Poll, TakeRow, CheckDup, AgentCompletes, AgentRaises, KeyExpires,
         Ack, AckError, InsertNotice, PhaseAdvance, Publish, DayTurn, Crash, Restart, vars, Worker
<1> QED
  BY <1>1, <1>2, <1>3

(* What the stream listener holds is what the stream says, and what it is  *)
(* about to acknowledge is accounted for.                                  *)
LEMMA HandStep == TypeOK /\ KeyAccounted /\ HandOK /\ [Next]_vars => HandOK'
<1> SUFFICES ASSUME TypeOK, KeyAccounted, HandOK, [Next]_vars PROVE HandOK'
  OBVIOUS
<1> DEFINE InHandPc(l) == l \in {"check", "agent", "ack"}
           Held == entry \in Entry /\ Exists(entry) /\ Content(entry) = text["redis"]
<1>0. pc["redis"] \in Pc /\ "redis" \in Worker
  BY DEF TypeOK, Worker
<1>1. CASE pc'["redis"] \notin {"check", "agent", "ack"}
  BY <1>1 DEF HandOK
<1>2. CASE /\ pc'["redis"] = pc["redis"] /\ text'["redis"] = text["redis"] /\ entry' = entry
           /\ InHandPc(pc["redis"])
  <2>1. Held /\ Held'
    BY <1>2, EntriesStay DEF HandOK
  <2>2. ASSUME pc'["redis"] = "ack", text'["redis"] \in Texts
        PROVE  Accounted(text["redis"])'
    <3>1. PICK t \in Texts : t = text["redis"]
      BY <1>2, <2>2
    <3>2. Accounted(t)'
      BY <1>2, <2>2, <3>1, AccountedStays DEF HandOK
    <3> QED
      BY <1>2, <3>1, <3>2 DEF Accounted, InProgress, Over
  <2> QED
    BY <2>1, <2>2 DEF HandOK
<1>3. CASE TakeEntry
  <2>1. PICK e \in todo : entry' = e /\ text' = [text EXCEPT !["redis"] = Content(e)]
    BY <1>3 DEF TakeEntry
  <2>2. Exists(e) /\ e \in Entry /\ Exists(e)' /\ Content(e)' = Content(e)
    BY <2>1, EntriesStay DEF TypeOK
  <2>3. pc'["redis"] = "check" /\ text'["redis"] = Content(e)
    BY <1>0, <1>3, <2>1 DEF TakeEntry, TypeOK
  <2> QED
    BY <2>1, <2>2, <2>3 DEF HandOK
<1>4. ASSUME CheckNew("redis") \/ CheckError("redis"), pc'["redis"] = "agent"
      PROVE  HandOK'
  <2>1. pc["redis"] = "check" /\ text' = text /\ entry' = entry
    BY <1>4 DEF CheckNew, CheckError, Goto
  <2> QED
    BY <1>4, <2>1, EntriesStay DEF HandOK
<1>5. CASE CheckDup("redis")
  <2>1. /\ pc["redis"] = "check" /\ text' = text /\ entry' = entry
        /\ text["redis"] \in Texts /\ ~Claimable(text["redis"])
    BY <1>5 DEF CheckDup, Settle, Goto
  <2>2. Accounted(text["redis"])
    BY <2>1 DEF Claimable, KeyAccounted, Accounted
  <2>3. Accounted(text["redis"])'
    <3>1. PICK t \in Texts : t = text["redis"]
      BY <2>1
    <3>2. Accounted(t)'
      BY <2>2, <3>1, AccountedStays
    <3> QED
      BY <2>1, <3>1, <3>2 DEF Accounted, InProgress, Over
  <2> QED
    BY <2>1, <2>3, EntriesStay DEF HandOK
<1>6. CASE AgentCompletes("redis")
  <2>1. /\ pc["redis"] = "agent" /\ text' = text /\ entry' = entry
        /\ done' = done \cup ({text["redis"]} \cap Texts)
    BY <1>6 DEF AgentCompletes, Settle, Goto
  <2>2. text'["redis"] \in Texts => text'["redis"] \in done'
    BY <2>1
  <2> QED
    BY <2>1, <2>2, EntriesStay DEF HandOK, Accounted
<1>7. \/ pc'["redis"] \notin {"check", "agent", "ack"}
      \/ /\ pc'["redis"] = pc["redis"] /\ text'["redis"] = text["redis"] /\ entry' = entry
         /\ InHandPc(pc["redis"])
      \/ TakeEntry \/ CheckDup("redis") \/ AgentCompletes("redis")
      \/ (CheckNew("redis") \/ CheckError("redis")) /\ pc'["redis"] = "agent"
  <2> USE DEF TypeOK, Worker
  <2>1. CASE Handle("mysql")
    BY <2>1 DEF Handle, CheckNew, CheckDup, CheckError, AgentCompletes, AgentRaises, Settle, Goto,
               Leave
  <2>2. CASE Handle("redis")
    BY <2>2 DEF Handle, CheckNew, CheckError, AgentRaises, Goto, Leave
  <2>3. CASE SetupGroup \/ Read \/ ReadLost \/ SkipEntry \/ Ack \/ AckError
    BY <2>3 DEF SetupGroup, Read, ReadLost, SkipEntry, Ack, AckError, Leave, Deliver, proc
  <2>4. CASE Poll \/ TakeRow
    BY <2>4 DEF Poll, TakeRow
  <2>5. CASE Environment \/ UNCHANGED vars
    BY <2>5 DEF Environment, Publish, InsertNotice, PhaseAdvance, KeyExpires, DayTurn, Crash,
               Restart, proc, vars
  <2> QED
    BY <2>1, <2>2, <2>3, <2>4, <2>5 DEF Next, Redis, Mysql
<1> QED
  BY <1>1, <1>2, <1>3, <1>4, <1>5, <1>6, <1>7

(* An entry becomes acknowledged by the acknowledgement of the entry in    *)
(* hand, and by nothing else: not by a read, not by making a group anew.   *)
LEMMA AckedBefore ==
    ASSUME TypeOK, [Next]_vars, NEW s \in Stream, NEW e \in Entries(s)', Acked(e)'
    PROVE  /\ e \in Entries(s) /\ Content(e)' = Content(e)
           /\ Acked(e) \/ (e = entry /\ pc["redis"] = "ack")
<1>1. TypeOK'
  BY TypeStep
<1>2. /\ e \in Entry /\ StreamOf(e) = s /\ e[3] \in Nat \ {0}
      /\ group[s] \in Nat \cup {-1} /\ group[s] <= Len(src[s]) /\ Len(src[s]) \in Nat
      /\ e[3] <= group'[s] /\ e \notin pel'
  <2>1. PICK i \in 1 .. Len(src'[s]) : e = <<s[1], s[2], i>>
    BY DEF Entries
  <2>2. s = <<s[1], s[2]>> /\ s[1] \in Gu /\ s[2] \in Day
    BY DEF Stream
  <2>3. Len(src'[s]) \in Nat /\ Len(src[s]) \in Nat
    BY StreamsGrow
  <2>4. e[1] = s[1] /\ e[2] = s[2] /\ e[3] = i /\ StreamOf(e) = s
    BY <2>1, <2>2 DEF StreamOf
  <2>5. e \in Entry
    BY <2>1, <2>2, <2>3 DEF Entry
  <2> QED
    BY <2>3, <2>4, <2>5 DEF TypeOK, Acked
<1>3. CASE SetupGroup
  <2>1. PICK destroyed \in BOOLEAN, created \in BOOLEAN :
          /\ group' = [group EXCEPT ![<<setup, watched>>] =
                          GroupAfter(<<setup, watched>>, destroyed, created)]
          /\ pel' = IF destroyed THEN pel \ Entries(<<setup, watched>>) ELSE pel
    BY <1>3 DEF SetupGroup
  <2>2. <<setup, watched>> \in Stream /\ src' = src
    BY <1>3 DEF SetupGroup, Stream, TypeOK
  <2>3. CASE s = <<setup, watched>>
    <3>1. group'[s] = GroupAfter(s, destroyed, created)
      BY <2>1, <2>2, <2>3 DEF TypeOK
    <3>2. group'[s] = group[s] /\ ~destroyed
      BY <1>2, <3>1 DEF GroupAfter
    <3>3. pel' = pel /\ e[3] <= group[s]
      BY <1>2, <2>1, <3>2
    <3> QED
      BY <1>2, <2>2, <3>3, EntriesStay DEF Acked, Entries, Content
  <2>4. CASE s # <<setup, watched>>
    <3>1. group'[s] = group[s]
      BY <2>1, <2>4 DEF TypeOK
    <3>2. e \in Entries(s)
      BY <2>2 DEF Entries
    <3>3. e \notin Entries(<<setup, watched>>)
      BY <1>2, <2>2, <2>4, EntriesOfStream
    <3>4. e \notin pel
      BY <1>2, <2>1, <3>3
    <3> QED
      BY <1>2, <2>2, <3>1, <3>2, <3>4 DEF Acked, Content
  <2> QED
    BY <2>3, <2>4
<1>4. CASE Deliver /\ src' = src
  <2>1. /\ group' = [x \in Stream |-> IF x \in Watched THEN Cursor(x) ELSE group[x]]
        /\ pel' = pel \cup FreshAll
    BY <1>4 DEF Deliver
  <2>2. e \in Entries(s) /\ Content(e)' = Content(e) /\ e \notin pel
    BY <1>2, <1>4, <2>1 DEF Entries, Content
  <2>3. e[3] <= group[s]
    <3>1. CASE s \notin Watched
      BY <1>2, <2>1, <3>1
    <3>2. CASE s \in Watched
      <4>1. e[3] <= Cursor(s) /\ e \notin Fresh(s)
        BY <1>2, <2>1, <3>2 DEF FreshAll
      <4>2. Cursor(s) <= group[s] + Count
        BY <1>2, BoundsAssumption DEF Cursor
      <4>3. e[3] <= group[s] + Count
        BY <1>2, <4>1, <4>2, BoundsAssumption DEF Cursor
      <4> QED
        BY <1>2, <2>2, <4>1, <4>3 DEF Fresh
    <3> QED
      BY <3>1, <3>2
  <2> QED
    BY <1>2, <2>2, <2>3 DEF Acked
<1>5. CASE group' = group /\ (pel' = pel \/ (pel \subseteq pel' \cup {entry} /\ pc["redis"] = "ack"))
  <2>1. e[3] \in 1 .. Len(src[s])
    BY <1>2, <1>5
  <2>2. PICK i : e = <<s[1], s[2], i>>
    BY DEF Entries
  <2>3. e[3] = i
    BY <2>2
  <2>4. e \in Entries(s)
    BY <2>1, <2>2, <2>3 DEF Entries
  <2>5. Exists(e)
    BY <2>4, EntriesOfStream
  <2>6. Content(e)' = Content(e)
    BY <2>5, EntriesStay
  <2> QED
    BY <1>2, <1>5, <2>4, <2>6 DEF Acked
<1>6. \/ SetupGroup
      \/ Deliver /\ src' = src
      \/ group' = group /\ (pel' = pel \/ (pel \subseteq pel' \cup {entry} /\ pc["redis"] = "ack"))
  BY DEF Next, Redis, Mysql, Environment, Handle, Read, ReadLost, SkipEntry,
         TakeEntry, Poll, TakeRow, CheckNew, CheckDup, CheckError, AgentCompletes, AgentRaises,
         Ack, AckError, InsertNotice, PhaseAdvance, Publish, KeyExpires, DayTurn, Crash, Restart,
         queue, vars
<1> QED
  BY <1>3, <1>4, <1>5, <1>6

(* Every step keeps what is known of acknowledged entries.                 *)
LEMMA AckStep == TypeOK /\ HandOK /\ AckAccounted /\ [Next]_vars => AckAccounted'
<1> SUFFICES ASSUME TypeOK, HandOK, AckAccounted, [Next]_vars,
                    NEW s \in Stream, NEW e \in Entries(s)',
                    Acked(e)', Content(e)' \in Texts
             PROVE  Accounted(Content(e))'
  BY DEF AckAccounted
<1>1. /\ e \in Entries(s) /\ Content(e)' = Content(e)
      /\ Acked(e) \/ (e = entry /\ pc["redis"] = "ack")
  BY AckedBefore
<1>2. Accounted(Content(e))
  BY <1>1 DEF AckAccounted, HandOK
<1>3. PICK t \in Texts : t = Content(e)
  BY <1>1
<1>4. Accounted(t)'
  BY <1>2, <1>3, AccountedStays
<1>5. Content(e)' = t
  BY <1>1, <1>3
<1> QED
  BY <1>4, <1>5 DEF Accounted, InProgress, Over

(* The inductive invariant.                                                *)
THEOREM Invariant == Spec => []IInv
<1>1. Init => IInv
  <2> SUFFICES ASSUME Init PROVE IInv
    OBVIOUS
  <2>1. TypeOK
    BY BoundsAssumption DEF Init, TypeOK, Stream, Day, Gu, Worker, Pc, Payload, Entry
  <2>2. \A s \in Stream : Entries(s) = {}
    BY DEF Init, Entries
  <2> QED
    BY <2>1, <2>2 DEF Init, IInv, AdmittedOnce, ClaimHeld, KeyAccounted, HandOK, AckAccounted, Worker
<1>2. IInv /\ [Next]_vars => IInv'
  BY TypeStep, ClaimStep, KeyStep, HandStep, AckStep DEF IInv
<1> QED
  BY <1>1, <1>2, PTL DEF Spec

(* While its event runs an announcement is analysed once, and once more    *)
(* for each of its checks that raised, for any number of workers'          *)
(* meetings, deliveries, crashes and restarts.                             *)
THEOREM AnalysedOncePerRaise == Spec => []AdmittedOnce
BY Invariant, PTL DEF IInv

(* No acknowledged entry is lost without an analysis having been tried.    *)
THEOREM AckedAccounted == Spec => []AckAccounted
BY Invariant, PTL DEF IInv

-----------------------------------------------------------------------------
(* One batch of a stream is no more than Count entries.                    *)
LEMMA BatchSize ==
    ASSUME NEW s, NEW S, OneBatch(S), \A e \in S : e \in Entry /\ StreamOf(e) = s
    PROVE  IsFiniteSet(S) /\ Cardinality(S) <= Count
<1>1. PICK n \in Nat : \A e \in S : n < e[3] /\ e[3] <= n + Count
  BY DEF OneBatch
<1> DEFINE I == n + 1 .. n + Count
           f == [i \in I |-> <<s[1], s[2], i>>]
           T == {f[i] : i \in I}
<1>2. n + 1 \in Int /\ n + Count \in Int /\ Count \in Nat
  BY BoundsAssumption
<1>3. IsFiniteSet(I) /\ Cardinality(I) <= Count
  <2>1. IsFiniteSet(I) /\ Cardinality(I) = IF n + 1 > n + Count THEN 0 ELSE n + Count - (n + 1) + 1
    BY <1>2, FS_Interval
  <2> QED
    BY <1>2, <2>1
<1>4. f \in Surjection(I, T)
  BY DEF Surjection
<1>5. \A e \in S : e \in T
  <2> SUFFICES ASSUME NEW e \in S PROVE e \in T
    OBVIOUS
  <2>1. e = <<e[1], e[2], e[3]>> /\ e[3] \in Nat
    BY DEF Entry
  <2>2. e[1] = s[1] /\ e[2] = s[2]
    BY DEF StreamOf
  <2>3. e[3] \in I
    BY <1>1, <1>2, <2>1
  <2> QED
    BY <2>1, <2>2, <2>3
<1>6. IsFiniteSet(T) /\ Cardinality(T) <= Cardinality(I)
  <2> HIDE DEF I, f, T
  <2> QED
    BY <1>3, <1>4, FS_Surjection
<1>7. S \in SUBSET T
  BY <1>5
<1>8. IsFiniteSet(S) /\ Cardinality(S) <= Cardinality(T)
  <2> HIDE DEF I, f, T
  <2> QED
    BY <1>6, <1>7, FS_Subset
<1> QED
  <2> HIDE DEF I, f, T
  <2>1. Cardinality(S) \in Nat /\ Cardinality(T) \in Nat /\ Cardinality(I) \in Nat
    BY <1>3, <1>6, <1>8, FS_CardinalityType
  <2> QED
    BY <1>2, <1>3, <1>6, <1>8, <2>1

(* What is stranded on a stream is finite.                                 *)
LEMMA StrandedFinite ==
    ASSUME TypeOK, \A e \in pel : Exists(e), NEW s \in Stream
    PROVE  IsFiniteSet(Stranded(s))
<1> DEFINE I == 1 .. Len(src[s])
           f == [i \in I |-> <<s[1], s[2], i>>]
           T == {f[i] : i \in I}
<1>1. Len(src[s]) \in Int
  BY DEF TypeOK
<1>2. IsFiniteSet(I)
  <2>1. 1 \in Int
    OBVIOUS
  <2> QED
    BY <1>1, <2>1, FS_Interval
<1>3. f \in Surjection(I, T)
  BY DEF Surjection
<1>4. IsFiniteSet(T)
  <2> HIDE DEF I, f, T
  <2> QED
    BY <1>2, <1>3, FS_Surjection
<1>5. ASSUME NEW e \in Stranded(s) PROVE e \in T
  <2>1. e \in Entry /\ Exists(e) /\ StreamOf(e) = s
    BY <1>5 DEF Stranded, TypeOK
  <2>2. e = <<e[1], e[2], e[3]>>
    BY <2>1 DEF Entry
  <2>3. e[1] = s[1] /\ e[2] = s[2] /\ e[3] \in I
    BY <2>1 DEF StreamOf, Exists
  <2> QED
    BY <2>2, <2>3
<1>6. Stranded(s) \in SUBSET T
  BY <1>5
<1> QED
  <2> HIDE DEF T
  <2> QED
    BY <1>4, <1>6, FS_Subset

(* A set that takes in a part of one batch grows by no more than Count.    *)
LEMMA BatchMore ==
    ASSUME NEW S, IsFiniteSet(S), NEW s, NEW B, OneBatch(B),
           \A e \in B : e \in Entry /\ StreamOf(e) = s,
           NEW T, T \subseteq S \cup B
    PROVE  Cardinality(T) <= Cardinality(S) + Count
<1>1. IsFiniteSet(B) /\ Cardinality(B) <= Count /\ Cardinality(B) \in Nat /\ Cardinality(S) \in Nat
  BY BatchSize, FS_CardinalityType
<1>2. /\ IsFiniteSet(S \cup B)
      /\ Cardinality(S \cup B) = Cardinality(S) + Cardinality(B) - Cardinality(S \cap B)
  BY <1>1, FS_Union
<1>3. IsFiniteSet(S \cap B) /\ Cardinality(S \cap B) \in Nat
  <2>1. S \cap B \in SUBSET S
    OBVIOUS
  <2> QED
    BY <2>1, FS_Subset, FS_CardinalityType
<1>4. T \in SUBSET (S \cup B)
  OBVIOUS
<1>5. IsFiniteSet(T) /\ Cardinality(T) <= Cardinality(S \cup B) /\ Cardinality(T) \in Nat
  BY <1>2, <1>4, FS_Subset, FS_CardinalityType
<1> QED
  BY <1>1, <1>2, <1>3, <1>5, BoundsAssumption

(* One failed call more allows one batch more.                             *)
LEMMA AllowedMore ==
    ASSUME NEW n \in Nat
    PROVE  /\ Count * n \in Nat /\ Count * (n + 1) \in Nat
           /\ Count * (n + 1) = Count * n + Count
<1>1. Count \in Nat
  BY BoundsAssumption
<1> QED
  BY <1>1

(* A failed call is never forgotten.                                       *)
LEMMA FaultsCounted ==
    ASSUME TypeOK, [Next]_vars
    PROVE  faults \in Nat /\ (faults' = faults \/ (Fault /\ faults' = faults + 1))
BY BoundsAssumption
   DEF TypeOK, Next, Redis, Mysql, Environment, Handle, SetupGroup, Read, ReadLost, SkipEntry,
       TakeEntry, Poll, TakeRow, CheckNew, CheckDup, CheckError, AgentCompletes, AgentRaises,
       Ack, AckError, InsertNotice, PhaseAdvance, Publish, KeyExpires, DayTurn, Crash, Restart,
       Fault, NoFault, vars

(* What is pending has been delivered, so that it is on a stream, and not  *)
(* on one of a later day than the process was started on.                  *)
LEMMA PendingExists ==
    ASSUME PendingInv, [Next]_vars
    PROVE  /\ watched' <= today'
           /\ \A e \in pel' : /\ e \in Entry /\ Exists(e) /\ Content(e)' = Content(e)
                              /\ Exists(e)' /\ e[2] <= watched'
<1> USE DEF PendingInv
<1>0. today \in Nat /\ watched \in Nat /\ watched <= today
  BY BoundsAssumption DEF TypeOK, Day
<1>1. /\ today' \in {today, today + 1} /\ watched' \in {watched, today}
  BY DEF Next, Redis, Mysql, Environment, Handle, SetupGroup, Read, ReadLost, SkipEntry,
         TakeEntry, Poll, TakeRow, CheckNew, CheckDup, CheckError, AgentCompletes, AgentRaises,
         Ack, AckError, InsertNotice, PhaseAdvance, Publish, KeyExpires, DayTurn, Crash, Restart,
         clock, proc, vars
<1>2. watched' = watched \/ today' = today
  BY DEF Next, Redis, Mysql, Environment, Handle, SetupGroup, Read, ReadLost, SkipEntry,
         TakeEntry, Poll, TakeRow, CheckNew, CheckDup, CheckError, AgentCompletes, AgentRaises,
         Ack, AckError, InsertNotice, PhaseAdvance, Publish, KeyExpires, DayTurn, Crash, Restart,
         clock, proc, vars
<1>3. watched' <= today' /\ watched <= watched'
  BY <1>0, <1>1, <1>2
<1>4. ASSUME NEW e \in pel' PROVE e \in Entry /\ Exists(e) /\ e[2] <= watched
  <2>1. CASE e \in pel
    BY <2>1 DEF TypeOK
  <2>2. CASE e \notin pel
    <3>1. Deliver
      BY <1>4, <2>2
         DEF Next, Redis, Mysql, Environment, Handle, SetupGroup, Read, ReadLost, SkipEntry,
             TakeEntry, Poll, TakeRow, CheckNew, CheckDup, CheckError, AgentCompletes,
             AgentRaises, Ack, AckError, InsertNotice, PhaseAdvance, Publish, KeyExpires,
             DayTurn, Crash, Restart, queue, vars
    <3>2. e \in FreshAll
      BY <1>4, <2>2, <3>1 DEF Deliver
    <3>3. PICK s \in Watched : e \in Fresh(s)
      BY <3>2 DEF FreshAll
    <3>4. e \in Entry /\ Exists(e) /\ StreamOf(e) = s
      BY <3>3, EntriesOfStream DEF Fresh, Watched
    <3>5. e[2] = watched
      BY <3>3, <3>4 DEF StreamOf, Watched
    <3> QED
      BY <1>0, <3>4, <3>5
  <2> QED
    BY <2>1, <2>2
<1>5. ASSUME NEW e \in pel' PROVE e[2] <= watched'
  <2>1. e[2] \in Nat /\ watched' \in Nat
    BY <1>0, <1>1, <1>4, BoundsAssumption DEF Entry, Day
  <2> QED
    BY <1>0, <1>3, <1>4, <2>1
<1> QED
  BY <1>3, <1>4, <1>5, EntriesStay

(* The listener's hands are filled by a read alone, when they are empty.   *)
LEMMA HandsStep ==
    ASSUME PendingInv, [Next]_vars
    PROVE  /\ pc'["redis"] = "setup" => setup' \in Gu
           /\ pc'["redis"] \in {"down", "setup"} => todo' = {}
           /\ InHand' \subseteq InHand \/ (Read /\ InHand' = FreshAll /\ InHand = {})
<1> USE DEF PendingInv, TypeOK, Worker, InHand
<1>1. CASE Handle("mysql")
  BY <1>1 DEF Handle, CheckNew, CheckDup, CheckError, AgentCompletes, AgentRaises, Settle, Goto,
             Leave, DropBatch
<1>2. CASE Handle("redis")
  BY <1>2 DEF Handle, CheckNew, CheckDup, CheckError, AgentCompletes, AgentRaises, Settle, Goto,
             Leave, DropBatch
<1>3. CASE SetupGroup
  <2>1. setup \in Gu /\ setup' = setup + 1 /\ todo' = todo /\ todo = {}
    BY <1>3 DEF SetupGroup, proc
  <2>2. pc'["redis"] = "setup" => setup # NGu
    BY <1>3 DEF SetupGroup
  <2>3. pc'["redis"] = "setup" => setup' \in Gu
    BY <2>1, <2>2, BoundsAssumption DEF Gu
  <2>4. pc'["redis"] \in {"setup", "loop"} /\ entry' = entry
    BY <1>3 DEF SetupGroup
  <2> QED
    BY <2>1, <2>3, <2>4
<1>4. CASE Read
  BY <1>4 DEF Read, Deliver
<1>5. CASE ReadLost \/ SkipEntry \/ TakeEntry \/ Ack \/ AckError
  BY <1>5 DEF ReadLost, SkipEntry, TakeEntry, Ack, AckError, Leave, Deliver, DropBatch, proc
<1>6. CASE Poll \/ TakeRow
  BY <1>6 DEF Poll, TakeRow
<1>7. CASE Restart
  BY <1>7, BoundsAssumption DEF Restart, Up, Gu
<1>8. CASE \/ Publish \/ InsertNotice \/ PhaseAdvance \/ KeyExpires \/ DayTurn \/ Crash
           \/ UNCHANGED vars
  BY <1>8 DEF Publish, InsertNotice, PhaseAdvance, KeyExpires, DayTurn, Crash, proc, vars
<1> QED
  BY <1>1, <1>2, <1>3, <1>4, <1>5, <1>6, <1>7, <1>8 DEF Next, Redis, Mysql, Environment

(* What is delivered of a stream in one read is one batch.                 *)
LEMMA FreshBatch ==
    ASSUME TypeOK, Deliver, NEW s \in Stream
    PROVE  /\ OneBatch({e \in FreshAll : StreamOf(e) = s})
           /\ \A e \in FreshAll : e \in Entry /\ Exists(e)
<1>1. ASSUME NEW u \in Watched, NEW e \in Fresh(u)
      PROVE  e \in Entry /\ Exists(e) /\ StreamOf(e) = u
             /\ group[u] < e[3] /\ e[3] <= group[u] + Count
  BY <1>1, EntriesOfStream DEF Fresh, Watched
<1>2. CASE s \in Watched
  <2>1. group[s] \in Nat
    BY <1>2 DEF Deliver, TypeOK, Watched
  <2>2. \A e \in {d \in FreshAll : StreamOf(d) = s} : group[s] < e[3] /\ e[3] <= group[s] + Count
    BY <1>1 DEF FreshAll
  <2> QED
    BY <1>1, <2>1, <2>2 DEF OneBatch, FreshAll
<1>3. CASE s \notin Watched
  <2>1. {e \in FreshAll : StreamOf(e) = s} = {}
    BY <1>1, <1>3 DEF FreshAll
  <2> QED
    BY <1>1, <2>1 DEF OneBatch, FreshAll
<1> QED
  BY <1>2, <1>3

(* What a step does to the entries stranded on a stream being read: it     *)
(* adds none of them, or no more than a batch when a call fails or the     *)
(* process dies, or it makes the group anew.                               *)
LEMMA StrandStep ==
    ASSUME PendingInv, [Next]_vars, ModelBound, NEW s \in Watched, watched' = watched
    PROVE  \/ Stranded(s)' \subseteq Stranded(s) /\ Allowed(s) <= Allowed(s)'
           \/ Stranded(s)' = {}
           \/ /\ Stranded(s)' \subseteq Stranded(s) \cup {e \in InHand \cap pel : StreamOf(e) = s}
              /\ Allowed(s) + Count <= Allowed(s)'
           \/ /\ Deliver
              /\ Stranded(s)' \subseteq Stranded(s) \cup {e \in FreshAll : StreamOf(e) = s}
              /\ Allowed(s) + Count <= Allowed(s)'
<1> USE DEF PendingInv
<1>0. /\ faults \in Nat /\ (faults' = faults \/ (Fault /\ faults' = faults + 1))
      /\ Count \in Nat /\ pc["redis"] \in Pc
      /\ \A e \in pel' : Content(e)' = Content(e)
      /\ Count * faults \in Nat /\ Count * (faults + 1) = Count * faults + Count
  BY FaultsCounted, PendingExists, AllowedMore, BoundsAssumption DEF TypeOK, Worker
<1>1. ASSUME pel' = pel, InHand' = InHand, Unswept(s)' = Unswept(s)
      PROVE  Stranded(s)' \subseteq Stranded(s) /\ Allowed(s) <= Allowed(s)'
  BY <1>0, <1>1 DEF Stranded, Allowed
<1>2. ASSUME pel' \subseteq pel, Fault, Unswept(s)' = Unswept(s)
      PROVE  /\ Stranded(s)' \subseteq Stranded(s) \cup {e \in InHand \cap pel : StreamOf(e) = s}
             /\ Allowed(s) + Count <= Allowed(s)'
  <2>1. faults' = faults + 1
    BY <1>2 DEF Fault
  <2> QED
    BY <1>0, <1>2, <2>1 DEF Stranded, Allowed
<1>3. CASE SetupGroup
  <2>1. PICK destroyed \in BOOLEAN, created \in BOOLEAN :
          /\ IF destroyed /\ created THEN NoFault ELSE Fault
          /\ pel' = IF destroyed THEN pel \ Entries(<<setup, watched>>) ELSE pel
    BY <1>3 DEF SetupGroup
  <2>2. /\ pc["redis"] = "setup" /\ setup \in Gu /\ setup' = setup + 1 /\ InHand' = InHand
        /\ pc'["redis"] = IF setup = NGu THEN "loop" ELSE "setup"
    BY <1>3 DEF SetupGroup, TypeOK, Worker, InHand
  <2>3. s[1] \in Gu /\ s = <<s[1], watched>> /\ s \in Stream
    BY DEF Watched, Stream
  <2>4. CASE s[1] = setup /\ destroyed
    <3>1. ASSUME NEW e \in Stranded(s)' PROVE FALSE
      <4>1. e \in pel' /\ StreamOf(e) = s
        BY <3>1 DEF Stranded
      <4>2. e \in Entries(s)
        BY <4>1, PendingExists, ExistingEntry
      <4> QED
        BY <2>1, <2>3, <2>4, <4>1, <4>2
    <3> QED
      BY <3>1
  <2>5. CASE s[1] = setup /\ ~destroyed
    <3>1. faults' = faults + 1 /\ pel' = pel
      BY <2>1, <2>5 DEF Fault
    <3>2. Unswept(s) /\ ~Unswept(s)'
      BY <2>2, <2>3, <2>5 DEF Unswept, Gu
    <3>3. Allowed(s)' = Allowed(s)
      BY <1>0, <3>1, <3>2 DEF Allowed
    <3>4. Allowed(s) \in Nat
      BY <1>0 DEF Allowed
    <3> QED
      BY <1>0, <2>2, <3>1, <3>3, <3>4 DEF Stranded
  <2>6. CASE s[1] # setup
    <3>1. Unswept(s)' = Unswept(s)
      BY <2>2, <2>3, <2>6, BoundsAssumption DEF Unswept, Gu
    <3>2. Allowed(s) <= Allowed(s)'
      BY <1>0, <3>1 DEF Allowed
    <3> QED
      BY <1>0, <2>1, <2>2, <3>2 DEF Stranded
  <2> QED
    BY <2>4, <2>5, <2>6
<1>4. CASE Read
  <2>1. pc["redis"] = "loop" /\ pc' = pc /\ faults' = faults /\ InHand' = FreshAll /\ InHand = {}
        /\ pel' = pel \cup FreshAll
    BY <1>4 DEF Read, Deliver, InHand
  <2> QED
    BY <1>0, <2>1 DEF Stranded, Allowed, Unswept
<1>5. CASE ReadLost
  <2>1. /\ Deliver /\ pc["redis"] = "loop" /\ pc' = pc /\ faults' = faults + 1 /\ InHand' = InHand
        /\ pel' = pel \cup FreshAll
    BY <1>5 DEF ReadLost, Deliver, InHand, proc, Fault
  <2>2. Stranded(s)' \subseteq Stranded(s) \cup {e \in FreshAll : StreamOf(e) = s}
    BY <1>0, <2>1 DEF Stranded
  <2>3. Allowed(s) + Count <= Allowed(s)'
    BY <1>0, <2>1 DEF Allowed, Unswept
  <2> QED
    BY <2>1, <2>2, <2>3
<1>6. CASE SkipEntry
  <2>1. PICK d \in todo : Content(d) = Empty /\ todo' = todo \ {d}
    BY <1>6 DEF SkipEntry
  <2>2. pc["redis"] = "loop" /\ pc' = pc /\ faults' = faults /\ pel' = pel /\ InHand' = InHand \ {d}
    BY <1>6, <2>1 DEF SkipEntry, queue, InHand
  <2> QED
    BY <1>0, <2>1, <2>2 DEF Stranded, Allowed, Unswept
<1>7. CASE TakeEntry
  BY <1>1, <1>7 DEF TakeEntry, queue, InHand, Unswept, TypeOK, Worker
<1>8. CASE Ack
  <2>1. /\ pc["redis"] = "ack" /\ pc'["redis"] = "loop" /\ faults' = faults
        /\ pel' = pel \ {entry} /\ InHand' = todo
    BY <1>8 DEF Ack, Leave, InHand, TypeOK, Worker
  <2> QED
    BY <1>0, <2>1 DEF Stranded, Allowed, Unswept, InHand
<1>9. CASE AckError \/ AgentRaises("redis")
  <2>1. pel' \subseteq pel /\ Fault
    BY <1>9 DEF AckError, AgentRaises, queue
  <2>2. pc["redis"] \in {"ack", "agent"} /\ pc'["redis"] = "loop"
    BY <1>9 DEF AckError, AgentRaises, Leave, TypeOK, Worker
  <2>3. Unswept(s)' = Unswept(s)
    BY <2>2 DEF Unswept
  <2> QED
    BY <1>2, <2>1, <2>3
<1>10. CASE Crash
  <2>1. /\ pel' = pel /\ faults' = faults /\ Unswept(s)'
    BY <1>10 DEF Crash, queue, Unswept, Worker
  <2>2. CASE Unswept(s)
    <3>1. InHand' = InHand
      BY <1>10, <2>2 DEF Crash, InHand, Unswept, Worker
    <3> QED
      BY <1>1, <2>1, <2>2, <3>1
  <2>3. CASE ~Unswept(s)
    <3>1. Allowed(s) + Count <= Allowed(s)'
      BY <1>0, <2>1, <2>3 DEF Allowed
    <3> QED
      BY <1>0, <2>1, <3>1 DEF Stranded
  <2> QED
    BY <2>2, <2>3
<1>11. CASE Restart
  <2>1. /\ pel' = pel /\ faults' = faults /\ Unswept(s) /\ Unswept(s)'
    BY <1>11, BoundsAssumption DEF Restart, Up, queue, Unswept, TypeOK, Worker, Watched, Stream, Gu
  <2>2. InHand' = InHand
    BY <1>11 DEF Restart, Up, InHand, Worker
  <2> QED
    BY <1>1, <2>1, <2>2
<1>12. CASE pel' = pel /\ InHand' = InHand /\ Unswept(s)' = Unswept(s)
  BY <1>1, <1>12
<1> QED
  <2> USE <1>12 DEF TypeOK, Worker, InHand, Unswept
  <2>1. CASE Handle("mysql")
    BY <2>1 DEF Handle, CheckNew, CheckDup, CheckError, AgentCompletes, AgentRaises, Settle, Goto,
               Leave, DropBatch, queue
  <2>2. CASE Handle("redis") /\ ~AgentRaises("redis")
    BY <2>2 DEF Handle, CheckNew, CheckDup, CheckError, AgentCompletes, Settle, Goto, queue
  <2>3. CASE Poll \/ TakeRow
    BY <2>3 DEF Poll, TakeRow, queue
  <2>4. CASE Publish \/ InsertNotice \/ PhaseAdvance \/ KeyExpires \/ DayTurn \/ UNCHANGED vars
    BY <2>4 DEF Publish, InsertNotice, PhaseAdvance, KeyExpires, DayTurn, queue, proc, vars
  <2> HIDE <1>12
  <2> HIDE DEF TypeOK, Worker, InHand, Unswept
  <2> QED
    BY <1>3, <1>4, <1>5, <1>6, <1>7, <1>8, <1>9, <1>10, <1>11, <2>1, <2>2, <2>3, <2>4
       DEF Next, Redis, Mysql, Environment

(* Every step keeps the invariant of the pending entries.                  *)
LEMMA PendingStep ==
    ASSUME PendingInv, [Next]_vars
    PROVE  PendingInv'
<1> USE DEF PendingInv
<1>1. /\ TypeOK' /\ watched' <= today' /\ \A e \in pel' : Exists(e)' /\ e[2] <= watched'
      /\ pc'["redis"] = "setup" => setup' \in Gu
      /\ pc'["redis"] \in {"down", "setup"} => todo' = {}
  BY TypeStep, PendingExists, HandsStep
<1>2. ASSUME NEW s \in Stream PROVE OneBatch({e \in InHand' : StreamOf(e) = s})
  <2>1. CASE InHand' \subseteq InHand
    BY <2>1 DEF OneBatch
  <2>2. CASE Read /\ InHand' = FreshAll
    BY <2>2, FreshBatch DEF Read
  <2> QED
    BY <2>1, <2>2, HandsStep
<1>3. ASSUME ModelBound, NEW s \in Watched' PROVE Cardinality(Stranded(s)') <= Allowed(s)'
  <2>0. s \in Stream /\ faults \in Nat /\ faults' \in Nat /\ Count \in Nat
        /\ Count * faults \in Nat /\ Count * faults' \in Nat
    <3>1. s \in Stream /\ faults \in Nat /\ faults' \in Nat /\ Count \in Nat
      BY <1>1, BoundsAssumption DEF Watched, TypeOK, Stream
    <3> QED
      BY <3>1, AllowedMore
  <2>1. Allowed(s) \in Nat /\ Allowed(s)' \in Nat
    <3>1. Allowed(s) \in {Count * faults, Count * faults + Count}
      BY <2>0 DEF Allowed
    <3>2. Allowed(s)' \in {Count * faults', Count * faults' + Count}
      BY <2>0 DEF Allowed
    <3> QED
      BY <2>0, <3>1, <3>2
  <2>2. Cardinality({}) = 0
    BY FS_EmptySet
  <2>3. CASE watched' # watched
    <3>1. Restart
      BY <2>3 DEF Next, Redis, Mysql, Environment, Handle, SetupGroup, Read, ReadLost, SkipEntry,
         TakeEntry, Poll, TakeRow, CheckNew, CheckDup, CheckError, AgentCompletes, AgentRaises,
         Ack, AckError, InsertNotice, PhaseAdvance, Publish, KeyExpires, DayTurn, Crash,
         clock, proc, vars
    <3>2. watched' = today /\ pel' = pel /\ watched \in Nat /\ today \in Nat
      BY <3>1, BoundsAssumption DEF Restart, queue, TypeOK, Day
    <3>3. ASSUME NEW e \in pel, StreamOf(e) = s PROVE FALSE
      <4>1. e[2] <= watched /\ e[2] = today
        BY <3>2, <3>3 DEF StreamOf, Watched
      <4> QED
        BY <2>3, <3>2, <4>1
    <3>4. Stranded(s)' = {}
      BY <3>2, <3>3 DEF Stranded
    <3> QED
      BY <2>1, <2>2, <3>4
  <2>4. CASE watched' = watched
    <3>0. s \in Watched
      BY <2>4 DEF Watched
    <3>1. /\ IsFiniteSet(Stranded(s)) /\ Cardinality(Stranded(s)) \in Nat
          /\ Cardinality(Stranded(s)) <= Allowed(s)
      BY <1>3, <2>0, <3>0, StrandedFinite, FS_CardinalityType
    <3>2. CASE Stranded(s)' \subseteq Stranded(s) /\ Allowed(s) <= Allowed(s)'
      <4>1. Stranded(s)' \in SUBSET Stranded(s)
        BY <3>2
      <4>2. /\ Cardinality(Stranded(s)') \in Nat
            /\ Cardinality(Stranded(s)') <= Cardinality(Stranded(s))
        BY <3>1, <4>1, FS_Subset, FS_CardinalityType
      <4> QED
        BY <2>1, <3>1, <3>2, <4>2
    <3>3. CASE Stranded(s)' = {}
      BY <2>1, <2>2, <3>3
    <3>4. ASSUME NEW B, OneBatch(B), \A e \in B : e \in Entry /\ StreamOf(e) = s,
                 Stranded(s)' \subseteq Stranded(s) \cup B, Allowed(s) + Count <= Allowed(s)'
          PROVE  Cardinality(Stranded(s)') <= Allowed(s)'
      <4>1. Cardinality(Stranded(s)') <= Cardinality(Stranded(s)) + Count
        BY <3>1, <3>4, BatchMore
      <4>2. IsFiniteSet(Stranded(s)') /\ Cardinality(Stranded(s)') \in Nat
        <5>1. IsFiniteSet(B)
          BY <3>4, BatchSize
        <5>2. IsFiniteSet(Stranded(s) \cup B) /\ Stranded(s)' \in SUBSET (Stranded(s) \cup B)
          BY <3>1, <3>4, <5>1, FS_Union
        <5> QED
          BY <5>2, FS_Subset, FS_CardinalityType
      <4> QED
        BY <2>0, <2>1, <3>1, <3>4, <4>1, <4>2
    <3>5. /\ OneBatch({e \in InHand \cap pel : StreamOf(e) = s})
          /\ \A e \in {e \in InHand \cap pel : StreamOf(e) = s} : e \in Entry /\ StreamOf(e) = s
      <4>1. OneBatch({e \in InHand : StreamOf(e) = s})
        BY <2>0
      <4> QED
        BY <4>1 DEF OneBatch, TypeOK
    <3>6. CASE /\ Stranded(s)' \subseteq Stranded(s) \cup {e \in InHand \cap pel : StreamOf(e) = s}
               /\ Allowed(s) + Count <= Allowed(s)'
      BY <3>4, <3>5, <3>6
    <3>7. CASE /\ Deliver
               /\ Stranded(s)' \subseteq Stranded(s) \cup {e \in FreshAll : StreamOf(e) = s}
               /\ Allowed(s) + Count <= Allowed(s)'
      <4>1. /\ OneBatch({e \in FreshAll : StreamOf(e) = s})
            /\ \A e \in {e \in FreshAll : StreamOf(e) = s} : e \in Entry /\ StreamOf(e) = s
        BY <2>0, <3>7, FreshBatch
      <4> QED
        BY <3>4, <3>7, <4>1
    <3> QED
      BY <1>3, <2>4, <3>0, <3>2, <3>3, <3>6, <3>7, StrandStep
  <2> QED
    BY <2>3, <2>4
<1> QED
  BY <1>1, <1>2, <1>3

(* A failed call strands at most one batch of each stream, and nothing     *)
(* else does, for any number of districts, reads, crashes and restarts.    *)
THEOREM StrandedBounded == Spec => []StrandedPerFault
<1>1. Init => PendingInv
  <2> SUFFICES ASSUME Init PROVE PendingInv
    OBVIOUS
  <2>1. TypeOK
    BY BoundsAssumption DEF Init, TypeOK, Stream, Day, Gu, Worker, Pc, Payload, Entry
  <2>2. /\ pel = {} /\ InHand = {} /\ todo = {} /\ watched = 1 /\ today = 1
        /\ pc["redis"] = "setup" /\ setup \in Gu
    BY BoundsAssumption DEF Init, InHand, Worker, Gu
  <2>3. \A s \in Stream : OneBatch({e \in InHand : StreamOf(e) = s})
    BY <2>2 DEF OneBatch
  <2>4. ASSUME NEW s \in Watched PROVE Cardinality(Stranded(s)) <= Allowed(s)
    <3>1. Stranded(s) = {}
      BY <2>2 DEF Stranded
    <3>2. Allowed(s) \in Nat
      BY AllowedMore, BoundsAssumption DEF Init, Allowed
    <3> QED
      BY <3>1, <3>2, FS_EmptySet
  <2> QED
    BY <2>1, <2>2, <2>3, <2>4 DEF PendingInv
<1>2. PendingInv => StrandedPerFault
  <2> SUFFICES ASSUME PendingInv, ModelBound, pc["redis"] \notin {"down", "setup"},
                      NEW s \in Watched
               PROVE  Cardinality(Stranded(s)) <= Count * faults
    BY DEF StrandedPerFault
  <2>1. Allowed(s) = Count * faults
    <3>1. Count * faults \in Nat
      BY AllowedMore, BoundsAssumption DEF PendingInv, TypeOK
    <3> QED
      BY <3>1 DEF Allowed, Unswept
  <2> QED
    BY <2>1 DEF PendingInv
<1> QED
  BY <1>1, <1>2, PendingStep, PTL DEF Spec
=============================================================================
