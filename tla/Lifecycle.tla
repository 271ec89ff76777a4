----------------------------- MODULE Lifecycle -----------------------------
(***************************************************************************)
(* Start and stop of the process, in its two forms: the server (main.py,   *)
(* whose lifespan uvicorn drives) and the daemon (run_pipeline.py under    *)
(* asyncio.run).  Both open the connections of config.py, load the maps,   *)
(* prepare the graph and start four tasks; the consumer among them starts  *)
(* the patrol, which nobody keeps a reference to.                          *)
(***************************************************************************)
EXTENDS Integers, FiniteSets, Sequences, SequencesExt

CONSTANTS MaxSignals, MaxFailures \* bounds

ASSUME LimitsAssumption == MaxSignals \in Nat /\ MaxFailures \in Nat

VARIABLES
    mode,     \* "server" or "daemon"
    main,     \* where lifespan or main is
    up,       \* the connections that are open
    step,     \* how many steps of the preparation are done
    task,     \* the state of each task
    shut,     \* where the daemon's shutdown task is
    signals,  \* signals so far
    failures  \* calls of start and stop that raised so far

lifecycle == <<mode, main, up, step, task, shut, signals, failures>>

OpenOrder  == <<"tunnel_redis", "tunnel_neo4j", "tunnel_mysql", "redis", "neo4j", "mysql">>
CloseOrder == <<"redis", "neo4j", "mysql", "tunnel_redis", "tunnel_neo4j", "tunnel_mysql">>
Connection == ToSet(OpenOrder)

Started == {"stream", "notice", "consumer", "cleaner"}
Task    == Started \cup {"patrol"}

(* The server empties the graph of incidents; the daemon drops and builds  *)
(* the three projections.                                                  *)
Steps == [server |-> <<"wipe">>,
          daemon |-> <<"drop1", "drop2", "drop3", "build1", "build2", "build3">>]
Doing == IF step < Len(Steps[mode]) THEN Steps[mode][step + 1] ELSE "done"

LifecycleInit ==
    /\ mode \in {"server", "daemon"} /\ main = "open" /\ up = {} /\ step = 0
    /\ task = [t \in Task |-> "off"] /\ shut = "none" /\ signals = 0 /\ failures = 0

Fail == failures < MaxFailures /\ failures' = failures + 1

-----------------------------------------------------------------------------
(* init_db_connections: an exception is logged and raised again, and ends  *)
(* the start; what is open by then stays open.                             *)
Opened(n) == {OpenOrder[i] : i \in 1 .. n}

OpenOne(n) ==
    /\ up = Opened(n - 1) /\ up' = up \cup {OpenOrder[n]}
    /\ main' = IF n = Len(OpenOrder) THEN "load" ELSE main
    /\ UNCHANGED failures

MUT_Swallowed ==
    /\ main = "open"
    /\ \/ \E n \in DOMAIN OpenOrder : OpenOne(n)
       \/ Fail /\ main' = "load" /\ UNCHANGED up
    /\ UNCHANGED <<mode, step, task, shut, signals>>

Open ==
    /\ main = "open"
    /\ \/ \E n \in DOMAIN OpenOrder : OpenOne(n)
       \/ Fail /\ main' = "failed" /\ UNCHANGED up
    /\ UNCHANGED <<mode, step, task, shut, signals>>

(* init_gdf; after it the daemon has its signal handlers.                  *)
Load ==
    /\ main = "load"
    /\ \/ main' = "prepare" /\ UNCHANGED failures
       \/ Fail /\ main' = "failed"
    /\ UNCHANGED <<mode, up, step, task, shut, signals>>

(* One step of the preparation.                                            *)
Prepare ==
    /\ main = "prepare" /\ Doing # "done" /\ step' = step + 1
    /\ UNCHANGED <<mode, main, up, task, shut, signals, failures>>

MUT_BuildSwallowed ==
    /\ main = "prepare" /\ Doing # "done" /\ step' = step + 1
    /\ UNCHANGED <<mode, main, up, task, shut, signals>>

(* It raises: the wipe and the drops go on, a build ends the start.        *)
PrepareRaises ==
    /\ main = "prepare" /\ Doing # "done"
    /\ IF Doing \in {"build1", "build2", "build3"}
       THEN main' = "failed" /\ UNCHANGED step
       ELSE step' = step + 1 /\ UNCHANGED main
    /\ UNCHANGED <<mode, up, task, shut, signals>>

Spawn ==
    /\ main = "prepare" /\ Doing = "done" /\ main' = "run"
    /\ task' = [t \in Task |-> IF t \in Started THEN "on" ELSE "off"]
    /\ UNCHANGED <<mode, up, step, shut, signals, failures>>

SpawnPatrol ==
    /\ task["consumer"] = "on" /\ task["patrol"] = "off"
    /\ task' = [task EXCEPT !["patrol"] = "on"]
    /\ UNCHANGED <<mode, main, up, step, shut, signals, failures>>

-----------------------------------------------------------------------------
(* Each signal makes one more shutdown task in the daemon, which cancels   *)
(* all the others, the earlier shutdown among them, and waits for them;    *)
(* uvicorn resumes the lifespan once.                                      *)
Cancelled(ts) == [t \in Task |-> IF t \in ts /\ task[t] = "on" THEN "cancelled" ELSE task[t]]

Signal ==
    /\ signals < MaxSignals /\ signals' = signals + 1
    /\ CASE mode = "server" -> /\ main = "run" /\ main' = "close" /\ UNCHANGED <<task, shut>>
         [] mode = "daemon" -> /\ main \in {"prepare", "run", "cancelled"}
                               /\ main' = "cancelled" /\ task' = Cancelled(Task) /\ shut' = "wait"
    /\ UNCHANGED <<mode, up, step, failures>>

(* A cancelled task leaves its loop.                                       *)
End(t) ==
    /\ task[t] = "cancelled" /\ task' = [task EXCEPT ![t] = "off"]
    /\ UNCHANGED <<mode, main, up, step, shut, signals, failures>>

(* main waits in a gather over the four tasks, or wherever it prepares.    *)
MainReturns ==
    /\ main = "cancelled" /\ \A t \in Started : task[t] = "off"
    /\ main' = "returned"
    /\ UNCHANGED <<mode, up, step, task, shut, signals, failures>>

(* The end of main stops the event loop, and asyncio.run cancels what is   *)
(* left in it.  The shutdown task waits for main among others, so it is    *)
(* still waiting: it could go on in the next round of the loop, which      *)
(* there is not, and it never comes to close_db_connections.               *)
RunnerCancels ==
    /\ main = "returned" /\ main' = "exited" /\ shut' = "none"
    /\ task' = [t \in Task |-> "off"]
    /\ UNCHANGED <<mode, up, step, signals, failures>>

-----------------------------------------------------------------------------
(* The lifespan closes the connections while the tasks run.  If that       *)
(* raises, uvicorn ends and with it the loop.                              *)
StillOpen(n) == {CloseOrder[i] : i \in n .. Len(CloseOrder)}

CloseOne(n, last) ==
    /\ up = StillOpen(n) /\ up' = up \ {CloseOrder[n]}
    /\ main' = IF n = last THEN "cancel" ELSE main
    /\ UNCHANGED <<failures, task>>

MUT_OnlyClients ==
    /\ main = "close"
    /\ \/ \E n \in DOMAIN CloseOrder : CloseOne(n, 3)
       \/ Fail /\ main' = "exited" /\ task' = [t \in Task |-> "off"] /\ UNCHANGED up
    /\ UNCHANGED <<mode, step, shut, signals>>

Close ==
    /\ main = "close"
    /\ \/ \E n \in DOMAIN CloseOrder : CloseOne(n, Len(CloseOrder))
       \/ Fail /\ main' = "exited" /\ task' = [t \in Task |-> "off"] /\ UNCHANGED up
    /\ UNCHANGED <<mode, step, shut, signals>>

CancelTasks ==
    /\ main = "cancel" /\ main' = "gather" /\ task' = Cancelled(Started)
    /\ UNCHANGED <<mode, up, step, shut, signals, failures>>

(* The patrol is in nobody's list; it runs until the loop ends.            *)
MUT_WaitForAll ==
    /\ main = "gather" /\ \A t \in Task : task[t] = "off" /\ main' = "exited"
    /\ UNCHANGED <<mode, up, step, task, shut, signals, failures>>

Gathered ==
    /\ main = "gather" /\ \A t \in Started : task[t] = "off"
    /\ main' = "exited" /\ task' = [t \in Task |-> "off"]
    /\ UNCHANGED <<mode, up, step, shut, signals, failures>>

Starting == Open \/ Load \/ Spawn \/ SpawnPatrol
Stopping == \/ \E t \in Task : End(t)
            \/ MainReturns \/ RunnerCancels \/ Close \/ CancelTasks \/ Gathered
=============================================================================
