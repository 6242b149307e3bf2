----------------------------- MODULE Scheduler ------------------------------
(***************************************************************************)
(* services/unified_indexing.py: the periodic indexing scheduler of        *)
(* UnifiedIndexingEngine, the module-wide engine of get_indexing_engine(), *)
(* and the two tools that reach it: the indexing tool of api/tools.py and  *)
(* dispatch_indexing of api/orchestration.py.                              *)
(*                                                                         *)
(* An engine has a flag, a handle of its loop's thread and, over time,     *)
(* several loops.  The join of stop_scheduler may time out, because a run  *)
(* of the indexer or a nap takes longer than 10 s.                         *)
(***************************************************************************)
EXTENDS Naturals, FiniteSets

CONSTANTS
    Engines,      \* UnifiedIndexingEngine objects
    Loops,        \* threads over _scheduler_loop
    Tools,        \* threads that serve tool calls: one, that of the event loop
    Nobody        \* no engine, no loop

ASSUME SchedulerAssumption ==
    /\ Nobody \notin Engines \cup Loops
    /\ \A t, u \in Tools : t = u

VARIABLES
    created,      \* engines made so far
    engine,       \* the module's _engine
    running,      \* _scheduler_running of each engine
    handle,       \* _scheduler_thread of each engine
    owner,        \* the engine of each loop
    lpc,          \* program point of each loop
    tpc,          \* program point of each tool call
    reached,      \* the engine it works on
    abandoned     \* history: loops a stop did not see the end of

schedulerVars == <<created, engine, running, handle, owner, lpc, tpc, reached, abandoned>>
loopVars == <<owner, lpc>>
toolVars == <<tpc, reached>>

LiveLoop(l) == lpc[l] \in {"head", "run", "nap"}

SchedulerInit ==
    /\ created = {}
    /\ engine = Nobody
    /\ running = [e \in Engines |-> FALSE]
    /\ handle = [e \in Engines |-> Nobody]
    /\ owner = [l \in Loops |-> Nobody]
    /\ lpc = [l \in Loops |-> "none"]
    /\ tpc = [t \in Tools |-> "idle"]
    /\ reached = [t \in Tools |-> Nobody]
    /\ abandoned = {}

-----------------------------------------------------------------------------
(* get_indexing_engine(): without an orchestrator the engine there is, if  *)
(* there is one; with one, as dispatch_indexing calls it, always a new one.*)
GetEngine(t, point) ==
    /\ tpc[t] = "idle"
    /\ tpc' = [tpc EXCEPT ![t] = point]
    /\ \E e \in Engines :
          /\ \/ e = engine
             \/ e \notin created
          /\ engine' = e
          /\ created' = created \cup {e}
          /\ reached' = [reached EXCEPT ![t] = e]
    /\ UNCHANGED <<running, handle, loopVars, abandoned>>

\* The bound of the model: a start is called while threads are left for it.
CallStart(t) ==
    /\ Cardinality({u \in Tools : tpc[u] \in {"start", "launch"}})
          < Cardinality({l \in Loops : lpc[l] = "none"})
    /\ GetEngine(t, "start")
CallStop(t) == GetEngine(t, "stop")

ReturnTool(t) ==
    /\ tpc' = [tpc EXCEPT ![t] = "idle"]
    /\ reached' = [reached EXCEPT ![t] = Nobody]

(* start_scheduler: the test of the flag ... *)
TestFlag(t) ==
    /\ tpc[t] = "start"
    /\ IF running[reached[t]]
       THEN ReturnTool(t)
       ELSE tpc' = [tpc EXCEPT ![t] = "launch"] /\ UNCHANGED reached
    /\ UNCHANGED <<created, engine, running, handle, loopVars, abandoned>>

(* ... and the new thread. *)
LaunchLoop(t) ==
    /\ tpc[t] = "launch"
    /\ \E l \in Loops :
          /\ lpc[l] = "none"
          /\ lpc' = [lpc EXCEPT ![l] = "head"]
          /\ owner' = [owner EXCEPT ![l] = reached[t]]
          /\ handle' = [handle EXCEPT ![reached[t]] = l]
    /\ running' = [running EXCEPT ![reached[t]] = TRUE]
    /\ ReturnTool(t)
    /\ UNCHANGED <<created, engine, abandoned>>

(* stop_scheduler. *)
LowerFlag(t) ==
    /\ tpc[t] = "stop"
    /\ IF running[reached[t]]
       THEN /\ running' = [running EXCEPT ![reached[t]] = FALSE]
            /\ tpc' = [tpc EXCEPT ![t] = "join"]
            /\ UNCHANGED reached
       ELSE ReturnTool(t) /\ UNCHANGED running
    /\ UNCHANGED <<created, engine, handle, loopVars, abandoned>>

\* Mutant: the handle is dropped without waiting.
Unjoined(t) ==
    /\ tpc[t] = "join"
    /\ handle' = [handle EXCEPT ![reached[t]] = Nobody]
    /\ ReturnTool(t)
    /\ UNCHANGED <<created, engine, running, loopVars, abandoned>>

(* join(timeout=10): the loop has ended, or is given up. *)
Joined(t) ==
    /\ tpc[t] = "join"
    /\ LET l == handle[reached[t]]
       IN  abandoned' = IF l # Nobody /\ LiveLoop(l) THEN abandoned \cup {l} ELSE abandoned
    /\ handle' = [handle EXCEPT ![reached[t]] = Nobody]
    /\ ReturnTool(t)
    /\ UNCHANGED <<created, engine, running, loopVars>>

-----------------------------------------------------------------------------
(* _scheduler_loop. *)
LoopGoto(l, point) ==
    /\ lpc' = [lpc EXCEPT ![l] = point]
    /\ UNCHANGED <<created, engine, running, handle, owner, toolVars, abandoned>>

\* Mutant: the flag is read once, when the loop begins.
TestOnce(l) == lpc[l] = "head" /\ LoopGoto(l, "run")

TestRunning(l) ==
    /\ lpc[l] = "head"
    /\ LoopGoto(l, IF running[owner[l]] THEN "run" ELSE "ended")

(* index() has returned or raised; both are logged. *)
RunOver(l) == lpc[l] = "run" /\ LoopGoto(l, "nap")

(* The naps of 10 s are over, or one found the flag lowered. *)
NapOver(l) == lpc[l] = "nap" /\ LoopGoto(l, "head")

LoopStep(l) == TestRunning(l) \/ RunOver(l) \/ NapOver(l)
ToolStep(t) == TestFlag(t) \/ LaunchLoop(t) \/ LowerFlag(t) \/ Joined(t)

SchedulerNext ==
    \/ \E t \in Tools : CallStart(t) \/ CallStop(t) \/ ToolStep(t)
    \/ \E l \in Loops : LoopStep(l)

SchedulerFairness == \A l \in Loops : WF_schedulerVars(LoopStep(l))
SchedulerSpec == SchedulerInit /\ [][SchedulerNext]_schedulerVars /\ SchedulerFairness

-----------------------------------------------------------------------------
(* Type correctness. *)
SchedulerTypeOK ==
    /\ created \subseteq Engines
    /\ engine \in created \cup {Nobody}
    /\ running \in [Engines -> BOOLEAN]
    /\ handle \in [Engines -> Loops \cup {Nobody}]
    /\ owner \in [Loops -> Engines \cup {Nobody}]
    /\ lpc \in [Loops -> {"none", "head", "run", "nap", "ended"}]
    /\ tpc \in [Tools -> {"idle", "start", "launch", "stop", "join"}]
    /\ reached \in [Tools -> Engines \cup {Nobody}]
    /\ abandoned \subseteq Loops

(* A loop nobody holds a handle of is one that stop_scheduler gave up on:  *)
(* start and stop, called one after the other, never lose a loop in any    *)
(* other way, and an engine has two loops only after such a stop.          *)
NoLoopIsLost ==
    \A l \in Loops : LiveLoop(l) => handle[owner[l]] = l \/ l \in abandoned

(* The loops of an engine that is stopped and not started again end, the   *)
(* ones stop_scheduler gave up on included.                                *)
StoppedLoopsEnd ==
    \A e \in Engines :
        <>[]~running[e] => <>[](\A l \in Loops : owner[l] = e => ~LiveLoop(l))
=============================================================================
