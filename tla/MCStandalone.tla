---------------------------- MODULE MCStandalone ----------------------------
(***************************************************************************)
(* Model-checking instance of the components that run as services of one   *)
(* process or beside it and share no state with each other: a behaviour is *)
(* one of a single component, while the others stay in their initial       *)
(* states, in which nothing of theirs is enabled that has a fairness       *)
(* condition.                                                              *)
(***************************************************************************)
EXTENDS Indexing, Scheduler, Relay, BackgroundTasks, Watcher, FileWriter, TLC

CONSTANTS s1, s2, r1, e1, e2, l1, l2, l3, tool, t1, t2, q1, a1, f1, f2, h1, h2,
          k1, k2, k3, p1, p2, p3, none

TwoSources     == {s1, s2}
OneRequest     == {r1}
TwoEngines     == {e1, e2}
ThreeLoops     == {l1, l2, l3}
OneTool        == {tool}
TwoTunnels     == {t1, t2}
OneTunnel      == {t1}
OneQaTask      == {q1}
OneTesterTask  == {a1}
TwoFiles       == {f1, f2}
TwoHandlers    == {h1, h2}
ThreeWrites    == {k1, k2, k3}
TwoCreates     == {k1, k2}
ThreeProcesses == {p1, p2, p3}

VARIABLE part       \* the component that runs

engineVars == <<indexingVars, schedulerVars>>
otherVars  == <<relayVars, backgroundVars, watcherVars, writerVars>>
vars       == <<part, engineVars, otherVars>>

\* Which calls of the writer have a process in common, processes renamed.
Sharing == [k1 : {p1}, k2 : {p1, p2}, k3 : ThreeProcesses]
Assignments == {[w \in Writes |-> IF w = k1 THEN s.k1 ELSE IF w = k2 THEN s.k2 ELSE s.k3] : s \in Sharing}

Init ==
    /\ IndexingInit /\ SchedulerInit
    /\ RelayInit /\ BackgroundInit /\ WatcherInit /\ WriterInit
    /\ part \in {"indexing", "scheduler", "relay", "background", "watcher", "writer"}
    /\ (part # "indexing" => git)
    /\ process \in IF part = "writer" THEN Assignments ELSE {[w \in Writes |-> p1]}

NextOf(name, next) == part = name /\ next /\ UNCHANGED part

Next ==
    \/ NextOf("indexing", IndexingNext)     /\ UNCHANGED <<schedulerVars, otherVars>>
    \/ NextOf("scheduler", SchedulerNext)   /\ UNCHANGED <<indexingVars, otherVars>>
    \/ NextOf("relay", RelayNext)           /\ UNCHANGED <<engineVars, backgroundVars, watcherVars, writerVars>>
    \/ NextOf("background", BackgroundNext) /\ UNCHANGED <<engineVars, relayVars, watcherVars, writerVars>>
    \/ NextOf("watcher", WatcherNext)       /\ UNCHANGED <<engineVars, relayVars, backgroundVars, writerVars>>
    \/ NextOf("writer", WriterNext)         /\ UNCHANGED <<engineVars, relayVars, backgroundVars, watcherVars>>

Spec == /\ Init /\ [][Next]_vars
        /\ IndexingFairness /\ SchedulerFairness
        /\ BackgroundFairness /\ WatcherFairness

(* Type correctness of every component. *)
TypeOK ==
    /\ IndexingTypeOK /\ SchedulerTypeOK
    /\ RelayTypeOK /\ BackgroundTypeOK /\ WatcherTypeOK /\ WriterTypeOK
=============================================================================
