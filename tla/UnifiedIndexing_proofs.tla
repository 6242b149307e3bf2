----------------------- MODULE UnifiedIndexing_proofs -----------------------
(***************************************************************************)
(* Theorems about services/unified_indexing.py: about Scheduler, for any   *)
(* number of engines and loops, and about Indexing, for any number of      *)
(* files and requests.                                                     *)
(***************************************************************************)
EXTENDS Scheduler, Indexing, FiniteSetTheorems, TLAPS

-----------------------------------------------------------------------------
(* Scheduler: type correctness.                                            *)

\* A call works on an engine.
CallsReach == \A t \in Tools : tpc[t] # "idle" => reached[t] \in Engines

(* Every variable of the scheduler keeps its type.                         *)
THEOREM SchedulerTypeCorrect == SchedulerSpec => [](SchedulerTypeOK /\ CallsReach)
  <1>1. SchedulerInit => SchedulerTypeOK /\ CallsReach
    BY DEF SchedulerInit, SchedulerTypeOK, CallsReach
  <1>2. SchedulerTypeOK /\ CallsReach /\ [SchedulerNext]_schedulerVars => SchedulerTypeOK'
    <2>. SUFFICES ASSUME SchedulerTypeOK, CallsReach, [SchedulerNext]_schedulerVars
                  PROVE  SchedulerTypeOK'
      OBVIOUS
    <2>. USE DEF SchedulerTypeOK, loopVars, toolVars
    <2>1. ASSUME NEW t \in Tools, CallStart(t) \/ CallStop(t)
          PROVE  SchedulerTypeOK'
      <3>1. PICK point \in {"start", "stop"} : GetEngine(t, point)
        BY <2>1 DEF CallStart, CallStop
      <3>. QED
        BY <3>1 DEF GetEngine
    <2>2. ASSUME NEW t \in Tools, TestFlag(t)
          PROVE  SchedulerTypeOK'
      BY <2>2 DEF TestFlag, ReturnTool
    <2>3. ASSUME NEW t \in Tools, LaunchLoop(t)
          PROVE  SchedulerTypeOK'
      <3>1. PICK l \in Loops : /\ lpc' = [lpc EXCEPT ![l] = "head"]
                               /\ owner' = [owner EXCEPT ![l] = reached[t]]
                               /\ handle' = [handle EXCEPT ![reached[t]] = l]
        BY <2>3 DEF LaunchLoop
      <3>2. lpc' \in [Loops -> {"none", "head", "run", "nap", "ended"}]
        BY <3>1
      <3>3. owner' \in [Loops -> Engines \cup {Nobody}] /\ handle' \in [Engines -> Loops \cup {Nobody}]
        BY <3>1
      <3>4. /\ running' \in [Engines -> BOOLEAN]
            /\ tpc' \in [Tools -> {"idle", "start", "launch", "stop", "join"}]
            /\ reached' \in [Tools -> Engines \cup {Nobody}]
        BY <2>3 DEF LaunchLoop, ReturnTool
      <3>. QED
        BY <2>3, <3>2, <3>3, <3>4 DEF LaunchLoop
    <2>4. ASSUME NEW t \in Tools, LowerFlag(t)
          PROVE  SchedulerTypeOK'
      BY <2>4 DEF LowerFlag, ReturnTool
    <2>5. ASSUME NEW t \in Tools, Joined(t)
          PROVE  SchedulerTypeOK'
      <3>1. handle' \in [Engines -> Loops \cup {Nobody}]
        BY <2>5 DEF Joined
      <3>2. /\ tpc' \in [Tools -> {"idle", "start", "launch", "stop", "join"}]
            /\ reached' \in [Tools -> Engines \cup {Nobody}]
        BY <2>5 DEF Joined, ReturnTool
      <3>3. handle[reached[t]] \in Loops \cup {Nobody}
        BY <2>5 DEF Joined, CallsReach
      <3>4. abandoned' \subseteq Loops
        BY <2>5, <3>3 DEF Joined
      <3>. QED
        BY <2>5, <3>1, <3>2, <3>4 DEF Joined
    <2>6. ASSUME NEW l \in Loops, LoopStep(l)
          PROVE  SchedulerTypeOK'
      BY <2>6 DEF LoopStep, TestRunning, RunOver, NapOver, LoopGoto
    <2>7. CASE UNCHANGED schedulerVars
      BY <2>7 DEF schedulerVars
    <2>. QED
      BY <2>1, <2>2, <2>3, <2>4, <2>5, <2>6, <2>7 DEF SchedulerNext, ToolStep
  <1>3. SchedulerTypeOK /\ CallsReach /\ [SchedulerNext]_schedulerVars => CallsReach'
    <2>. SUFFICES ASSUME SchedulerTypeOK, CallsReach, [SchedulerNext]_schedulerVars
                  PROVE  CallsReach'
      OBVIOUS
    <2>. USE DEF SchedulerTypeOK, CallsReach, loopVars, toolVars
    <2>1. ASSUME NEW t \in Tools, NEW point, GetEngine(t, point)
          PROVE  CallsReach'
      BY <2>1 DEF GetEngine
    <2>2. ASSUME NEW t \in Tools, ToolStep(t)
          PROVE  CallsReach'
      BY <2>2 DEF ToolStep, TestFlag, LaunchLoop, LowerFlag, Joined, ReturnTool
    <2>3. CASE (\E l \in Loops : LoopStep(l)) \/ UNCHANGED schedulerVars
      BY <2>3 DEF LoopStep, TestRunning, RunOver, NapOver, LoopGoto, schedulerVars
    <2>. QED
      BY <2>1, <2>2, <2>3 DEF SchedulerNext, CallStart, CallStop
  <1>. QED
    BY <1>1, <1>2, <1>3, PTL DEF SchedulerSpec

-----------------------------------------------------------------------------
(* Scheduler: no loop is lost.                                             *)

\* A loop nobody gave up on runs under a raised flag, or a stop waits for it;
\* and a launch happens under a lowered flag.  That there is one thread for
\* tools makes the two exclude each other.
LoopsHeld ==
    /\ \A t \in Tools : tpc[t] = "launch" => ~running[reached[t]]
    /\ \A l \in Loops : LiveLoop(l) =>
          /\ owner[l] \in Engines
          /\ l \notin abandoned =>
                /\ handle[owner[l]] = l
                /\ \/ running[owner[l]]
                   \/ \E t \in Tools : tpc[t] = "join" /\ reached[t] = owner[l]

LEMMA LoopsHeldStep ==
  ASSUME SchedulerTypeOK, CallsReach, LoopsHeld, [SchedulerNext]_schedulerVars
  PROVE  LoopsHeld'
  <1>. USE DEF SchedulerTypeOK, CallsReach, LoopsHeld, LiveLoop, loopVars, toolVars
  <1>0. \A t, u \in Tools : t = u
    BY SchedulerAssumption
  <1>1. ASSUME NEW t \in Tools, CallStart(t) \/ CallStop(t)
        PROVE  LoopsHeld'
    <2>1. PICK point \in {"start", "stop"} : GetEngine(t, point)
      BY <1>1 DEF CallStart, CallStop
    <2>. QED
      BY <1>0, <2>1 DEF GetEngine
  <1>2. ASSUME NEW t \in Tools, TestFlag(t)
        PROVE  LoopsHeld'
    BY <1>0, <1>2 DEF TestFlag, ReturnTool
  <1>3. ASSUME NEW t \in Tools, LaunchLoop(t)
        PROVE  LoopsHeld'
    <2>. DEFINE e == reached[t]
    <2>1. PICK l \in Loops : /\ lpc[l] = "none"
                             /\ lpc' = [lpc EXCEPT ![l] = "head"]
                             /\ owner' = [owner EXCEPT ![l] = e]
                             /\ handle' = [handle EXCEPT ![e] = l]
      BY <1>3 DEF LaunchLoop
    <2>2. /\ e \in Engines /\ ~running[e] /\ tpc[t] = "launch"
          /\ running' = [running EXCEPT ![e] = TRUE]
          /\ tpc' = [tpc EXCEPT ![t] = "idle"]
          /\ abandoned' = abandoned
      BY <1>3 DEF LaunchLoop, ReturnTool
    <2>3. \A u \in Tools : u = t /\ tpc'[u] = "idle" /\ tpc[u] # "join"
      BY <1>0, <2>2
    <2>4. ASSUME NEW k \in Loops, LiveLoop(k)'
          PROVE  /\ owner'[k] \in Engines
                 /\ k \notin abandoned' => handle'[owner'[k]] = k /\ running'[owner'[k]]
      <3>1. CASE k = l
        BY <2>1, <2>2, <3>1
      \* Another loop of the engine was given up on.
      <3>2. CASE k # l
        <4>1. LiveLoop(k) /\ owner'[k] = owner[k] /\ owner[k] \in Engines
          BY <2>1, <2>4, <3>2
        <4>2. k \notin abandoned => handle[owner[k]] = k /\ running[owner[k]]
          BY <2>3, <4>1
        <4>3. k \notin abandoned => owner[k] # e
          BY <2>2, <4>2
        <4>. QED
          BY <2>1, <2>2, <4>1, <4>2, <4>3
      <3>. QED
        BY <3>1, <3>2
    <2>. QED
      BY <2>3, <2>4
  <1>4. ASSUME NEW t \in Tools, LowerFlag(t)
        PROVE  LoopsHeld'
    BY <1>0, <1>4 DEF LowerFlag, ReturnTool
  <1>5. ASSUME NEW t \in Tools, Joined(t)
        PROVE  LoopsHeld'
    <2>. DEFINE e == reached[t]
    <2>1. /\ e \in Engines /\ tpc[t] = "join"
          /\ handle' = [handle EXCEPT ![e] = Nobody]
          /\ tpc' = [tpc EXCEPT ![t] = "idle"]
          /\ UNCHANGED <<running, owner, lpc>>
          /\ abandoned' = IF handle[e] # Nobody /\ LiveLoop(handle[e])
                          THEN abandoned \cup {handle[e]} ELSE abandoned
      BY <1>5 DEF Joined, ReturnTool
    <2>2. \A u \in Tools : u = t /\ tpc'[u] = "idle"
      BY <1>0, <2>1
    <2>3. ASSUME NEW k \in Loops, LiveLoop(k)', k \notin abandoned'
          PROVE  handle'[owner'[k]] = k /\ running'[owner'[k]]
      <3>1. LiveLoop(k) /\ k \notin abandoned /\ handle[owner[k]] = k /\ owner[k] \in Engines
        BY <2>1, <2>3
      <3>2. k # Nobody
        BY SchedulerAssumption
      <3>3. owner[k] # e
        BY <2>1, <2>3, <3>1, <3>2
      <3>4. running[owner[k]]
        BY <2>2, <3>1, <3>3
      <3>. QED
        BY <2>1, <3>1, <3>3, <3>4
    <2>. QED
      BY <2>1, <2>2, <2>3
  <1>6. ASSUME NEW l \in Loops, LoopStep(l)
        PROVE  LoopsHeld'
    <2>1. PICK point \in {"head", "run", "nap", "ended"} : LiveLoop(l) /\ LoopGoto(l, point)
      BY <1>6 DEF LoopStep, TestRunning, RunOver, NapOver
    <2>. QED
      BY <2>1 DEF LoopGoto
  <1>7. CASE UNCHANGED schedulerVars
    BY <1>7 DEF schedulerVars
  <1>. QED
    BY <1>1, <1>2, <1>3, <1>4, <1>5, <1>6, <1>7 DEF SchedulerNext, ToolStep

(* Only a stop that gave up after its join loses a loop; no order of       *)
(* starts, stops and replaced engines does.                                *)
THEOREM LoopsAreKept == SchedulerSpec => []NoLoopIsLost
  <1>1. SchedulerInit => LoopsHeld
    BY DEF SchedulerInit, LoopsHeld, LiveLoop
  <1>2. LoopsHeld => NoLoopIsLost
    BY DEF LoopsHeld, NoLoopIsLost
  <1>. QED
    BY <1>1, <1>2, SchedulerTypeCorrect, LoopsHeldStep, PTL DEF SchedulerSpec

-----------------------------------------------------------------------------
(* Indexing: type correctness.                                             *)

\* The variables of the requests, and those of the tables and the tree.
RequestsTyped ==
    /\ ipc \in [Requests -> {"idle", "resolve", "sync", "mode", "reset", "index", "find", "done", "failed"}]
    /\ kind \in [Requests -> Kinds]
    /\ todo \in [Requests -> SUBSET Sources]
    /\ attempt \in [Requests -> 0..1]
    /\ outcome \in [Requests -> {"none", "ok", "error"}]
    /\ calm \in [Requests -> BOOLEAN]
    /\ passed \subseteq Sources
    /\ unreset \in BOOLEAN

TablesTyped ==
    /\ {git, known} \subseteq BOOLEAN
    /\ disk \in [Sources -> 0..MaxVersion]
    /\ rows \subseteq Sources
    /\ sym \in [Sources -> 0..MaxVersion]
    /\ syncAge \in {"none", "fresh", "stale"}

LEMMA TypeParts == IndexingTypeOK <=> RequestsTyped /\ TablesTyped
  BY DEF IndexingTypeOK, RequestsTyped, TablesTyped

(* Every variable of the indexing service keeps its type.                  *)
THEOREM IndexingTypeCorrect == IndexingSpec => []IndexingTypeOK
  <1>1. IndexingInit => RequestsTyped /\ TablesTyped
    <2>. SUFFICES ASSUME IndexingInit
                  PROVE  RequestsTyped /\ TablesTyped
      OBVIOUS
    <2>0. 0 \in 0..MaxVersion
      BY IndexingAssumption
    <2>1. /\ disk \in [Sources -> 0..MaxVersion] /\ sym \in [Sources -> 0..MaxVersion]
          /\ rows \subseteq Sources /\ syncAge \in {"none", "fresh", "stale"}
      BY <2>0 DEF IndexingInit
    <2>3. {git, known} \subseteq BOOLEAN
      BY DEF IndexingInit
    <2>4. /\ calm \in [Requests -> BOOLEAN] /\ passed \subseteq Sources /\ unreset \in BOOLEAN
          /\ todo \in [Requests -> SUBSET Sources]
      BY DEF IndexingInit
    <2>2. RequestsTyped
      BY <2>4 DEF IndexingInit, RequestsTyped, Kinds
    <2>. QED
      BY <2>1, <2>2, <2>3 DEF TablesTyped
  <1>2. RequestsTyped /\ TablesTyped /\ [IndexingNext]_indexingVars => RequestsTyped' /\ TablesTyped'
    <2>. SUFFICES ASSUME RequestsTyped, TablesTyped, [IndexingNext]_indexingVars
                  PROVE  RequestsTyped' /\ TablesTyped'
      OBVIOUS
    <2>. USE DEF RequestsTyped, TablesTyped, indexingTables, history
    <2>1. ASSUME NEW f \in Sources, EditSource(f)
          PROVE  RequestsTyped' /\ TablesTyped'
      <3>1. disk' \in [Sources -> 0..MaxVersion]
        BY <2>1, IndexingAssumption DEF EditSource
      <3>. QED
        BY <2>1, <3>1 DEF EditSource, Disturbed
    <2>2. CASE SyncGrowsOld
      BY <2>2 DEF SyncGrowsOld
    <2>3. CASE IndexingCrash
      BY <2>3 DEF IndexingCrash, Settled, Disturbed
    <2>4. ASSUME NEW r \in Requests, NEW k \in Kinds, Request(r, k)
          PROVE  RequestsTyped' /\ TablesTyped'
      <3>1. ipc' \in [Requests -> {"idle", "resolve", "sync", "mode", "reset", "index", "find", "done", "failed"}]
        BY <2>4 DEF Request, Step
      <3>2. /\ kind' \in [Requests -> Kinds] /\ attempt' \in [Requests -> 0..1]
            /\ outcome' \in [Requests -> {"none", "ok", "error"}]
        BY <2>4 DEF Request
      <3>3. calm' \in [Requests -> BOOLEAN] /\ passed' \subseteq Sources /\ unreset' \in BOOLEAN
        BY <2>4 DEF Request
      <3>. QED
        BY <2>4, <3>1, <3>2, <3>3 DEF Request
    <2>5. ASSUME NEW r \in Requests, Resolve(r) \/ Answer(r)
          PROVE  RequestsTyped' /\ TablesTyped'
      BY <2>5 DEF Resolve, Answer, Step
    <2>6. ASSUME NEW r \in Requests, Sync(r)
          PROVE  RequestsTyped' /\ TablesTyped'
      <3>1. rows' \subseteq Sources
        BY <2>6 DEF Sync, Tree
      <3>2. /\ ipc' \in [Requests -> {"idle", "resolve", "sync", "mode", "reset", "index", "find", "done", "failed"}]
            /\ outcome' \in [Requests -> {"none", "ok", "error"}]
        BY <2>6 DEF Sync, Step
      <3>3. known' = TRUE /\ syncAge' \in {"none", "fresh", "stale"} /\ passed' \subseteq Sources
        BY <2>6 DEF Sync, Tree
      <3>. QED
        BY <2>6, <3>1, <3>2, <3>3 DEF Sync
    <2>7. ASSUME NEW r \in Requests, ListRows(r) \/ SyncById(r)
          PROVE  RequestsTyped' /\ TablesTyped'
      BY <2>7 DEF ListRows, SyncById, Step
    <2>8. ASSUME NEW r \in Requests, NEW f \in Sources, IndexSource(r, f) \/ PassOver(r, f)
          PROVE  RequestsTyped' /\ TablesTyped'
      BY <2>8 DEF IndexSource, PassOver
    <2>11. ASSUME NEW r \in Requests, ResetRepo(r)
           PROVE  RequestsTyped' /\ TablesTyped'
      <3>1. sym' \in [Sources -> 0..MaxVersion] /\ unreset' \in BOOLEAN
        BY <2>11, IndexingAssumption DEF ResetRepo
      <3>. QED
        BY <2>11, <3>1 DEF ResetRepo, Step
    <2>9. ASSUME NEW r \in Requests, FinishIndex(r) \/ IndexRaises(r) \/ AutoIndex(r)
          PROVE  RequestsTyped' /\ TablesTyped'
      BY <2>9 DEF FinishIndex, IndexRaises, AutoIndex, Step
    <2>10. CASE UNCHANGED indexingVars
      BY <2>10 DEF indexingVars
    <2>. QED
      BY <2>1, <2>2, <2>3, <2>4, <2>5, <2>6, <2>7, <2>8, <2>9, <2>10, <2>11 DEF IndexingNext, Serve
  <1>. QED
    BY <1>1, <1>2, TypeParts, PTL DEF IndexingSpec

-----------------------------------------------------------------------------
(* Indexing: what an undisturbed request leaves behind.                    *)

\* Where the kinds of requests go: only a search looks something up, and the
\* ones that always sync never ask whether there is a row already.
RouteOf(p, k) ==
    /\ p = "find" => k = "search"
    /\ p = "resolve" => k \in {"full", "incremental"}
    /\ p \in {"reset", "index"} => k # "incremental"

Routes == \A r \in Requests : RouteOf(ipc[r], kind[r])

\* Beside an undisturbed request all others rest.
Alone == \A r \in Requests : calm[r] => Requests \ {r} \subseteq Settled

\* What is not indexed yet is still to be and its old symbols are gone, if they
\* could be deleted; a request that has synced knows the tree, but for the files
\* it passed over.
SoFar(r) ==
    /\ ipc[r] \in {"resolve", "mode", "reset"} => passed \cap rows = {}
    /\ ipc[r] = "reset" => todo[r] = rows
    /\ ipc[r] = "index" => /\ \A f \in rows : Exact(f) \/ f \in todo[r]
                           /\ \A f \in todo[r] : f \notin passed /\ (sym[f] = 0 \/ unreset)
    /\ (ipc[r] \in {"mode", "reset", "index"} /\ kind[r] \in {"refresh", "search"})
          => Tree \subseteq rows \cup passed
    /\ (ipc[r] = "done" /\ kind[r] \in {"full", "refresh"}) => \A f \in rows : Exact(f)
    /\ (ipc[r] \in {"find", "done"} /\ outcome[r] = "ok" /\ kind[r] \in {"refresh", "search"})
          => Tree \subseteq rows \cup passed /\ \A f \in rows : Exact(f)

Progressed == \A r \in Requests : calm[r] => SoFar(r)

IndexingInv == Routes /\ Alone /\ Progressed

LEMMA RequestInv ==
  ASSUME IndexingTypeOK, IndexingInv, NEW r \in Requests, NEW k \in Kinds, Request(r, k)
  PROVE  IndexingInv'
  <1>. USE TypeParts DEF RequestsTyped, TablesTyped, indexingTables
  <1>1. /\ ipc' = [ipc EXCEPT ![r] = CASE k = "refresh" -> "sync" [] k = "search" -> "find" [] OTHER -> "resolve"]
        /\ kind' = [kind EXCEPT ![r] = k]
        /\ outcome' = [outcome EXCEPT ![r] = "none"]
        /\ calm' = [q \in Requests |-> q = r /\ Requests \ {r} \subseteq Settled]
        /\ passed' = {}
    BY DEF Request, Step
  <1>2. ipc'[r] \in {"sync", "find", "resolve"} /\ outcome'[r] = "none"
    BY <1>1
  <1>3. Routes'
    <2>1. RouteOf(ipc'[r], k)
      BY <1>1 DEF Kinds, RouteOf
    <2>. QED
      BY <1>1, <2>1 DEF Routes, IndexingInv
  <1>4. Alone'
    BY <1>1 DEF Alone, Settled
  <1>5. SoFar(r)'
    BY <1>1, <1>2 DEF SoFar
  <1>6. Progressed'
    BY <1>1, <1>5 DEF Progressed
  <1>. QED
    BY <1>3, <1>4, <1>6 DEF IndexingInv

\* A step of a request that is served: it is the only one that is undisturbed,
\* if there is one.
LEMMA ServedAlone ==
  ASSUME IndexingTypeOK, IndexingInv, NEW r \in Requests, r \notin Settled
  PROVE  \A q \in Requests : calm[q] => q = r
  BY DEF IndexingInv, Alone

LEMMA ServeInv ==
  ASSUME IndexingTypeOK, IndexingInv, NEW r \in Requests, Serve(r)
  PROVE  IndexingInv'
  <1>. USE TypeParts DEF RequestsTyped, TablesTyped, indexingTables, history
  <1>1. r \notin Settled
    BY DEF Serve, Resolve, Sync, ListRows, ResetRepo, SyncById, FinishIndex, IndexRaises, AutoIndex,
           Answer, IndexSource, PassOver, At, Settled
  <1>2. \A q \in Requests : calm[q] => q = r
    BY <1>1, ServedAlone
  <1>3. /\ calm' = calm /\ kind' = kind /\ disk' = disk /\ Tree' = Tree
        /\ \A q \in Requests : q # r => ipc'[q] = ipc[q]
    BY DEF Serve, Resolve, Sync, ListRows, ResetRepo, SyncById, FinishIndex, IndexRaises, AutoIndex,
           Answer, IndexSource, PassOver, Step, Tree
  <1>4. Alone'
    BY <1>2, <1>3 DEF IndexingInv, Alone, Settled
  <1>5. RouteOf(ipc[r], kind[r])
    BY DEF IndexingInv, Routes
  \* So it is enough to look at the request itself.
  <1>6. SUFFICES /\ RouteOf(ipc'[r], kind[r])
                 /\ calm[r] => SoFar(r)'
    <2>1. Routes'
      BY <1>3, <1>6 DEF Routes, IndexingInv
    <2>2. Progressed'
      BY <1>2, <1>3, <1>6 DEF Progressed
    <2>. QED
      BY <1>4, <2>1, <2>2 DEF IndexingInv
  <1>7. RouteOf(ipc'[r], kind[r])
    BY <1>5 DEF RouteOf, Serve, Resolve, Sync, ListRows, ResetRepo, SyncById, FinishIndex, IndexRaises,
                AutoIndex, Answer, IndexSource, PassOver, At, Step
  <1>8. SUFFICES ASSUME calm[r]
                 PROVE  SoFar(r)'
    BY <1>7
  <1>9. SoFar(r)
    BY <1>8 DEF IndexingInv, Progressed
  <1>10. CASE Resolve(r)
    BY <1>3, <1>5, <1>9, <1>10 DEF Resolve, At, Step, SoFar, RouteOf, Exact
  <1>11. CASE Sync(r)
    <2>1. CASE ipc'[r] = "mode" /\ passed' = Tree \ rows'
      BY <1>3, <2>1 DEF SoFar
    <2>2. CASE /\ ipc'[r] = IF kind[r] = "search" THEN "find" ELSE "failed"
               /\ outcome'[r] = "error"
      BY <2>2 DEF SoFar
    <2>. QED
      BY <1>8, <1>11, <2>1, <2>2 DEF Sync, Step
  <1>12. CASE ListRows(r)
    BY <1>3, <1>9, <1>12 DEF ListRows, At, Step, SoFar
  <1>13. CASE ResetRepo(r)
    <2>1. /\ ipc[r] = "reset" /\ ipc'[r] = "index" /\ rows' = rows /\ passed' = passed
          /\ todo' = todo /\ todo[r] = rows /\ passed \cap rows = {}
          /\ kind[r] \in {"refresh", "search"} => Tree \subseteq rows \cup passed
      BY <1>9, <1>13 DEF ResetRepo, At, Step, SoFar
    <2>2. \A f \in rows : sym'[f] = 0 \/ unreset'
      BY <1>8, <1>13 DEF ResetRepo
    <2>. QED
      BY <1>3, <2>1, <2>2 DEF SoFar
  <1>14. CASE SyncById(r)
    BY <1>9, <1>14 DEF SyncById, At, Step, SoFar
  <1>15. ASSUME NEW f \in Sources, IndexSource(r, f)
         PROVE  SoFar(r)'
    <2>1. /\ ipc[r] = "index" /\ ipc' = ipc /\ rows' = rows /\ passed' = passed /\ unreset' = unreset
          /\ todo'[r] = todo[r] \ {f} /\ f \in todo[r]
          /\ sym'[f] = disk[f] /\ \A g \in Sources \ {f} : sym'[g] = sym[g]
      BY <1>15 DEF IndexSource, At
    <2>2. Exact(f)' /\ \A g \in Sources \ {f} : Exact(g)' <=> Exact(g)
      BY <1>3, <1>9, <2>1 DEF Exact, SoFar
    <2>. QED
      BY <1>3, <1>9, <2>1, <2>2 DEF SoFar
  <1>16. ASSUME NEW f \in Sources, PassOver(r, f)
         PROVE  SoFar(r)'
    <2>1. /\ ipc[r] = "index" /\ ipc' = ipc /\ rows' = rows /\ passed' = passed \cup {f}
          /\ unreset' = unreset /\ sym' = sym
          /\ todo'[r] = todo[r] \ {f} /\ f \in todo[r]
      BY <1>8, <1>16 DEF PassOver, At
    <2>2. Exact(f)' /\ \A g \in Sources \ {f} : Exact(g)' <=> Exact(g)
      BY <1>3, <1>9, <2>1 DEF Exact, SoFar
    <2>. QED
      BY <1>3, <1>9, <2>1, <2>2 DEF SoFar
  <1>17. CASE FinishIndex(r)
    <2>1. /\ ipc[r] = "index" /\ todo[r] = {} /\ UNCHANGED <<rows, sym, disk, passed, unreset>>
          /\ ipc'[r] \in {"find", "done"}
      BY <1>17 DEF FinishIndex, At, Step
    <2>2. \A f \in rows : Exact(f)'
      BY <1>9, <2>1 DEF SoFar, Exact
    <2>. QED
      BY <1>3, <1>9, <2>1, <2>2 DEF SoFar
  <1>18. CASE IndexRaises(r)
    BY <1>3, <1>9, <1>18 DEF IndexRaises, At, Step, SoFar
  <1>19. CASE AutoIndex(r)
    BY <1>3, <1>9, <1>19 DEF AutoIndex, At, Step, SoFar
  <1>20. CASE Answer(r)
    BY <1>3, <1>5, <1>9, <1>20 DEF Answer, At, Step, SoFar, RouteOf, Exact
  <1>. QED
    BY <1>10, <1>11, <1>12, <1>13, <1>14, <1>15, <1>16, <1>17, <1>18, <1>19, <1>20 DEF Serve

LEMMA IndexingInvStep ==
  ASSUME IndexingTypeOK, IndexingInv, [IndexingNext]_indexingVars
  PROVE  IndexingInv'
  <1>. USE TypeParts DEF RequestsTyped, TablesTyped, indexingTables, history
  <1>1. ASSUME NEW f \in Sources, EditSource(f)
        PROVE  IndexingInv'
    BY <1>1 DEF EditSource, Disturbed, IndexingInv, Routes, Alone, Progressed
  <1>2. CASE SyncGrowsOld
    <2>1. UNCHANGED <<disk, rows, sym, ipc, kind, todo, outcome, calm, passed, unreset>>
      BY <1>2 DEF SyncGrowsOld
    <2>. QED
      BY <2>1 DEF IndexingInv, Routes, Alone, Progressed, SoFar, Exact, Settled, Tree
  <1>3. CASE IndexingCrash
    <2>1. /\ ipc' = [r \in Requests |-> IF r \in Settled THEN ipc[r] ELSE "failed"]
          /\ calm' = [r \in Requests |-> FALSE] /\ kind' = kind
      BY <1>3 DEF IndexingCrash, Disturbed
    <2>2. Routes'
      BY <2>1 DEF IndexingInv, Routes, RouteOf
    <2>. QED
      BY <2>1, <2>2 DEF IndexingInv, Alone, Progressed
  <1>4. CASE UNCHANGED indexingVars
    <2>1. UNCHANGED <<disk, rows, sym, ipc, kind, todo, outcome, calm, passed, unreset>>
      BY <1>4 DEF indexingVars
    <2>. QED
      BY <2>1 DEF IndexingInv, Routes, Alone, Progressed, SoFar, Exact, Settled, Tree
  <1>. QED
    BY <1>1, <1>2, <1>3, <1>4, RequestInv, ServeInv DEF IndexingNext

LEMMA IndexingInvariant == IndexingSpec => []IndexingInv
  <1>1. IndexingInit => IndexingInv
    BY DEF IndexingInit, IndexingInv, Routes, RouteOf, Alone, Progressed
  <1>. QED
    BY <1>1, IndexingTypeCorrect, IndexingInvStep, PTL DEF IndexingSpec

(* An undisturbed run that indexes leaves no file with a row without the   *)
(* symbols of its content, but for those it passed over, whatever failed   *)
(* or crashed before it.                                                   *)
THEOREM QuietRunsIndexRows == IndexingSpec => []QuietRunIndexesRows
  <1>1. IndexingInv => QuietRunIndexesRows
    BY DEF IndexingInv, Progressed, SoFar, QuietRunIndexesRows
  <1>. QED
    BY <1>1, IndexingInvariant, PTL

(* An undisturbed refresh, and a search that indexed, is answered from the *)
(* whole tree, but for the files it passed over.                           *)
THEOREM AnswersFromWholeTree == IndexingSpec => []WholeTreeAnswers
  <1>1. IndexingInv => WholeTreeAnswers
    BY DEF IndexingInv, Progressed, SoFar, WholeTreeAnswers
  <1>. QED
    BY <1>1, IndexingInvariant, PTL

-----------------------------------------------------------------------------
(* Indexing: what is left of a request.                                    *)

\* A search that syncs or indexes has used up its first attempt.
IndexesOnce ==
    \A r \in Requests :
        ipc[r] \in {"sync", "mode", "reset", "index"} /\ kind[r] = "search" => attempt[r] = 1

\* The steps a request still has at most, from its program point.
Left(r) ==
    CASE r \in Settled -> 0
      [] ipc[r] = "find" -> IF attempt[r] = 1 THEN 1 ELSE Cardinality(Sources) + 6
      [] ipc[r] = "index" -> Cardinality(todo[r]) + 2
      [] ipc[r] = "reset" -> Cardinality(todo[r]) + 3
      [] ipc[r] = "mode" -> Cardinality(Sources) + 4
      [] ipc[r] = "sync" -> Cardinality(Sources) + 5
      [] ipc[r] = "resolve" -> Cardinality(Sources) + 6

LEMMA IndexesOnceStep ==
  ASSUME IndexingTypeOK, Routes, IndexesOnce, [IndexingNext]_indexingVars
  PROVE  IndexesOnce'
  <1>. USE TypeParts DEF RequestsTyped, IndexesOnce
  <1>1. ASSUME NEW f \in Sources, EditSource(f)
        PROVE  IndexesOnce'
    BY <1>1 DEF EditSource
  <1>2. CASE SyncGrowsOld \/ IndexingCrash
    BY <1>2 DEF SyncGrowsOld, IndexingCrash, Settled
  <1>3. ASSUME NEW r \in Requests, NEW k \in Kinds, Request(r, k)
        PROVE  IndexesOnce'
    <2>1. /\ kind' = [kind EXCEPT ![r] = k] /\ attempt' = [attempt EXCEPT ![r] = 0]
          /\ k = "search" => ipc' = [ipc EXCEPT ![r] = "find"]
          /\ \A q \in Requests \ {r} : ipc'[q] = ipc[q]
      BY <1>3 DEF Request, Step
    <2>. QED
      BY <2>1
  <1>4. ASSUME NEW r \in Requests, Resolve(r) \/ ListRows(r) \/ ResetRepo(r) \/ SyncById(r) \/ Answer(r)
        PROVE  IndexesOnce'
    <2>1. kind' = kind /\ attempt' = attempt /\ \A q \in Requests \ {r} : ipc'[q] = ipc[q]
      BY <1>4 DEF Resolve, ListRows, ResetRepo, SyncById, Answer, Step
    <2>2. \/ ipc[r] = "resolve" /\ kind[r] # "search"
          \/ ipc[r] \in {"mode", "reset"}
          \/ ipc'[r] = "done"
      BY <1>4 DEF Resolve, ListRows, ResetRepo, SyncById, Answer, Step, At, Routes, RouteOf
    <2>. QED
      BY <2>1, <2>2
  <1>5. ASSUME NEW r \in Requests, Sync(r)
        PROVE  IndexesOnce'
    <2>1. /\ kind' = kind /\ attempt' = attempt /\ ipc[r] = "sync"
          /\ \A q \in Requests \ {r} : ipc'[q] = ipc[q]
      BY <1>5 DEF Sync, Step, At
    <2>. QED
      BY <2>1
  <1>6. ASSUME NEW r \in Requests, FinishIndex(r) \/ IndexRaises(r) \/ AutoIndex(r)
        PROVE  IndexesOnce'
    BY <1>6 DEF FinishIndex, IndexRaises, AutoIndex, Step, At
  <1>7. ASSUME NEW r \in Requests, NEW f \in Sources, IndexSource(r, f) \/ PassOver(r, f)
        PROVE  IndexesOnce'
    BY <1>7 DEF IndexSource, PassOver
  <1>8. CASE UNCHANGED indexingVars
    BY <1>8 DEF indexingVars
  <1>. QED
    BY <1>1, <1>2, <1>3, <1>4, <1>5, <1>6, <1>7, <1>8 DEF IndexingNext, Serve

\* Every step of a request brings it nearer to its end.
LEMMA ServeLeavesLess ==
  ASSUME IsFiniteSet(Sources), IndexingTypeOK, Routes, IndexesOnce, NEW r \in Requests, Serve(r)
  PROVE  Left(r)' < Left(r)
  <1>. DEFINE n == Cardinality(Sources)  c == Cardinality(todo[r])
  <1>1. /\ ipc \in [Requests -> {"idle", "resolve", "sync", "mode", "reset", "index", "find", "done", "failed"}]
        /\ todo \in [Requests -> SUBSET Sources] /\ attempt \in [Requests -> 0..1]
        /\ kind \in [Requests -> Kinds]
    BY DEF IndexingTypeOK
  <1>2. /\ n \in Nat /\ c \in Nat /\ IsFiniteSet(todo[r]) /\ rows \subseteq Sources
    BY <1>1, FS_CardinalityType, FS_Subset DEF IndexingTypeOK
  <1>3. CASE Resolve(r)
    <2>1. ipc[r] = "resolve" /\ ipc'[r] \in {"mode", "sync"}
      BY <1>1, <1>3 DEF Resolve, Step, At
    <2>2. Left(r) = n + 6 /\ Left(r)' \in {n + 4, n + 5}
      BY <2>1 DEF Left, Settled
    <2>. QED
      BY <1>2, <2>2
  <1>4. CASE Sync(r)
    <2>1. /\ ipc[r] = "sync" /\ attempt' = attempt
          /\ ipc'[r] = "mode" \/ ipc'[r] = "failed" \/ (ipc'[r] = "find" /\ kind[r] = "search")
      BY <1>1, <1>4 DEF Sync, Step, At
    <2>2. Left(r) = n + 5 /\ Left(r)' \in {n + 4, 0, 1}
      BY <2>1 DEF Left, Settled, IndexesOnce
    <2>. QED
      BY <1>2, <2>2
  <1>5. CASE ListRows(r)
    <2>1. ipc[r] = "mode" /\ ipc'[r] = "reset" /\ todo'[r] = rows
      BY <1>1, <1>5 DEF ListRows, Step, At
    <2>2. Cardinality(rows) \in Nat /\ Cardinality(rows) <= n
      BY <1>2, FS_Subset, FS_CardinalityType
    <2>3. Left(r) = n + 4 /\ Left(r)' = Cardinality(rows) + 3
      BY <2>1 DEF Left, Settled
    <2>. QED
      BY <1>2, <2>2, <2>3
  <1>6. CASE SyncById(r) \/ Answer(r)
    <2>1. ipc[r] \in {"mode", "find"} /\ ipc'[r] = "done"
      BY <1>1, <1>6 DEF SyncById, Answer, Step, At
    <2>2. Left(r) \in {n + 4, 1, n + 6} /\ Left(r)' = 0
      BY <2>1 DEF Left, Settled
    <2>. QED
      BY <1>2, <2>2
  <1>7. CASE FinishIndex(r) \/ IndexRaises(r)
    <2>1. /\ ipc[r] = "index" /\ attempt' = attempt
          /\ ipc'[r] \in {"done", "failed"} \/ (ipc'[r] = "find" /\ kind[r] = "search")
      BY <1>1, <1>7 DEF FinishIndex, IndexRaises, Step, At
    <2>2. Left(r) = c + 2 /\ Left(r)' \in {0, 1}
      BY <2>1 DEF Left, Settled, IndexesOnce
    <2>. QED
      BY <1>2, <2>2
  <1>8. CASE AutoIndex(r)
    <2>1. ipc[r] = "find" /\ attempt[r] = 0 /\ ipc'[r] = "sync"
      BY <1>1, <1>8 DEF AutoIndex, Step, At
    <2>2. Left(r) = n + 6 /\ Left(r)' = n + 5
      BY <2>1 DEF Left, Settled
    <2>. QED
      BY <1>2, <2>2
  <1>9. ASSUME NEW f \in Sources, IndexSource(r, f) \/ PassOver(r, f)
        PROVE  Left(r)' < Left(r)
    <2>1. ipc[r] = "index" /\ ipc'[r] = "index" /\ f \in todo[r] /\ todo'[r] = todo[r] \ {f}
      BY <1>1, <1>9 DEF IndexSource, PassOver, At
    <2>2. Cardinality(todo[r] \ {f}) = c - 1
      BY <1>2, <2>1, FS_RemoveElement
    <2>3. Left(r) = c + 2 /\ Left(r)' = Cardinality(todo[r] \ {f}) + 2
      BY <2>1 DEF Left, Settled
    <2>. QED
      BY <1>2, <2>2, <2>3
  <1>10. CASE ResetRepo(r)
    <2>1. ipc[r] = "reset" /\ ipc'[r] = "index" /\ todo' = todo
      BY <1>1, <1>10 DEF ResetRepo, Step, At
    <2>2. Left(r) = c + 3 /\ Left(r)' = c + 2
      BY <2>1 DEF Left, Settled
    <2>. QED
      BY <1>2, <2>2
  <1>. QED
    BY <1>3, <1>4, <1>5, <1>6, <1>7, <1>8, <1>9, <1>10 DEF Serve

\* No other step gives a request more to do while it is served.
LEMMA OthersLeaveIt ==
  ASSUME IsFiniteSet(Sources), IndexingTypeOK, NEW r \in Requests, r \notin Settled,
         [IndexingNext]_indexingVars, ~Serve(r)
  PROVE  Left(r)' <= Left(r)
  <1>1. /\ ipc \in [Requests -> {"idle", "resolve", "sync", "mode", "reset", "index", "find", "done", "failed"}]
        /\ todo \in [Requests -> SUBSET Sources] /\ attempt \in [Requests -> 0..1]
    BY DEF IndexingTypeOK
  <1>2. Left(r) \in Nat
    <2>1. Cardinality(Sources) \in Nat /\ Cardinality(todo[r]) \in Nat
      BY <1>1, FS_Subset, FS_CardinalityType
    <2>. QED
      BY <1>1, <2>1 DEF Left, Settled
  <1>3. ASSUME ipc'[r] = ipc[r], todo'[r] = todo[r], attempt'[r] = attempt[r]
        PROVE  Left(r)' <= Left(r)
    <2>1. Left(r)' = Left(r)
      BY <1>1, <1>3 DEF Left, Settled
    <2>. QED
      BY <1>2, <2>1
  <1>4. CASE IndexingCrash
    <2>1. ipc'[r] = "failed"
      BY <1>4 DEF IndexingCrash
    <2>2. Left(r)' = 0
      BY <2>1 DEF Left, Settled
    <2>. QED
      BY <1>2, <2>2
  <1>5. ASSUME NEW f \in Sources, EditSource(f)
        PROVE  Left(r)' <= Left(r)
    BY <1>3, <1>5 DEF EditSource
  <1>6. CASE SyncGrowsOld \/ UNCHANGED indexingVars
    BY <1>3, <1>6 DEF SyncGrowsOld, indexingVars
  <1>7. ASSUME NEW q \in Requests, NEW k \in Kinds, Request(q, k)
        PROVE  Left(r)' <= Left(r)
    BY <1>1, <1>3, <1>7 DEF Request, Step
  <1>8. ASSUME NEW q \in Requests, Serve(q)
        PROVE  Left(r)' <= Left(r)
    <2>1. q # r
      BY <1>8
    <2>2. ipc'[r] = ipc[r] /\ todo'[r] = todo[r] /\ attempt'[r] = attempt[r]
      BY <1>1, <1>8, <2>1
      DEF Serve, Resolve, Sync, ListRows, ResetRepo, SyncById, FinishIndex, IndexRaises, AutoIndex,
          Answer, IndexSource, PassOver, Step
    <2>. QED
      BY <1>3, <2>2
  <1>. QED
    BY <1>4, <1>5, <1>6, <1>7, <1>8 DEF IndexingNext

(* A request has an end: each of its steps takes from a number that no     *)
(* other step, of whomever, adds to.  A search therefore indexes once at   *)
(* most, whatever the indexing finds, fails at or is disturbed by.         *)
THEOREM RequestsRunOut ==
  ASSUME IsFiniteSet(Sources)
  PROVE  IndexingSpec => [][\A r \in Requests : /\ Serve(r) => Left(r)' < Left(r)
                                               /\ r \notin Settled /\ ~Serve(r) => Left(r)' <= Left(r)]_indexingVars
  <1>1. IndexingInit => IndexesOnce
    BY DEF IndexingInit, IndexesOnce
  <1>2. IndexingTypeOK /\ Routes /\ IndexesOnce /\ [IndexingNext]_indexingVars
        => [\A r \in Requests : /\ Serve(r) => Left(r)' < Left(r)
                               /\ r \notin Settled /\ ~Serve(r) => Left(r)' <= Left(r)]_indexingVars
    BY ServeLeavesLess, OthersLeaveIt
  <1>3. IndexingInv => Routes
    BY DEF IndexingInv
  <1>. QED
    BY <1>1, <1>2, <1>3, IndexesOnceStep, IndexingTypeCorrect, IndexingInvariant, PTL DEF IndexingSpec
=============================================================================
