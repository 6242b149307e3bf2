------------------------- MODULE TaskQueue_proofs -------------------------
(***************************************************************************)
(* Theorems about TaskQueue, for every set of tasks, threads and callers.  *)
(* IInv is inductive; from it follow the type invariant, the agreement of  *)
(* places, workers and status fields, and that the queue implements the    *)
(* lifecycle a holder of a task id may rely on.                            *)
(***************************************************************************)
EXTENDS TaskQueue, FiniteSetTheorems, TLAPS

-----------------------------------------------------------------------------
(* Sequences as sets of elements.                                          *)

\* append() adds one element.
LEMMA ElementsAppend ==
  ASSUME NEW S, NEW s \in Seq(S), NEW e \in S
  PROVE  Elements(Append(s, e)) = Elements(s) \cup {e}
  <1>1. /\ DOMAIN s = 1..Len(s)
        /\ DOMAIN Append(s, e) = 1..(Len(s) + 1)
        /\ \A i \in 1..Len(s) : Append(s, e)[i] = s[i]
        /\ Append(s, e)[Len(s) + 1] = e
        /\ Len(s) \in Nat
    OBVIOUS
  <1>2. \A i \in 1..(Len(s) + 1) : i \in 1..Len(s) \/ i = Len(s) + 1
    BY <1>1
  <1>. QED
    BY <1>1, <1>2 DEF Elements

\* Appending a new element keeps the elements distinct.
LEMMA AppendKeepsApart ==
  ASSUME NEW S, NEW s \in Seq(S), NEW e \in S, e \notin Elements(s),
         \A i, j \in DOMAIN s : s[i] = s[j] => i = j
  PROVE  \A i, j \in DOMAIN Append(s, e) :
            Append(s, e)[i] = Append(s, e)[j] => i = j
  <1>1. /\ DOMAIN s = 1..Len(s)
        /\ DOMAIN Append(s, e) = 1..(Len(s) + 1)
        /\ \A i \in 1..Len(s) : Append(s, e)[i] = s[i]
        /\ Append(s, e)[Len(s) + 1] = e
        /\ Len(s) \in Nat
    OBVIOUS
  <1>2. \A i \in 1..Len(s) : s[i] # e
    BY <1>1 DEF Elements
  <1>. QED
    BY <1>1, <1>2

\* pop(0) on distinct elements removes exactly the head.
LEMMA TailOfDistinct ==
  ASSUME NEW S, NEW s \in Seq(S), s # <<>>,
         \A i, j \in DOMAIN s : s[i] = s[j] => i = j
  PROVE  /\ Head(s) \in Elements(s)
         /\ Head(s) \in S
         /\ Tail(s) \in Seq(S)
         /\ Elements(Tail(s)) = Elements(s) \ {Head(s)}
         /\ \A i, j \in DOMAIN Tail(s) : Tail(s)[i] = Tail(s)[j] => i = j
  <1>1. /\ DOMAIN s = 1..Len(s)
        /\ Len(s) \in Nat \ {0}
        /\ Head(s) = s[1]
        /\ Tail(s) \in Seq(S)
        /\ DOMAIN Tail(s) = 1..(Len(s) - 1)
        /\ \A i \in 1..(Len(s) - 1) : Tail(s)[i] = s[i + 1]
    OBVIOUS
  <1>2. \A k \in 1..Len(s) : k # 1 => k - 1 \in 1..(Len(s) - 1) /\ Tail(s)[k - 1] = s[k]
    BY <1>1
  <1>3. ASSUME NEW x \in Elements(s) \ {Head(s)}
        PROVE  x \in Elements(Tail(s))
    <2>1. PICK k \in 1..Len(s) : s[k] = x
      BY <1>1 DEF Elements
    <2>2. k # 1
      BY <1>1, <2>1
    <2>. QED
      BY <1>1, <1>2, <2>1, <2>2 DEF Elements
  <1>4. Elements(Tail(s)) \subseteq Elements(s) \ {Head(s)}
    BY <1>1 DEF Elements
  <1>5. \A i, j \in DOMAIN Tail(s) : Tail(s)[i] = Tail(s)[j] => i = j
    BY <1>1
  <1>6. Head(s) \in Elements(s) /\ Head(s) \in S
    BY <1>1 DEF Elements
  <1>. QED
    BY <1>1, <1>3, <1>4, <1>5, <1>6

\* The elements of a sequence over S are in S.
LEMMA ElementsTyped ==
  ASSUME NEW S, NEW s \in Seq(S)
  PROVE  Elements(s) \subseteq S
  BY DEF Elements

-----------------------------------------------------------------------------
(* The initial state and the steps that leave the collections alone.       *)

\* The invariant holds initially.
LEMMA InitIInv == Init => IInv
  <1>. SUFFICES ASSUME Init PROVE IInv
    OBVIOUS
  <1>1. /\ <<>> \in Seq(Tasks)
        /\ DOMAIN <<>> = {}
        /\ Elements(<<>>) = {}
    BY DEF Elements
  <1>2. 0 \in 0..MaxWorkers
    BY TaskQueueAssumption
  <1>3. TypeOK
    BY <1>1, <1>2 DEF Init, TypeOK
  <1>4. PointsOK
    BY DEF Init, PointsOK
  <1>5. ActiveIsHeld
    BY TaskQueueAssumption DEF Init, ActiveIsHeld
  <1>6. OnePlace
    BY <1>1 DEF Init, OnePlace
  <1>7. StatusMatchesPlace
    BY <1>1 DEF Init, StatusMatchesPlace
  <1>. QED
    BY <1>3, <1>4, <1>5, <1>6, <1>7 DEF IInv

\* enqueue() keeps the invariant.
LEMMA EnqueueIInv ==
  ASSUME IInv, NEW t \in Tasks, Enqueue(t)
  PROVE  IInv'
  <1>. USE DEF IInv
  <1>1. /\ queue \in Seq(Tasks)
        /\ t \notin Elements(queue) /\ t \notin active /\ t \notin Elements(done)
        /\ queue' = Append(queue, t) /\ active' = active /\ done' = done
        /\ status' = [status EXCEPT ![t] = "pending"]
        /\ wpc' = wpc /\ holds' = holds
        /\ running' = running /\ cpc' = cpc /\ toSpawn' = toSpawn
    BY DEF Enqueue, TypeOK, StatusMatchesPlace, workerVars, controlVars
  <1>2. /\ Elements(queue') = Elements(queue) \cup {t}
        /\ \A i, j \in DOMAIN queue' : queue'[i] = queue'[j] => i = j
        /\ queue' \in Seq(Tasks)
    BY <1>1, ElementsAppend, AppendKeepsApart DEF OnePlace
  <1>3. TypeOK'
    BY <1>1, <1>2 DEF TypeOK
  <1>4. PointsOK' /\ ActiveIsHeld'
    BY <1>1 DEF PointsOK, ActiveIsHeld
  <1>5. OnePlace'
    BY <1>1, <1>2 DEF OnePlace, Elements
  <1>6. StatusMatchesPlace'
    <2>1. Elements(done)' = Elements(done) /\ Elements(queue)' = Elements(queue) \cup {t}
      BY <1>1, <1>2 DEF Elements
    <2>2. \A w \in Workers : holds[w] # None => holds[w] \in active
      BY DEF ActiveIsHeld, TypeOK
    <2>3. \A u \in Tasks : status'[u] = IF u = t THEN "pending" ELSE status[u]
      BY <1>1 DEF TypeOK
    <2>4. Elements(queue) \subseteq Tasks /\ Elements(done) \subseteq Tasks
      BY ElementsTyped DEF TypeOK
    <2>5. "pending" # None
      BY TaskQueueAssumption
    <2>. QED
      BY <1>1, <2>1, <2>2, <2>3, <2>4, <2>5 DEF StatusMatchesPlace, OnePlace, ActiveIsHeld
  <1>. QED
    BY <1>3, <1>4, <1>5, <1>6
-----------------------------------------------------------------------------
(* The steps of a worker.                                                  *)

\* The first lock section keeps the invariant.
LEMMA TakeIInv ==
  ASSUME IInv, NEW w \in Workers, Take(w)
  PROVE  IInv'
  <1>. USE DEF IInv
  <1>. DEFINE t == Head(queue)
  <1>1. /\ queue \in Seq(Tasks) /\ queue # <<>>
        /\ queue' = Tail(queue) /\ done' = done /\ status' = status
        /\ active' = active \cup {t}
        /\ wpc[w] = "take" /\ holds[w] = None
        /\ wpc' = [wpc EXCEPT ![w] = "begin"]
        /\ holds' = [holds EXCEPT ![w] = t]
        /\ running' = running /\ cpc' = cpc /\ toSpawn' = toSpawn
    BY DEF Take, TakeOut, TypeOK, PointsOK, controlVars
  <1>2. /\ t \in Elements(queue) /\ t \in Tasks
        /\ queue' \in Seq(Tasks)
        /\ Elements(queue') = Elements(queue) \ {t}
        /\ \A i, j \in DOMAIN queue' : queue'[i] = queue'[j] => i = j
    BY <1>1, TailOfDistinct DEF OnePlace
  <1>3. /\ Elements(queue)' = Elements(queue) \ {t}
        /\ Elements(done)' = Elements(done)
    <2>1. Elements(queue)' = Elements(queue')
      BY DEF Elements
    <2>2. Elements(done)' = Elements(done)
      BY <1>1 DEF Elements
    <2>. QED
      BY <1>2, <2>1, <2>2
  <1>4. /\ \A v \in Workers : holds'[v] = IF v = w THEN t ELSE holds[v]
        /\ \A v \in Workers : wpc'[v] = IF v = w THEN "begin" ELSE wpc[v]
    BY <1>1 DEF TypeOK
  <1>5. t # None /\ t \notin active /\ t \notin Elements(done) /\ status[t] = "pending"
    BY <1>2, TaskQueueAssumption DEF OnePlace, StatusMatchesPlace
  <1>6. \A v \in Workers : holds[v] # t
    BY <1>2, <1>5 DEF ActiveIsHeld
  <1>7. TypeOK'
    BY <1>1, <1>2 DEF TypeOK
  <1>8. PointsOK'
    BY <1>1, <1>4, <1>5 DEF PointsOK
  <1>9. ActiveIsHeld'
    <2>1. \A u, v \in Workers : holds'[u] = holds'[v] /\ holds'[u] # None => u = v
      BY <1>4, <1>6 DEF ActiveIsHeld
    <2>2. \A u \in Tasks : u \in active' <=> \E v \in Workers : holds'[v] = u
      <3>1. ASSUME NEW u \in Tasks, u \in active'
            PROVE  \E v \in Workers : holds'[v] = u
        <4>1. CASE u = t
          BY <4>1, <1>4
        <4>2. CASE u # t
          <5>1. PICK v \in Workers : holds[v] = u
            BY <1>1, <3>1, <4>2 DEF ActiveIsHeld
          <5>2. v # w
            BY <5>1, <1>1, TaskQueueAssumption
          <5>. QED
            BY <5>1, <5>2, <1>4
        <4>. QED
          BY <4>1, <4>2
      <3>2. ASSUME NEW u \in Tasks, NEW v \in Workers, holds'[v] = u
            PROVE  u \in active'
        BY <1>1, <1>4, <3>2 DEF ActiveIsHeld
      <3>. QED
        BY <3>1, <3>2
    <2>. QED
      BY <2>1, <2>2 DEF ActiveIsHeld
  <1>10. OnePlace'
    BY <1>1, <1>2, <1>3, <1>5 DEF OnePlace
  <1>11. StatusMatchesPlace'
    <2>1. \A u \in Tasks : status'[u] = None <=>
             u \notin Elements(queue)' /\ u \notin active' /\ u \notin Elements(done)'
      BY <1>1, <1>2, <1>3, <1>5, TaskQueueAssumption DEF StatusMatchesPlace
    <2>2. \A v \in Workers :
             holds'[v] # None => status'[holds'[v]] \in StatusAt(wpc'[v])
      BY <1>1, <1>4, <1>5 DEF StatusMatchesPlace, StatusAt
    <2>. QED
      BY <1>1, <1>3, <2>1, <2>2 DEF StatusMatchesPlace
  <1>. QED
    BY <1>7, <1>8, <1>9, <1>10, <1>11

\* The unlocked writes of the status field keep the invariant.
LEMMA BeginOrExecuteIInv ==
  ASSUME IInv, NEW w \in Workers, Begin(w) \/ Execute(w)
  PROVE  IInv'
  <1>. USE DEF IInv
  <1>1. PICK s \in {"running", "done", "failed"}, p \in {"exec", "file"} :
          /\ holds[w] # None /\ holds[w] \in Tasks
          /\ status' = [status EXCEPT ![holds[w]] = s]
          /\ wpc' = [wpc EXCEPT ![w] = p]
          /\ s \in StatusAt(p)
          /\ wpc[w] \in {"begin", "exec"}
    BY DEF Begin, Execute, PointsOK, TypeOK, StatusAt
  <1>2. /\ queue' = queue /\ active' = active /\ done' = done /\ holds' = holds
        /\ running' = running /\ cpc' = cpc /\ toSpawn' = toSpawn
    BY DEF Begin, Execute, controlVars
  <1>3. /\ Elements(queue)' = Elements(queue) /\ Elements(done)' = Elements(done)
        /\ holds[w] \in active
        /\ holds[w] \notin Elements(queue) /\ holds[w] \notin Elements(done)
    BY <1>1, <1>2 DEF Elements, ActiveIsHeld, OnePlace
  <1>4. /\ \A t \in Tasks : status'[t] = IF t = holds[w] THEN s ELSE status[t]
        /\ \A v \in Workers : wpc'[v] = IF v = w THEN p ELSE wpc[v]
    BY <1>1 DEF TypeOK
  <1>5. TypeOK'
    BY <1>1, <1>2 DEF TypeOK
  <1>6. PointsOK' /\ ActiveIsHeld' /\ OnePlace'
    BY <1>1, <1>2, <1>3, <1>4 DEF PointsOK, ActiveIsHeld, OnePlace
  <1>7. StatusMatchesPlace'
    <2>1. s # None
      BY TaskQueueAssumption
    <2>2. Elements(queue) \subseteq Tasks /\ Elements(done) \subseteq Tasks
      BY ElementsTyped DEF TypeOK
    <2>3. \A v \in Workers :
             holds'[v] # None => status'[holds'[v]] \in StatusAt(wpc'[v])
      <3>. SUFFICES ASSUME NEW v \in Workers, holds[v] # None
                    PROVE  status'[holds[v]] \in StatusAt(wpc'[v])
        BY <1>2
      <3>1. holds[v] = holds[w] <=> v = w
        BY <1>1 DEF ActiveIsHeld
      <3>2. holds[v] \in Tasks
        BY DEF TypeOK
      <3>. QED
        BY <1>1, <1>4, <3>1, <3>2 DEF StatusMatchesPlace
    <2>. QED
      BY <1>1, <1>2, <1>3, <1>4, <2>1, <2>2, <2>3 DEF StatusMatchesPlace
  <1>. QED
    BY <1>5, <1>6, <1>7

\* The second lock section keeps the invariant.
LEMMA FileIInv ==
  ASSUME IInv, NEW w \in Workers, File(w)
  PROVE  IInv'
  <1>. USE DEF IInv
  <1>. DEFINE t == holds[w]
  <1>1. /\ t # None /\ t \in Tasks
        /\ queue' = queue /\ done' = Append(done, t) /\ status' = status
        /\ active' = active \ {t}
        /\ wpc[w] = "file"
        /\ wpc' = [wpc EXCEPT ![w] = "head"]
        /\ holds' = [holds EXCEPT ![w] = None]
        /\ running' = running /\ cpc' = cpc /\ toSpawn' = toSpawn
    BY DEF File, TypeOK, PointsOK, controlVars
  <1>2. /\ Elements(queue)' = Elements(queue)
        /\ Elements(done)' = Elements(done) \cup {t}
        /\ done' \in Seq(Tasks)
    <2>1. Elements(done)' = Elements(done')
      BY DEF Elements
    <2>2. Elements(queue)' = Elements(queue)
      BY <1>1 DEF Elements
    <2>3. done \in Seq(Tasks)
      BY DEF TypeOK
    <2>. QED
      BY <1>1, <2>1, <2>2, <2>3, ElementsAppend
  <1>3. /\ t \in active /\ t \notin Elements(queue)
        /\ status[t] \in {"done", "failed"}
    BY <1>1 DEF ActiveIsHeld, OnePlace, StatusMatchesPlace, StatusAt
  <1>4. /\ \A v \in Workers : holds'[v] = IF v = w THEN None ELSE holds[v]
        /\ \A v \in Workers : wpc'[v] = IF v = w THEN "head" ELSE wpc[v]
    BY <1>1 DEF TypeOK
  <1>5. TypeOK'
    BY <1>1, <1>2 DEF TypeOK
  <1>6. PointsOK'
    BY <1>1, <1>4 DEF PointsOK
  <1>7. ActiveIsHeld'
    <2>1. \A v \in Workers : v # w => holds[v] # t
      BY <1>1 DEF ActiveIsHeld
    <2>. QED
      BY <1>1, <1>4, <2>1, TaskQueueAssumption DEF ActiveIsHeld
  <1>8. OnePlace'
    BY <1>1, <1>2, <1>3 DEF OnePlace
  <1>9. StatusMatchesPlace'
    BY <1>1, <1>2, <1>3, <1>4 DEF StatusMatchesPlace
  <1>. QED
    BY <1>5, <1>6, <1>7, <1>8, <1>9

\* Steps that only move a worker keep the invariant.
LEMMA WalkIInv ==
  ASSUME IInv, NEW w \in Workers, LoopHead(w) \/ Doze(w) \/ Escape(w)
  PROVE  IInv'
  <1>. USE DEF IInv
  <1>1. PICK p \in {"take", "head", "dead"} :
          /\ wpc' = [wpc EXCEPT ![w] = p]
          /\ holds[w] = None \/ (p = "dead" /\ wpc[w] = "exec")
    BY DEF LoopHead, Doze, Escape, PointsOK
  <1>2. /\ queue' = queue /\ active' = active /\ done' = done /\ holds' = holds
        /\ status' = status /\ running' = running /\ cpc' = cpc /\ toSpawn' = toSpawn
    BY DEF LoopHead, Doze, Escape, controlVars
  <1>3. \A v \in Workers : wpc'[v] = IF v = w THEN p ELSE wpc[v]
    BY <1>1 DEF TypeOK
  <1>4. TypeOK'
    BY <1>1, <1>2 DEF TypeOK
  <1>5. PointsOK' /\ ActiveIsHeld'
    BY <1>1, <1>2, <1>3 DEF PointsOK, ActiveIsHeld
  <1>6. OnePlace'
    BY <1>2 DEF OnePlace, Elements
  <1>7. StatusMatchesPlace'
    <2>1. Elements(queue)' = Elements(queue) /\ Elements(done)' = Elements(done)
      BY <1>2 DEF Elements
    <2>2. \A v \in Workers :
             holds'[v] # None => status'[holds'[v]] \in StatusAt(wpc'[v])
      BY <1>1, <1>2, <1>3 DEF StatusMatchesPlace, StatusAt
    <2>. QED
      BY <1>2, <2>1, <2>2 DEF StatusMatchesPlace
  <1>. QED
    BY <1>4, <1>5, <1>6, <1>7

-----------------------------------------------------------------------------
(* The steps of start() and stop() do not touch tasks.                     *)

\* Steps of start() and stop() keep the invariant.
LEMMA ControlIInv ==
  ASSUME IInv, NEW c \in Controllers, Control(c)
  PROVE  IInv'
  <1>. USE DEF IInv
  <1>1. /\ queue' = queue /\ active' = active /\ done' = done /\ holds' = holds
        /\ status' = status /\ running' \in BOOLEAN
    BY DEF Control, StartCheck, StartSet, Spawn, SpawnUntil, StopSet, StopReturn,
           LeaveStop, workerVars, TypeOK
  <1>2. /\ wpc' \in [Workers -> {"new", "head", "take", "begin", "exec", "file", "dead"}]
        /\ \A w \in Workers :
              wpc'[w] = wpc[w] \/ (wpc[w] = "new" /\ wpc'[w] = "head")
    BY DEF Control, StartCheck, StartSet, Spawn, SpawnUntil, Fresh, StopSet,
           StopReturn, LeaveStop, workerVars, TypeOK
  <1>3. /\ cpc' \in [Controllers -> {"idle", "checked", "spawn", "join"}]
        /\ toSpawn' \in [Controllers -> 0..MaxWorkers]
        /\ \A d \in Controllers : cpc'[d] = "spawn" => toSpawn'[d] \in 1..MaxWorkers
    <2>. USE TaskQueueAssumption
    <2>1. CASE StartCheck(c)
      BY <2>1 DEF StartCheck, TypeOK, PointsOK
    <2>2. CASE StartSet(c)
      BY <2>2 DEF StartSet, TypeOK, PointsOK
    <2>3. CASE Spawn(c)
      BY <2>3 DEF Spawn, SpawnUntil, TypeOK, PointsOK
    <2>4. CASE StopSet(c)
      BY <2>4 DEF StopSet, TypeOK, PointsOK
    <2>5. CASE StopReturn(c)
      BY <2>5 DEF StopReturn, LeaveStop, TypeOK, PointsOK
    <2>. QED
      BY <2>1, <2>2, <2>3, <2>4, <2>5 DEF Control
  <1>4. TypeOK'
    BY <1>1, <1>2, <1>3 DEF TypeOK
  <1>5. PointsOK'
    BY <1>1, <1>2, <1>3 DEF PointsOK
  <1>6. ActiveIsHeld' /\ OnePlace'
    BY <1>1 DEF ActiveIsHeld, OnePlace, Elements
  <1>7. StatusMatchesPlace'
    <2>1. Elements(queue)' = Elements(queue) /\ Elements(done)' = Elements(done)
      BY <1>1 DEF Elements
    <2>2. \A v \in Workers :
             holds'[v] # None => status'[holds'[v]] \in StatusAt(wpc'[v])
      BY <1>1, <1>2 DEF StatusMatchesPlace, StatusAt, PointsOK
    <2>. QED
      BY <1>1, <2>1, <2>2 DEF StatusMatchesPlace
  <1>. QED
    BY <1>4, <1>5, <1>6, <1>7

\* Stuttering keeps the invariant.
LEMMA StutterIInv ==
  ASSUME IInv, UNCHANGED vars
  PROVE  IInv'
  BY DEF IInv, TypeOK, PointsOK, ActiveIsHeld, OnePlace, StatusMatchesPlace,
         StatusAt, Elements, vars

\* Every step keeps the invariant.
LEMMA NextIInv == IInv /\ [Next]_vars => IInv'
  <1>. SUFFICES ASSUME IInv, [Next]_vars PROVE IInv'
    OBVIOUS
  <1>1. ASSUME NEW t \in Tasks, Enqueue(t) PROVE IInv'
    BY <1>1, EnqueueIInv
  <1>2. ASSUME NEW w \in Workers, Work(w) PROVE IInv'
    BY <1>2, TakeIInv, BeginOrExecuteIInv, FileIInv, WalkIInv DEF Work
  <1>3. ASSUME NEW c \in Controllers, Control(c) PROVE IInv'
    BY <1>3, ControlIInv
  <1>4. CASE UNCHANGED vars
    BY <1>4, StutterIInv
  <1>. QED
    BY <1>1, <1>2, <1>3, <1>4 DEF Next

(* IInv holds in every reachable state, whatever the interleaving of       *)
(* workers, enqueues, starts and stops.                                    *)
THEOREM Invariance == Spec => []IInv
  BY InitIInv, NextIInv, PTL DEF Spec

(* Every variable keeps its type.                                          *)
THEOREM TypeCorrect == Spec => []TypeOK
  BY Invariance, PTL DEF IInv

(* No task is held by two threads, even after a stop() that gave up on a   *)
(* worker and a second start(); _active is exactly what the threads hold.  *)
THEOREM ActiveTasksAreHeld == Spec => []ActiveIsHeld
  BY Invariance, PTL DEF IInv

(* A task is never queued twice nor found in two of the collections.       *)
THEOREM TasksInOnePlace == Spec => [](OnePlace /\ StatusMatchesPlace)
  BY Invariance, PTL DEF IInv

-----------------------------------------------------------------------------
(* The refinement.                                                         *)

Answers == [t \in Tasks |-> Reported(t)]

\* The answers, read off the status fields alone.
Shown(s) == IF s = None THEN "unknown" ELSE s

\* status() answers with the status field, or that the task is unknown.
LEMMA AnswersAreStatuses ==
  ASSUME StatusMatchesPlace
  PROVE  Answers = [t \in Tasks |-> Shown(status[t])]
  BY DEF Answers, Reported, StatusMatchesPlace, Shown

\* The same in the next state.
LEMMA AnswersAreStatusesNext ==
  ASSUME StatusMatchesPlace'
  PROVE  Answers' = [t \in Tasks |-> Shown(status'[t])]
  BY DEF Answers, Reported, StatusMatchesPlace, Shown

\* Initial states map to initial states of the lifecycle.
LEMMA InitRefines == Init => Lifecycle!Init
  BY DEF Init, Lifecycle!Init, Lifecycle!Unknown, Reported, Elements

\* What a step that writes one status field does to the answers.
LEMMA BecomeRefines ==
  ASSUME IInv, IInv', NEW t \in Tasks, NEW s \in {"pending", "running", "done", "failed"},
         status' = [status EXCEPT ![t] = s]
  PROVE  Lifecycle!Become(t, Shown(status[t]), s)
  <1>1. s # None
    BY TaskQueueAssumption
  <1>2. /\ Answers = [u \in Tasks |-> Shown(status[u])]
        /\ Answers' = [u \in Tasks |-> Shown(status'[u])]
    BY AnswersAreStatuses, AnswersAreStatusesNext DEF IInv
  <1>3. \A u \in Tasks : status'[u] = IF u = t THEN s ELSE status[u]
    BY DEF IInv, TypeOK
  <1>4. Answers' = [Answers EXCEPT ![t] = s]
    BY <1>1, <1>2, <1>3 DEF Shown
  <1>. QED
    BY <1>2, <1>4 DEF Lifecycle!Become, Answers

\* Every step maps to a step of the lifecycle or a stutter.
LEMMA StepRefines ==
  ASSUME IInv, IInv', [Next]_vars
  PROVE  Lifecycle!Next \/ UNCHANGED Answers
  <1>0. "pending" # None /\ "running" # None
    BY TaskQueueAssumption
  <1>1. ASSUME status' = status PROVE UNCHANGED Answers
    BY <1>1, AnswersAreStatuses, AnswersAreStatusesNext DEF IInv
  <1>2. ASSUME NEW t \in Tasks, Enqueue(t) PROVE Lifecycle!Next
    <2>1. Lifecycle!Become(t, Shown(status[t]), "pending")
      BY <1>2, BecomeRefines DEF Enqueue
    <2>. QED
      BY <1>2, <2>1 DEF Enqueue, Shown, Lifecycle!Next, Lifecycle!Submit, Lifecycle!Unknown
  <1>3. ASSUME NEW w \in Workers, Begin(w) PROVE Lifecycle!Next
    <2>1. holds[w] \in Tasks /\ status[holds[w]] = "pending"
      BY <1>3 DEF Begin, IInv, TypeOK, PointsOK, StatusMatchesPlace, StatusAt
    <2>2. Lifecycle!Become(holds[w], Shown(status[holds[w]]), "running")
      BY <1>3, <2>1, BecomeRefines DEF Begin
    <2>. QED
      BY <1>0, <2>1, <2>2 DEF Shown, Lifecycle!Next, Lifecycle!Begin
  <1>4. ASSUME NEW w \in Workers, Execute(w) PROVE Lifecycle!Next
    <2>1. holds[w] \in Tasks /\ status[holds[w]] = "running"
      BY <1>4 DEF Execute, IInv, TypeOK, PointsOK, StatusMatchesPlace, StatusAt
    <2>2. PICK s \in {"done", "failed"} : status' = [status EXCEPT ![holds[w]] = s]
      BY <1>4 DEF Execute
    <2>3. Lifecycle!Become(holds[w], Shown(status[holds[w]]), s)
      BY <2>1, <2>2, BecomeRefines
    <2>. QED
      BY <1>0, <2>1, <2>3 DEF Shown, Lifecycle!Next, Lifecycle!End, Lifecycle!Terminal
  <1>5. ASSUME NEW w \in Workers,
               LoopHead(w) \/ Take(w) \/ Doze(w) \/ Escape(w) \/ File(w)
        PROVE  status' = status
    BY <1>5 DEF LoopHead, Take, TakeOut, Doze, Escape, File
  <1>6. ASSUME NEW c \in Controllers, Control(c) PROVE status' = status
    BY <1>6 DEF Control, StartCheck, StartSet, Spawn, SpawnUntil, StopSet, StopReturn,
                LeaveStop
  <1>7. UNCHANGED vars => status' = status
    BY DEF vars
  <1>. QED
    BY <1>1, <1>2, <1>3, <1>4, <1>5, <1>6, <1>7 DEF Next, Work

(* What status() answers over time is the lifecycle of TaskLifecycle: the  *)
(* queue never loses a task, never runs one twice and never takes an       *)
(* answer back.                                                            *)
THEOREM QueueImplementsLifecycle == Spec => ImplementsLifecycle
  <1>1. IInv /\ IInv' /\ [Next]_vars => [Lifecycle!Next]_Answers
    BY StepRefines
  <1>. QED
    BY <1>1, InitRefines, Invariance, PTL
       DEF Spec, ImplementsLifecycle, Lifecycle!Spec, Answers

-----------------------------------------------------------------------------
(* Order.                                                                  *)

\* Only the head of the queue ever leaves it.
LEMMA TakeKeepsOrder ==
  ASSUME IInv, NEW w \in Workers, Take(w), NEW i \in DOMAIN queue, NEW j \in DOMAIN queue,
         i < j
  PROVE  queue[j] \in Elements(queue')
  <1>1. /\ queue \in Seq(Tasks) /\ queue # <<>> /\ queue' = Tail(queue)
    BY DEF IInv, TypeOK, Take, TakeOut
  <1>2. j - 1 \in DOMAIN Tail(queue) /\ Tail(queue)[j - 1] = queue[j]
    BY <1>1
  <1>. QED
    BY <1>1, <1>2 DEF Elements

(* FIFO: no task leaves the queue before one that is ahead of it.          *)
THEOREM FirstInFirstOut == Spec => NoOvertaking
  <1>. DEFINE Kept == \A i, j \in DOMAIN queue :
                 i < j /\ queue[j] \notin Elements(queue') => queue[i] \notin Elements(queue')
  <1>1. IInv /\ [Next]_vars => [Kept]_vars
    <2>. SUFFICES ASSUME IInv, Next, NEW i \in DOMAIN queue, NEW j \in DOMAIN queue, i < j,
                         queue[j] \notin Elements(queue')
                  PROVE  FALSE
      OBVIOUS
    <2>1. queue' # queue
      BY DEF Elements
    <2>2. PICK t \in Tasks : Enqueue(t)
      BY <2>1, TakeKeepsOrder DEF Next, Work, Control, LoopHead, Doze, Begin, Execute, Escape,
         File, StartCheck, StartSet, Spawn, SpawnUntil, StopSet, StopReturn, LeaveStop
    <2>3. Elements(queue') = Elements(queue) \cup {t}
      BY <2>2, ElementsAppend DEF Enqueue, IInv, TypeOK
    <2>. QED
      BY <2>3 DEF Elements
  <1>. QED
    BY <1>1, Invariance, PTL DEF Spec, NoOvertaking
-----------------------------------------------------------------------------
(* The bound on the workers.  It is kept when one thread starts and stops  *)
(* the queue and every join succeeds: a stopped queue then has no threads, *)
(* and a for loop knows how many it has still to start.                    *)

StartsAndStops(c) ==
    /\ cpc[c] = "idle" /\ ~running => Live = {}
    /\ cpc[c] = "checked" => Live = {}
    /\ cpc[c] = "spawn" => running /\ Cardinality(Live) + toSpawn[c] <= MaxWorkers
    /\ Cardinality(Live) <= MaxWorkers

(* Threads that end or go on leave room for no fewer.                      *)
LEMMA FewerLive ==
  ASSUME IsFiniteSet(Workers), IInv, NEW c \in Controllers, StartsAndStops(c),
         Live' \subseteq Live, UNCHANGED controlVars
  PROVE  StartsAndStops(c)'
  <1>1. IsFiniteSet(Live) /\ IsFiniteSet(Live')
    BY FS_Subset DEF Live
  <1>2. Cardinality(Live') <= Cardinality(Live)
    BY <1>1, FS_Subset
  <1>3. Cardinality(Live) \in Nat /\ Cardinality(Live') \in Nat
    BY <1>1, FS_CardinalityType
  <1>4. MaxWorkers \in Nat /\ toSpawn[c] \in Nat
    BY TaskQueueAssumption DEF IInv, TypeOK
  <1>. QED
    BY <1>1, <1>2, <1>3, <1>4 DEF StartsAndStops, controlVars

(* A thread is started.                                                    *)
LEMMA OneMoreLive ==
  ASSUME IsFiniteSet(Workers), IInv, NEW c \in Controllers, StartsAndStops(c), Spawn(c)
  PROVE  StartsAndStops(c)'
  <1>1. PICK w \in Fresh : wpc' = [wpc EXCEPT ![w] = "head"]
    BY DEF Spawn, SpawnUntil
  <1>2. Live' = Live \cup {w} /\ w \notin Live
    BY <1>1 DEF Live, Fresh, IInv, TypeOK
  <1>3. IsFiniteSet(Live)
    BY FS_Subset DEF Live
  <1>4. Cardinality(Live') = Cardinality(Live) + 1 /\ Cardinality(Live) \in Nat
    BY <1>2, <1>3, FS_AddElement, FS_CardinalityType
  <1>5. /\ cpc[c] = "spawn" /\ toSpawn[c] \in 1..MaxWorkers /\ MaxWorkers \in Nat
        /\ toSpawn'[c] = toSpawn[c] - 1 /\ running' = running
        /\ cpc'[c] = IF toSpawn[c] = 1 THEN "idle" ELSE "spawn"
    BY TaskQueueAssumption DEF Spawn, SpawnUntil, IInv, TypeOK, PointsOK
  <1>. QED
    BY <1>4, <1>5 DEF StartsAndStops

(* Every step of a queue with one controller keeps the bound.              *)
LEMMA StepKeepsBound ==
  ASSUME IsFiniteSet(Workers), ~LongTasks, NEW c, Controllers = {c},
         IInv, StartsAndStops(c), [Next]_vars
  PROVE  StartsAndStops(c)'
  <1>0. /\ c \in Controllers /\ MaxWorkers \in Nat
        /\ wpc \in [Workers -> {"new", "head", "take", "begin", "exec", "file", "dead"}]
        /\ cpc \in [Controllers -> {"idle", "checked", "spawn", "join"}]
        /\ toSpawn \in [Controllers -> 0..MaxWorkers]
    BY TaskQueueAssumption DEF IInv, TypeOK
  <1>e. Cardinality({}) = 0
    BY FS_EmptySet
  <1>1. CASE (\E t \in Tasks : Enqueue(t)) \/ UNCHANGED vars
    <2>1. Live' = Live /\ UNCHANGED controlVars
      BY <1>1 DEF Enqueue, vars, workerVars, controlVars, Live
    <2>. QED
      BY <2>1, <1>0, FewerLive
  <1>2. ASSUME NEW w \in Workers, Work(w)
        PROVE  StartsAndStops(c)'
    <2>1. Live' \subseteq Live /\ UNCHANGED controlVars
      BY <1>0, <1>2 DEF Work, LoopHead, Take, TakeOut, Doze, Begin, Execute, Escape, File, Live
    <2>. QED
      BY <2>1, <1>0, FewerLive
  <1>3. ASSUME Control(c)
        PROVE  StartsAndStops(c)'
    <2>1. CASE StartCheck(c)
      <3>1. Live' = Live /\ cpc'[c] = "checked" /\ cpc[c] = "idle" /\ ~running
        BY <2>1, <1>0 DEF StartCheck, workerVars, Live
      <3>. QED
        BY <3>1 DEF StartsAndStops
    <2>2. CASE StartSet(c)
      <3>1. Live' = Live /\ cpc'[c] = "spawn" /\ running' /\ toSpawn'[c] = MaxWorkers
            /\ cpc[c] = "checked"
        BY <2>2, <1>0 DEF StartSet, workerVars, Live
      <3>2. Live = {}
        BY <3>1 DEF StartsAndStops
      <3>. QED
        BY <3>1, <3>2, <1>0, <1>e DEF StartsAndStops
    <2>3. CASE Spawn(c)
      BY <2>3, <1>0, OneMoreLive
    <2>4. CASE StopSet(c)
      <3>1. Live' = Live /\ cpc'[c] = "join"
        BY <2>4, <1>0 DEF StopSet, workerVars, Live
      <3>. QED
        BY <3>1 DEF StartsAndStops
    <2>5. CASE StopReturn(c)
      <3>1. Live' = Live /\ cpc'[c] = "idle" /\ Live = {}
        BY <2>5, <1>0 DEF StopReturn, LeaveStop, workerVars, Live
      <3>. QED
        BY <3>1, <1>0, <1>e DEF StartsAndStops
    <2>. QED
      BY <1>3, <2>1, <2>2, <2>3, <2>4, <2>5 DEF Control
  <1>. QED
    BY <1>1, <1>2, <1>3 DEF Next

(* What one controller does to the pool.                                    *)
LEMMA OneStarter ==
  ASSUME IsFiniteSet(Workers), ~LongTasks, NEW c, Controllers = {c}
  PROVE  Spec => []StartsAndStops(c)
  <1>1. ASSUME Init
        PROVE  StartsAndStops(c)
    <2>1. Live = {} /\ cpc[c] = "idle"
      BY <1>1 DEF Init, Live
    <2>2. Cardinality(Live) = 0 /\ MaxWorkers \in Nat
      BY <2>1, FS_EmptySet, TaskQueueAssumption
    <2>. QED
      BY <2>1, <2>2 DEF StartsAndStops
  <1>2. StartsAndStops(c) /\ IInv /\ [Next]_vars => StartsAndStops(c)'
    BY StepKeepsBound
  <1>. QED
    BY <1>1, <1>2, Invariance, PTL DEF Spec

(* max_workers bounds the threads, of any number, if one thread calls       *)
(* start() and stop() and no task outlasts a join; two threads that call   *)
(* start() break it (core/worker/queue.py, start and stop).                       *)
THEOREM OneStarterKeepsBound ==
  ASSUME IsFiniteSet(Workers), ~LongTasks, NEW c, Controllers = {c}
  PROVE  Spec => []WorkerBound
  <1>1. Spec => []StartsAndStops(c)
    BY OneStarter
  <1>2. StartsAndStops(c) => WorkerBound
    BY DEF StartsAndStops, WorkerBound
  <1>. QED
    BY <1>1, <1>2, PTL

-----------------------------------------------------------------------------
(* The size of the pool.  While the flag is raised no thread leaves the    *)
(* loop but one whose task ends it, and that one keeps its task.           *)

\* Threads that were started and did not find the flag lowered.
Kept == {w \in Workers : wpc[w] # "new" /\ (wpc[w] = "dead" => holds[w] # None)}

StaysFull(c) ==
    /\ cpc[c] = "spawn" => running /\ Cardinality(Kept) + toSpawn[c] >= MaxWorkers
    /\ cpc[c] \in {"checked", "join"} => ~running
    /\ cpc[c] = "idle" /\ running => Cardinality(Kept) >= MaxWorkers

\* Nobody leaves under a raised flag.
LEMMA NoneLeaves ==
  ASSUME IsFiniteSet(Workers), IInv, NEW c \in Controllers, StaysFull(c),
         running => Kept \subseteq Kept', UNCHANGED controlVars
  PROVE  StaysFull(c)'
  <1>1. IsFiniteSet(Kept) /\ IsFiniteSet(Kept')
    BY FS_Subset DEF Kept
  <1>2. /\ Cardinality(Kept) \in Nat /\ Cardinality(Kept') \in Nat
        /\ running => Cardinality(Kept) <= Cardinality(Kept')
    BY <1>1, FS_Subset, FS_CardinalityType
  <1>3. MaxWorkers \in Nat /\ toSpawn[c] \in Nat
    BY TaskQueueAssumption DEF IInv, TypeOK
  <1>. QED
    BY <1>2, <1>3 DEF StaysFull, controlVars

(* Every step of a queue with one controller keeps the pool full.          *)
LEMMA StepKeepsPool ==
  ASSUME IsFiniteSet(Workers), NEW c, Controllers = {c}, IInv, StaysFull(c), [Next]_vars
  PROVE  StaysFull(c)'
  <1>0. /\ c \in Controllers /\ MaxWorkers \in Nat
        /\ wpc \in [Workers -> {"new", "head", "take", "begin", "exec", "file", "dead"}]
        /\ holds \in [Workers -> Tasks \cup {None}]
        /\ cpc \in [Controllers -> {"idle", "checked", "spawn", "join"}]
        /\ toSpawn \in [Controllers -> 0..MaxWorkers]
        /\ \A w \in Workers : wpc[w] \in {"begin", "exec", "file"} => holds[w] # None
    BY TaskQueueAssumption DEF IInv, TypeOK, PointsOK
  <1>1. CASE (\E t \in Tasks : Enqueue(t)) \/ UNCHANGED vars
    <2>1. Kept' = Kept /\ UNCHANGED controlVars
      BY <1>1 DEF Enqueue, vars, workerVars, controlVars, Kept
    <2>. QED
      BY <2>1, <1>0, NoneLeaves
  <1>2. ASSUME NEW w \in Workers, Work(w)
        PROVE  StaysFull(c)'
    <2>1. (running => Kept \subseteq Kept') /\ UNCHANGED controlVars
      <3>1. CASE LoopHead(w) \/ Doze(w) \/ Begin(w) \/ Execute(w)
        BY <1>0, <3>1 DEF LoopHead, Doze, Begin, Execute, Kept
      <3>2. CASE Take(w)
        BY <1>0, <3>2 DEF Take, TakeOut, Kept
      <3>3. CASE Escape(w)
        BY <1>0, <3>3 DEF Escape, Kept
      <3>4. CASE File(w)
        BY <1>0, <3>4 DEF File, Kept
      <3>. QED
        BY <1>2, <3>1, <3>2, <3>3, <3>4 DEF Work
    <2>. QED
      BY <2>1, <1>0, NoneLeaves
  <1>3. ASSUME Control(c)
        PROVE  StaysFull(c)'
    <2>0. IsFiniteSet(Kept) /\ Cardinality(Kept) \in Nat
      BY FS_Subset, FS_CardinalityType DEF Kept
    <2>1. CASE StartCheck(c)
      <3>1. cpc'[c] = "checked" /\ ~running /\ running' = running
        BY <2>1, <1>0 DEF StartCheck
      <3>. QED
        BY <3>1 DEF StaysFull
    <2>2. CASE StartSet(c)
      <3>1. Kept' = Kept /\ cpc'[c] = "spawn" /\ running' /\ toSpawn'[c] = MaxWorkers
        BY <2>2, <1>0 DEF StartSet, workerVars, Kept
      <3>. QED
        BY <3>1, <2>0, <1>0 DEF StaysFull
    <2>3. CASE Spawn(c)
      <3>1. PICK w \in Fresh : wpc' = [wpc EXCEPT ![w] = "head"]
        BY <2>3 DEF Spawn, SpawnUntil
      <3>2. Kept' = Kept \cup {w} /\ w \notin Kept
        BY <2>3, <3>1, <1>0 DEF Kept, Fresh, Spawn, SpawnUntil
      <3>3. Cardinality(Kept') = Cardinality(Kept) + 1
        BY <2>0, <3>2, FS_AddElement
      <3>4. /\ cpc[c] = "spawn" /\ toSpawn[c] \in 1..MaxWorkers
            /\ toSpawn'[c] = toSpawn[c] - 1 /\ running' = running
            /\ cpc'[c] = IF toSpawn[c] = 1 THEN "idle" ELSE "spawn"
        BY <2>3, <1>0 DEF Spawn, SpawnUntil, IInv, PointsOK
      <3>. QED
        BY <2>0, <3>3, <3>4, <1>0 DEF StaysFull
    <2>4. CASE StopSet(c)
      <3>1. cpc'[c] = "join" /\ ~running'
        BY <2>4, <1>0 DEF StopSet
      <3>. QED
        BY <3>1 DEF StaysFull
    <2>5. CASE StopReturn(c)
      <3>1. cpc'[c] = "idle" /\ cpc[c] = "join" /\ running' = running
        BY <2>5, <1>0 DEF StopReturn, LeaveStop
      <3>. QED
        BY <3>1 DEF StaysFull
    <2>. QED
      BY <1>3, <2>1, <2>2, <2>3, <2>4, <2>5 DEF Control
  <1>. QED
    BY <1>1, <1>2, <1>3 DEF Next

(* The pool keeps its size, for any number of threads, if one thread calls *)
(* start() and stop() and no task outlasts a join: at most max_workers     *)
(* threads live; while the queue is left running no fewer, but for those a *)
(* task has ended; after stop() none.                                      *)
THEOREM OneStarterKeepsPool ==
  ASSUME IsFiniteSet(Workers), ~LongTasks, NEW c, Controllers = {c}
  PROVE  Spec => []PoolSize
  <1>1. Init => StaysFull(c)
    BY DEF Init, StaysFull
  <1>2. StaysFull(c) /\ IInv /\ [Next]_vars => StaysFull(c)'
    BY StepKeepsPool
  <1>3. ASSUME IInv, StaysFull(c), StartsAndStops(c)
        PROVE  PoolSize
    <2>1. IsFiniteSet(Live) /\ IsFiniteSet(Lost)
      BY FS_Subset DEF Live, Lost
    <2>2. Kept = Live \cup Lost /\ Live \cap Lost = {}
      BY DEF Kept, Live, Lost
    <2>3. Cardinality(Live \cap Lost) = 0
      BY <2>2, FS_EmptySet
    <2>4. Cardinality(Live) \in Nat /\ Cardinality(Lost) \in Nat
      BY <2>1, FS_CardinalityType
    <2>5. Cardinality(Live \cup Lost) = Cardinality(Live) + Cardinality(Lost) - Cardinality(Live \cap Lost)
      BY <2>1, FS_Union
    <2>6. Cardinality(Kept) = Cardinality(Live) + Cardinality(Lost)
      <3>1. Cardinality(Kept) = Cardinality(Live \cup Lost)
        BY <2>2
      <3>. QED
        BY <2>3, <2>4, <2>5, <3>1
    <2>. QED
      BY <1>3, <2>6 DEF PoolSize, StaysFull, StartsAndStops, WorkerBound
  <1>4. Spec => []StartsAndStops(c)
    BY OneStarter
  <1>. QED
    BY <1>1, <1>2, <1>3, <1>4, Invariance, PTL DEF Spec
=============================================================================
