----------------------------- MODULE TaskQueue -----------------------------
(***************************************************************************)
(* core/worker/queue.py: the in-process task queue.                        *)
(*                                                                         *)
(* Workers are threads running _worker_loop.  `_lock` protects the three   *)
(* collections, so a section under the lock is one step; the flag          *)
(* `_running` and the field task.status are read and written without it    *)
(* and are steps of their own.  Controllers are the threads that call      *)
(* start() and stop().                                                     *)
(***************************************************************************)
EXTENDS Naturals, Sequences, FiniteSets

CONSTANTS
    Tasks,         \* task identities: the ids of the Task objects
    Workers,       \* pool of thread identities; bounds how many are created
    Controllers,   \* threads calling start() and stop()
    MaxWorkers,    \* max_workers
    Escaping,      \* tasks whose fn may raise what `except Exception` misses
    LongTasks,     \* may a task outlast the 5 s that stop() grants a join?
    None           \* "no task" / "no thread"

ASSUME TaskQueueAssumption ==
    /\ MaxWorkers \in Nat \ {0}
    /\ Escaping \subseteq Tasks
    /\ LongTasks \in BOOLEAN
    /\ None \notin Tasks \cup {"pending", "running", "done", "failed"}

VARIABLES
    queue,      \* _queue
    active,     \* _active (its keys)
    done,       \* _done
    status,     \* task.status; None before the Task object exists
    running,    \* _running
    wpc,        \* program point of each thread
    holds,      \* the local `task` of each thread
    cpc,        \* program point of each controller
    toSpawn     \* iterations left of start()'s for loop

workerVars == <<wpc, holds>>
controlVars == <<running, cpc, toSpawn>>
vars == <<queue, active, done, status, running, wpc, holds, cpc, toSpawn>>

Elements(s) == {s[i] : i \in DOMAIN s}
Fresh == {w \in Workers : wpc[w] = "new"}
Live  == {w \in Workers : wpc[w] \notin {"new", "dead"}}
\* Threads that ended with a task in hand.
Lost  == {w \in Workers : wpc[w] = "dead" /\ holds[w] # None}
\* Starts under way; each is promised MaxWorkers of the fresh identities.
Promised == {c \in Controllers : cpc[c] \in {"checked", "spawn"}}

Init ==
    /\ queue = <<>>
    /\ active = {}
    /\ done = <<>>
    /\ status = [t \in Tasks |-> None]
    /\ running = FALSE
    /\ wpc = [w \in Workers |-> "new"]
    /\ holds = [w \in Workers |-> None]
    /\ cpc = [c \in Controllers |-> "idle"]
    /\ toSpawn = [c \in Controllers |-> 0]

-----------------------------------------------------------------------------
(* enqueue(): the new Task is appended under the lock. *)
Enqueue(t) ==
    /\ status[t] = None
    /\ status' = [status EXCEPT ![t] = "pending"]
    /\ queue' = Append(queue, t)
    /\ UNCHANGED <<active, done, workerVars, controlVars>>

(* `while self._running` *)
LoopHead(w) ==
    /\ wpc[w] = "head"
    /\ wpc' = [wpc EXCEPT ![w] = IF running THEN "take" ELSE "dead"]
    /\ UNCHANGED <<queue, active, done, status, holds, controlVars>>

(* The first lock section: remove a task and register it in _active. *)
TakeOut(w, t, rest) ==
    /\ wpc[w] = "take"
    /\ queue # <<>>
    /\ queue' = rest
    /\ active' = active \cup {t}
    /\ holds' = [holds EXCEPT ![w] = t]
    /\ wpc' = [wpc EXCEPT ![w] = "begin"]
    /\ UNCHANGED <<done, status, controlVars>>

\* Mutants: the task is read but not removed; pop() instead of pop(0).
TakeByPeek(w) == TakeOut(w, Head(queue), queue)
TakeNewest(w) == TakeOut(w, queue[Len(queue)], SubSeq(queue, 1, Len(queue) - 1))

(* self._queue.pop(0) *)
Take(w) == TakeOut(w, Head(queue), Tail(queue))

\* Mutant: a worker that finds nothing to do ends.
DozeForever(w) ==
    /\ wpc[w] = "take"
    /\ queue = <<>>
    /\ wpc' = [wpc EXCEPT ![w] = "dead"]
    /\ UNCHANGED <<queue, active, done, status, holds, controlVars>>

(* Nothing queued: sleep and go round again. *)
Doze(w) ==
    /\ wpc[w] = "take"
    /\ queue = <<>>
    /\ wpc' = [wpc EXCEPT ![w] = "head"]
    /\ UNCHANGED <<queue, active, done, status, holds, controlVars>>

\* Mutant: the status field is not updated when the task starts.
BeginSilently(w) ==
    /\ wpc[w] = "begin"
    /\ wpc' = [wpc EXCEPT ![w] = "exec"]
    /\ UNCHANGED <<queue, active, done, status, holds, controlVars>>

(* task.status = "running", unlocked. *)
Begin(w) ==
    /\ wpc[w] = "begin"
    /\ status' = [status EXCEPT ![holds[w]] = "running"]
    /\ wpc' = [wpc EXCEPT ![w] = "exec"]
    /\ UNCHANGED <<queue, active, done, holds, controlVars>>

(* fn returned, or raised an Exception: the outcome is stored unlocked. *)
Execute(w) ==
    /\ wpc[w] = "exec"
    /\ \E outcome \in {"done", "failed"} :
          status' = [status EXCEPT ![holds[w]] = outcome]
    /\ wpc' = [wpc EXCEPT ![w] = "file"]
    /\ UNCHANGED <<queue, active, done, holds, controlVars>>

(* fn raised SystemExit or another BaseException: the thread ends and the  *)
(* task stays where it is, in _active and "running".                       *)
Escape(w) ==
    /\ wpc[w] = "exec"
    /\ holds[w] \in Escaping
    /\ wpc' = [wpc EXCEPT ![w] = "dead"]
    /\ UNCHANGED <<queue, active, done, status, holds, controlVars>>

(* The second lock section. *)
File(w) ==
    /\ wpc[w] = "file"
    /\ active' = active \ {holds[w]}
    /\ done' = Append(done, holds[w])
    /\ holds' = [holds EXCEPT ![w] = None]
    /\ wpc' = [wpc EXCEPT ![w] = "head"]
    /\ UNCHANGED <<queue, status, controlVars>>

-----------------------------------------------------------------------------
(* start(): `if self._running: return`, no lock held.  The second guard     *)
(* bounds the model: a start is taken while the pool has threads for it.   *)
StartCheck(c) ==
    /\ cpc[c] = "idle"
    /\ ~running
    /\ Cardinality(Fresh) >= MaxWorkers * (1 + Cardinality(Promised))
    /\ cpc' = [cpc EXCEPT ![c] = "checked"]
    /\ UNCHANGED <<queue, active, done, status, workerVars, running, toSpawn>>

StartSet(c) ==
    /\ cpc[c] = "checked"
    /\ running' = TRUE
    /\ cpc' = [cpc EXCEPT ![c] = "spawn"]
    /\ toSpawn' = [toSpawn EXCEPT ![c] = MaxWorkers]
    /\ UNCHANGED <<queue, active, done, status, workerVars>>

(* One iteration of the for loop, which ends when `last` are left. *)
SpawnUntil(c, last) ==
    /\ cpc[c] = "spawn"
    /\ \E w \in Fresh : wpc' = [wpc EXCEPT ![w] = "head"]
    /\ toSpawn' = [toSpawn EXCEPT ![c] = @ - 1]
    /\ cpc' = [cpc EXCEPT ![c] = IF toSpawn[c] = last THEN "idle" ELSE "spawn"]
    /\ UNCHANGED <<queue, active, done, status, running, holds>>

\* Mutant: one iteration too many.
SpawnOneTooMany(c) == SpawnUntil(c, 0)

Spawn(c) == SpawnUntil(c, 1)

(* stop(): clear the flag, then join every thread ever created. *)
StopSet(c) ==
    /\ cpc[c] = "idle"
    /\ running' = FALSE
    /\ cpc' = [cpc EXCEPT ![c] = "join"]
    /\ UNCHANGED <<queue, active, done, status, workerVars, toSpawn>>

LeaveStop(c) ==
    /\ cpc[c] = "join"
    /\ cpc' = [cpc EXCEPT ![c] = "idle"]
    /\ UNCHANGED <<queue, active, done, status, workerVars, running, toSpawn>>

\* Mutant: stop() does not join the threads.
StopWithoutJoin(c) == LeaveStop(c)

(* The joins are over: each thread has ended, or has outlasted 5 s. *)
StopReturn(c) ==
    /\ Live = {} \/ LongTasks
    /\ LeaveStop(c)

-----------------------------------------------------------------------------
Work(w) == \/ LoopHead(w) \/ Take(w) \/ Doze(w) \/ Begin(w)
           \/ Execute(w) \/ Escape(w) \/ File(w)

Control(c) == \/ StartCheck(c) \/ StartSet(c) \/ Spawn(c)
              \/ StopSet(c) \/ StopReturn(c)

Next == \/ \E t \in Tasks : Enqueue(t)
        \/ \E w \in Workers : Work(w)
        \/ \E c \in Controllers : Control(c)

Spec == Init /\ [][Next]_vars

(* Threads are scheduled and fn terminates; a for loop that has begun to   *)
(* spawn goes on.  Nobody is obliged to call start() or stop().            *)
Fairness == /\ \A w \in Workers : WF_vars(Work(w))
            /\ \A c \in Controllers : WF_vars(Spawn(c))

FairSpec == Spec /\ Fairness

-----------------------------------------------------------------------------
TypeOK ==
    /\ queue \in Seq(Tasks)
    /\ active \in SUBSET Tasks
    /\ done \in Seq(Tasks)
    /\ status \in [Tasks -> {None, "pending", "running", "done", "failed"}]
    /\ running \in BOOLEAN
    /\ wpc \in [Workers ->
                  {"new", "head", "take", "begin", "exec", "file", "dead"}]
    /\ holds \in [Workers -> Tasks \cup {None}]
    /\ cpc \in [Controllers -> {"idle", "checked", "spawn", "join"}]
    /\ toSpawn \in [Controllers -> 0..MaxWorkers]

(* status(id) looks in _queue, then _active, then _done, under the lock,   *)
(* and answers with the status field, which a worker may have just changed *)
(* outside it.                                                             *)
Reported(t) ==
    IF t \in Elements(queue) \cup active \cup Elements(done)
    THEN status[t] ELSE "unknown"

Lifecycle == INSTANCE TaskLifecycle
                WITH view <- [t \in Tasks |-> Reported(t)]

(* Over any interleaving of workers, starts and stops, the answers of      *)
(* status() follow the lifecycle: no answer is lost between the two lock   *)
(* sections, and no task runs twice.                                       *)
ImplementsLifecycle == Lifecycle!Spec

(* No two threads, old or restarted, hold the same task, and a task is     *)
(* held by a thread exactly while it is in _active.                        *)
ActiveIsHeld ==
    /\ \A w, v \in Workers : holds[w] = holds[v] /\ holds[w] # None => w = v
    /\ \A t \in Tasks : t \in active <=> \E w \in Workers : holds[w] = t

(* A task is queued at most once, and is never in two of _queue, _active   *)
(* and _done: status(), which looks in one after the other, sees one Task. *)
OnePlace ==
    /\ \A i, j \in DOMAIN queue : queue[i] = queue[j] => i = j
    /\ Elements(queue) \cap active = {}
    /\ Elements(queue) \cap Elements(done) = {}
    /\ active \cap Elements(done) = {}

\* What the worker's position says of the task it holds.
StatusAt(pc) ==
    CASE pc = "begin" -> {"pending"}
      [] pc = "file"  -> {"done", "failed"}
      [] OTHER        -> {"running"}

(* Where a task is and which worker holds it agree with its status field.  *)
StatusMatchesPlace ==
    /\ \A t \in Tasks : status[t] = None <=>
          t \notin Elements(queue) /\ t \notin active /\ t \notin Elements(done)
    /\ \A t \in Elements(queue) : status[t] = "pending"
    /\ \A t \in Elements(done) : status[t] \in {"done", "failed"}
    /\ \A w \in Workers : holds[w] # None => status[holds[w]] \in StatusAt(wpc[w])

(* Program points at which a worker holds a task, a for loop an iteration. *)
PointsOK ==
    /\ \A w \in Workers :
          /\ wpc[w] \in {"begin", "exec", "file"} => holds[w] # None
          /\ wpc[w] \in {"new", "head", "take"} => holds[w] = None
    /\ \A c \in Controllers : cpc[c] = "spawn" => toSpawn[c] \in 1..MaxWorkers

IInv == TypeOK /\ PointsOK /\ ActiveIsHeld /\ OnePlace /\ StatusMatchesPlace

(* docs/versions/gap-analysis.md:261 "FIFO queue": a task never leaves the *)
(* queue before one that was ahead of it.                                  *)
NoOvertaking ==
    [][\A i, j \in DOMAIN queue :
          i < j /\ queue[j] \notin Elements(queue') =>
            queue[i] \notin Elements(queue')]_vars

(* max_workers bounds the threads that take tasks. *)
WorkerBound == Cardinality(Live) <= MaxWorkers

(* One caller's start() and stop() keep the pool at its size: never more    *)
(* than max_workers threads take tasks; while the queue is left running it *)
(* has every one of them, but for those a task has ended; and none is left *)
(* once stop() has returned.                                               *)
PoolSize ==
    /\ WorkerBound
    /\ \A c \in Controllers : cpc[c] = "idle" =>
          IF running THEN Cardinality(Live) + Cardinality(Lost) >= MaxWorkers ELSE Live = {}

(* While the queue is left running, every task that was enqueued is        *)
(* brought to an end, or ends the thread that runs it.                     *)
QueuedTasksFinish ==
    \A t \in Tasks :
        (t \in Elements(queue) /\ running)
            ~> (t \in Elements(done) \/ (\E w \in Lost : holds[w] = t) \/ ~running)
=============================================================================
