# CodeCortex: a TLA+ verification project

CodeCortex is a server that indexes source repositories into SQLite and answers
questions about them over MCP and HTTP.  This directory models the parts of it
whose correctness depends on order: tasks and background threads, the way from
the working tree through the tables to a search, files that several processes
share, and the algorithms that rewrite or order code.  TLC checks the models on
small instances; TLAPS proves the main invariants for every instance.  Paths are
relative to `src/src` unless they begin with `relay/`, `scripts/` or `docs/`.

## 1. The system

| Component | State it keeps | Operations | Interacts with | What makes it correct |
|---|---|---|---|---|
| Task queue `core/worker/queue.py` | `_queue`, `_active`, `_done`, `task.status`, `_running`, threads | enqueue, start, stop, worker loop, status | any caller; threads | every task runs once, in order; answers never go back; at most `max_workers` threads |
| Repository sync `modules/coderepository/core/repository.py` | tables `files`, `manifest_entries` | full, incremental and "with changes" sync | working tree, git; called by the pipeline | after an undisturbed call the hashes are those of the tree, but for files it failed at; the (size, mtime) shortcut hides no change |
| Symbol index `modules/codeindex/services/indexer.py` | tables `symbols`, `edges`; the AstCache | index_repository (sequential, pooled), index_files, edge resolution | reads `files`, the working tree | symbols and edges are those of the files; no edge is false |
| Indexing pipeline `services/unified_indexing.py`, `auto_indexer.py`, `unified_search.py` | which rows and symbols there are | index, analyze, repo_sync, a search that indexes | sync, then index | what is synced gets indexed or was passed over; a search answers from the tree, and ends |
| Indexing scheduler `services/unified_indexing.py` | engine, flag, loops | start, stop, replace the engine | tool calls; loop threads | loops end when stopped; none is lost |
| Shared server launcher `scripts/server/js/sse.cjs` | lock file, state file with reference count | ensureServer, terminate | several Node processes, one Python server | one owner of the lock; who is attached keeps the server |
| Updater `core/update/updater.py` | `_status`, latest check, signal file, tree | check, download, apply, dismiss | git, GitHub; background thread; other servers | the status settles; the signal tells the truth |
| File watcher `modules/filesystem/adapters/watcher.py` | collected changes, timer | events, debounce, flush, start, stop | observer and timer threads | every edit heard of reaches the callback |
| File writer `modules/filesystem/adapters/writer.py` | temporary files | `_write_file` | threads and processes with one target | the target is old or new, whole |
| Test and QA tasks `modules/codetester/services` | `execution_tasks`, in-memory tasks | run, status | background threads, webhook | an ended task has its result; the webhook agrees |
| Relay `relay/`, `scripts/server/tunnel.py` | tunnels, request queue | register, poll, respond, send, expire | server, device, local service | a result is answered after an execution only, a 502 after a failure only; an answer stays |
| Code graph `modules/codegraph/core/mro.py` | heritage map | compute_mro | symbol index | a linear order, that of C3 |
| Refactoring `modules/coderefactor/services/refactor.py` | tree, rows, symbols, edges | rename symbol, move element, rename file | writer, git, indexer | the callers the index knows and the imports the patterns know are rewritten |
| Repository sync tool `modules/coderepository/api/tools.py` | the sync's tables | repo_sync | - | registered by no server |
| Single-instance safeguard `main.py` | lock file, killed pids | start-up, exit | other instances | one survives |
| Parsers, deduplication, search, analysis, tools | none that several steps change | queries | the tables | - |

The hard behaviours are: threads and asyncio tasks over shared tables; files
that change while they are read several times; calls that fail or are killed
between two transactions; timeouts that abandon work which goes on; answers that
get lost; statuses that two threads write.  `PROJECT.json` lists them with their
lines under "hazards".

## 2. Modules

| Module | Models | Implements |
|---|---|---|
| `TaskLifecycle` | what a holder of a task id may rely on | |
| `TaskQueue` | the queue, its workers and the callers of start and stop | `TaskLifecycle` |
| `RepoSync` | calls of the three sync entry points over files that are edited, deleted and committed | |
| `CodeIndex` | calls of the indexer over files that are edited, deleted, broken or without a parser | |
| `Indexing` | which syncs and index runs a request makes, and in which order | |
| `Scheduler` | the engine of `get_indexing_engine()`, its flag and its loops | |
| `ServerSession` | what sharing a server promises: it stays the same and up while anyone uses it | |
| `SharedServer` | launchers, lock file, state file, Python servers | `ServerSession` while `troubles` is empty |
| `Updater` | checks, downloads, applies and dismissals of several servers | |
| `Watcher` | observer, handlers, timers and callback | |
| `AtomicFile` | what an atomic write promises | |
| `FileWriter` | `_write_file` in pieces, its temporary files | `AtomicFile` |
| `TestRun` | what qa_status promises of a test run | |
| `BackgroundTasks` | the test runs of QA and Tester in their threads | `TestRun` |
| `AtLeastOnce` | what the relay promises of a request | |
| `Relay` | server, tunnels, clients, and the tasks of a client | `AtLeastOnce` |
| `Mro` | compute_mro, call by call, with the lists its classes share | |
| `Refactor` | three refactorings, file by file, and the re-index after them | |
| `MCTaskQueue`, `MCRepoSync`, `MCCodeIndex` | instances of one module | |
| `MCQueueUpdater`, `MCStandalone`, `MCTools` | instances of several that share no state: `part` says which one a behaviour is of | |
| `TaskQueue_proofs`, `RepoSync_proofs`, `CodeIndex_proofs`, `Mro_proofs` | theorems about one module | |
| `UnifiedIndexing_proofs` | theorems about `Indexing` and `Scheduler` | |
| `Files_proofs` | theorems about `Watcher` and `FileWriter` | |
| `Services_proofs` | theorems about `BackgroundTasks`, `Relay`, `Updater`, and the instance `MCStandalone` | |
| `Tools_proofs` | theorems about `SharedServer`, `Refactor`, and the instance `MCTools` | |

**TaskQueue.**  A section under `_lock` is one step.  `_running` and
`task.status` are accessed without the lock and are steps of their own:
`LoopHead`, `Begin`, `Execute` and the two lock sections `Take` and `File` make
up `_worker_loop`; `StartCheck`, `StartSet`, `Spawn` are `start()`; `StopSet`,
`StopReturn` are `stop()`.  `LongTasks` says whether a task may outlast the 5 s
for which `stop()` joins a thread, `Escaping` which tasks may raise what
`except Exception` does not catch.

**RepoSync.**  A job is one call.  `_upsert_file_from_scan` looks at a file
several times, so `Size`, `Stat`, `Compare` (SELECT and shortcut), `Hash`,
`Read` and `Upsert` (one transaction for both rows) are separate steps between
which anything may happen.  A content stands for its hash; a stamp stands for
(size, mtime), and **every edit gets a stamp never used before**: this is the
assumption under which the shortcut is sound, and a file rewritten with the same
size within the resolution of its clock is outside the model.  `Textual` are the
files whose text is stored.  Everything that looks may fail, of a file that is
there too: `Read` then leaves the text out of the row, with the hash and the
stamp beside it; `Fails` is every other look and the transaction, which a
"changes" call logs per file and which ends the other calls (but for the stat,
which has an early return of its own).  History variables: `quiet[j]`, nobody
edited and no other call ran since job j began; `passed`, the files the quiet
call passed over; `torn`, those whose stored text was not that of their hash
when it began and that it has not read since.  `Current` speaks of the hashes;
the text is a conjunct of its own in `QuietSyncCurrent` and `ShortcutSound`.
`sync_repository` writes a time that no sync reads; it is left out.

**CodeIndex.**  A job is one call, and each file of it a task with its own
program point, as under `asyncio.gather`.  A version stands for a content and
its parse.  A file's symbols are replaced in one transaction under new uuids, so
one identity stands for them, the file's own `__file__` symbol included; hence a
call inside a file is an edge from an identity to itself.  `Link` deletes and
rebuilds CALLS edges from the rows `ReadSymbols` fetched before the transaction.
The pooled path writes when all files are parsed (`MayWrite`).  A task outlives
its call when another task's `stat()` raises (`StatFile`, `At`).  `legacy`, a
variable that is chosen once and never changes, are the files no tree-sitter
parser handles.  index_files leaves the old symbols of a file that is gone, no
longer parses or has no parser as they are (`FilesTouchParsed`).  An eviction from the AstCache is
left out: it is a miss, and a miss parses the file again.

**Indexing** takes what `RepoSync` and `CodeIndex` detail as single steps - a
sync, the indexing of one file - and asks which of them a request makes.  A kind
is an entry point: "full" and "incremental" are `index()` in its two modes,
"refresh" is `analyze(dry_run=False)` and `repo_sync`, "search" a search with
auto_index.  Both the sync and the indexing may pass over a file and still
report success: a stat that fails, a parser that times out or finds an error, a
transaction that fails, a file that is gone (`Sync`, `PassOver`); `ResetRepo`
deletes the old symbols first, or fails and is only logged.  `calm[r]` is the
history variable of an undisturbed request, `passed` the files it passed over,
`unreset` that its deletion failed.

**Scheduler.**  A call of start or stop is two steps (`TestFlag`, `LaunchLoop`;
`LowerFlag`, `Joined`), and a loop looks at the flag between runs and naps.
`Joined` is also the join that timed out; it puts the loop into `abandoned`.
There is one thread for tools, the event loop (`SchedulerAssumption`).

**SharedServer.**  Synchronous JavaScript between two awaits is one step; the
spinning on the lock file is not, since `FindStale` and `Break` are two system
calls.  A client is a process that lives once.  A server that is told to stop
goes on answering (`Answering`) until uvicorn has closed its port (`Stopped`),
while the lock is released at once: a launcher that comes in between attaches,
with a new state file and a count of 1, to a server that is about to go.
`troubles` records what voids the promises: a lock broken as stale; a server
that failed, missed a probe or was joined when it had been told to stop.
The users of `ServerSession` are the attached launchers, its host is the server
that answers: no variable of the model holds either.

**Updater.**  Each updater has two actors, the tool and the background thread,
with one `updateStatus` between them; all share the signal file and the tree.
`seen` is what a check has read, `copy` what a dismissal has: both are written
back later.  Versions are numbers in the order of releases.

**Watcher.**  `HandleEvent` collects, `Debounce` replaces the timer, `Flush`
takes what is collected, `CallBack` tells it, or raises, which is logged and
loses what it was given (`CallBackRaises`); the first two are the observer's
thread, the others the timer's.  Each `start()` makes a handler; old ones run on
until their timer has fired.

**FileWriter.**  A content is a pair of who wrote its halves, so a torn file is
one whose halves differ.  The temporary file belongs to the process, whose
threads therefore share it; `ProcessesApart` says that they do not write the
same path.  `AtomicFile` keeps who wrote the file and how far each write is.

**BackgroundTasks.**  Each transaction and each assignment to the in-memory task
is a step; the adapters are external programs with a verdict or an exception.
The columns of the QA tasks (`OfQA`) are the state of `TestRun`; a Tester task,
for which nobody can ask, has no part in it.

**Relay.**  No handler awaits and each commits once, so a handler is one step.
A request goes out with every poll until it is answered: `fetched`, `executed`
and `failed` count its tasks before the local call, with a result, and with the
502 that stands for a local server that cannot be reached or does not answer in
time; in the last case it may have executed the request all the same.  A later
answer replaces an earlier one, be it a 502 that replaces a result.  `Aware` are
the tunnels whose client finds its tunnel's id.  TunnelClient does not: it looks
for it beside the "data" in which the relay wraps it.  For the tunnels in
`Aware` the client is TunnelClient but for that line; the others are those of
TunnelClient as it is, which polls a tunnel "" that does not exist, so that
nothing of theirs is ever fetched.  `AtLeastOnce` has the tunnel a request was
sent to, the requests executed, failed at and answered, and which of the answers
are results.

**Mro.**  A behaviour builds a hierarchy class by class and then computes the
orders one by one, in any order.  The recursion of `linearize` is a stack of
calls: `VisitBase` is one round of the comprehension over the bases,
`MergeNext` one round of merge's loop, `NoCandidate` and `Spill` its way out of
an inconsistent hierarchy.  A call holds the lists it was given and what is left
of them; the last list of a merge is the one in `heritage`, which is consumed in
place.  `visited` is the set that one computation hands down, `warned` the
classes for which it logged an inconsistent hierarchy.  `C3` is the definition on
lists nobody shares, a recursive function.  A class is declared with distinct
bases that were declared before it (`AddClass`): bases that are cyclic, repeated
or of one name are outside the model, and with them the way out of an exception
(`mro.py:80`).

**Refactor.**  A file is the names it defines and what it uses, each use with
the file it looks in.  Of a use the model keeps what decides whether the
refactorings see it: whether it is a call, which has an edge, or a mere mention
(an import, a base class, an argument), which has none; and which refactorings
know the form of its import (`known`: `from m import n` both, `from pkg import
m` and JS's `./m` none).  Rows match by text, so a longer module name matches
too and is redirected to nowhere (`Longer`).  The callers come from `calls`, the
importers from the contents in `rows`; the writes are one step per file, then
commit and re-index.  The re-index enters only the calls within a definition,
each to some symbol of that name, and nothing where the grammar lacks a node type
its query names (`Fitting`).  A move writes the target as it was read at the
beginning (`job.text`): an edit in between is lost.  The job remembers whether
it was begun with an exact index (`whole`, `sound`).  An element that is moved
uses nothing itself.

**Failures.**  `Crash`, `Kill` and their like lose everything in memory and keep
tables and files, as SQLite and the file system do.  Failed transactions that
the code logs and passes over are actions of their own (`ResetFails`,
`PersistFails`, `LinkFails`, `PassOver`, `HandlerFails`, `WriteFails`,
`CheckFails`, ...).

## 3. What the runs check

Runs that pass:

| Run | Instance | Shows |
|---|---|---|
| `tq_safety` | 2 tasks, 4 threads, 2 callers, long and escaping tasks | the answers of status() follow the lifecycle; one place per task; registry equals what threads hold; FIFO |
| `tq_live` | queue: 3 tasks, one of them escaping, 4 threads, 1 caller, no long tasks; updater: 2 servers, 2 releases, the tool used in one | the pool has `max_workers` threads when it runs and none when it is stopped; what is queued finishes while the queue is left running; the status settles and the signal becomes true |
| `rs_sync` | 2 files, one of them textual, 2 contents, 2 calls that may overlap, 2 edits, any look or transaction failing | the shortcut hides no change of hash or text, though a text that could not be read stays out; an undisturbed call brings the hashes up to date but for the files it failed at, and tears no text it could read, whatever crashed or aborted before it; the hashes end up current for good if full calls keep completing and failures stop |
| `ci_bulk` | one call after another over 2 files, 3 versions, one of which does not parse: pooled and index_files with 2 parsable files and 4 identities; the sequential path with its AstCache too when one of the files is legacy, then for 2 identities | an undisturbed index_repository leaves exactly the symbols and edges of the disk; index_files those of its files that parse, the edges between all that is stored, and no other symbols touched |
| `ci_overlap` | 2 parsable files, 2 overlapping pooled calls, 3 identities | no edge between existing symbols is false; a call that turns out to have been alone leaves the exact index whatever an overlapping pair left before it |
| `standalone` | indexing: 2 files, 1 request after another, 2 versions; scheduler: 2 engines, 3 loops; relay: 2 tunnels, one of them with a client that knows its id, 2 requests, polls of 1; background: a QA and a Tester task; watcher: 2 files, 2 starts; writer: 3 calls in 1 to 3 processes | indexing leaves no row without its symbols but those it passed over, which keep no old ones; no loop is lost, none runs on; what a search, a loop, a background task or an edit waits for comes; the writer, the test runs and the relay do what `AtomicFile`, `TestRun` and `AtLeastOnce` promise |
| `tools` | launcher: 3 clients; linearisation: every hierarchy of 4 classes; refactoring: 3 trees of up to 3 files, 3 names, 2 changes | lock exclusion, that the launchers do what `ServerSession` promises and settle; each merge keeps the order of the lists it was given; the first class of a computation gets each ancestor once, unless it is warned about; a refactoring with an exact index reaches the callers the index knows and the imports the patterns know, also a rename that was killed and repeated |

Runs that find a disagreement between the code and what its text says:

| Run | Finding |
|---|---|
| `tq_start_race` | two callers in `start()` pass the unlocked test of `_running` and spawn twice `max_workers` threads |
| `ix_incremental` | an incremental run passes the repository's id where its path is expected: nothing is synced or indexed, and success is reported |
| `mro_all` | the merge of C3 consumes the lists of the heritage map: a class computed later loses ancestors |
| `mro_first` | a class met before returns a list without its ancestors, so that the lists merged may contradict each other where those of C3 do not: a consistent hierarchy is called inconsistent, and an ancestor comes twice |
| `rf_twice` | the re-index after a refactoring drops edges of other files and passes over renamed files: the next refactoring misses callers |

**Met while modelling, without a run.**

- A file that changes between hash and read is stored with the content of one
  version and the hash of another; once it is changed back the equal hash keeps
  every later sync from repairing it (`RepoSync` keeps both in `row`).
- A text that cannot be read is stored as none beside the right hash and stamp
  (`modules/coderepository/core/repository.py:228`); repeated full syncs take the
  shortcut and never fetch it.  `Converges` is therefore about the hashes.
- index_repository returns success for files it has passed over; after the reset
  they have no symbols, or old ones if the reset failed.
- The incremental sync compares with HEAD, not with the last sync: a change that
  was committed in between is not listed.
- A legacy file counts as indexed because the coroutine that should index it is
  never awaited and is truthy (the stage `unwritten`).
- The tunnel client reads `tunnel_id` at the top level of the registration's
  answer (`scripts/server/tunnel.py:63`), the relay puts it under "data"
  (`relay/main.py:118`): the client as it is never polls its own tunnel.
- A 502 of a second task may replace the result of the first (`INSERT OR
  REPLACE`, `relay/storage.py:186`), and no endpoint of the relay hands a stored
  response to whoever sent the request.
- A launcher that comes right after the last one has left attaches to a server
  that is shutting down and writes a state file for it (`sse.cjs:99`).
- `docs/concepts/mcp-node-python-server.md:131` says the last client stops the
  server; only the client that spawned it holds a process to stop.
- `code_tester` makes a new Tester for each call
  (`modules/codetester/api/tools.py:86`): a Tester task can never be asked for.
- The watcher drops moved and deleted files, and events that keep coming
  postpone the flush for ever; `LastEditsAreTold` asks for edits to end.
- Each `dispatch_indexing` replaces the engine (`api/orchestration.py:1906`):
  the old engine's loop runs on, and no tool reaches it.
- Threads of one process that write one path share the temporary file and may
  tear the target; `TargetIsWhole` is about processes.
- A dismissal that overlaps a check writes the older signal back.  One that does
  so at every check hides a release for ever, which is why `SignalCatchesUp`
  supposes that dismissals end.
- `apply()` is accepted after a check alone, though the tool says it "requires
  download first" (`api/tools.py:382`).  It merges the name
  `<url>/<branch>`, which git resolves in no ordinary clone; the model leaves
  the merge's outcome open.  When `uv sync` fails after the merge, later checks
  say up to date although the packages are old.  The backoff of
  `docs/concepts/auto-update.md` is not implemented.
- What refactorings do not reach: files that only mention a renamed symbol or
  subclass a renamed class, since only calls are edges (`refactor.py:1569`);
  imports in forms no pattern knows; the relative imports of a renamed file
  itself.  What they reach too much: modules whose name begins like the renamed
  one, and the other names of an import line that mentions a moved element.
- A move writes the target as it was when the move began.  rename_file cannot be
  repeated after a kill; a failed commit is ignored.

**Bounds.**  Tasks, threads, files, clients and calls are two to four: the
properties relate at most two of each, and every race here needs two actors.
`MaxEdits`, `MaxEdit`, `MaxVersion`, `MaxChanges`, `MaxRelease` allow a change
and one that overtakes it.  `MaxSymbols` counts identities: three are enough for
two stored files of which one is replaced while a resolution holds the old row;
four allow both to be replaced.  `CachedOrParsed` keeps the AstCache, whose
contents multiply the states, to the instances with one parsable file, stored
twice: once wrongly and once after that.  `MaxCopies` = 2 and `PollLimit` = 1 let a
request be polled again before its answer, one task of it succeed and another
fail, and a poll leave one behind.  Four
classes are the fewest with a diamond and a class above it.  `mro_first` has six
classes with at most two bases and looks at the first computation alone, of a
class declared before its ancestors (`FirstFamily`): with fewer classes there is
no disagreement to find.  In `TaskQueue` a
start is taken only while the pool has threads for it; in `tools` the clients
are launched in a fixed order (`LaunchedInOrder`), as they are interchangeable,
a rename takes the one name that is free in the beginning (`RenamedToFree`), and
the re-index suits one of the files (`FittingM1`);
in `tq_live` the agent of one server alone uses the updater (`OneToolUser`).
Deadlock is checked in `tq_safety`, `rs_sync` and the `ci_` runs; the
other behaviours end when every process is gone.

**Fairness.**  Threads are scheduled and tasks terminate (`TaskQueue`,
`BackgroundTasks`, `Scheduler`, `Watcher`: weak fairness of each thread).  A
request that is being served goes on (`Indexing`).  A launcher's timers fire and
a lock file gets old (`SharedServer`).  The updater's thread checks for ever, and GitHub
is not always down nor the disk always full (strong fairness of `CheckAnswers`
and `WriteSignal`).  Nobody is obliged to call, to start or to stop anything.
`Converges` assumes what it says, that full calls keep completing and from some
time on nothing fails.  The relay has no liveness property: a client that knows
its tunnel is not the repository's.  In the
instances of several components the ones that do not run are in initial states
that enable nothing with a fairness condition, so these conditions exclude no
behaviour of the others.

## 4. What is proved

TLAPS checks the following for every value of the constants.  The assumptions
are the named ASSUMEs of the modules: a "nothing" value differs from the others,
bounds are numbers, sets whose size counts are finite; besides,
`SchedulerAssumption` says there is one thread for tools and
`RefactorAssumption` that there is a name and that a behaviour begins in a tree.

*TaskQueue.*  `IInv` joins type correctness, program points (`PointsOK`),
`ActiveIsHeld`, `OnePlace` and `StatusMatchesPlace`; none of the last three is
inductive without the others, because what the second lock section may do
depends on what the first one registered.  From it follow `TypeCorrect`,
`ActiveTasksAreHeld`, `TasksInOnePlace`, `FirstInFirstOut`, and
`QueueImplementsLifecycle`: each step, mapped by the answer of status(), is a
step of `TaskLifecycle` or a stutter.  `OneStarterKeepsBound` has hypotheses of
its own, those under which the code keeps `WorkerBound`: one thread starts and
stops the queue and no task outlasts a join.  A stopped queue then has no
threads, and the threads together with the iterations left of the for loop are
at most max_workers (`StartsAndStops`).  `OneStarterKeepsPool` adds the other
half under the same hypotheses: while the flag is raised, a thread leaves the
pool only if its task ends it, and such a thread keeps the task in hand for ever
(`Lost`); so the threads started and not gone otherwise never get fewer
(`StaysFull`), and a running pool is full but for those.

*RepoSync.*  `ShortcutSound` needs `HashOfStamp`: a hash in hand is the file's
if the file still has the stamp in hand, since `Stat` comes before `Hash` and
stamps are not reused; the proof adds that no stamp lies in the future.  That
the text stored beside such a stamp is the file's as well needs the same of
`Read`, the second look at the file (`TextOfStamp`, `TextSound`): a file that
changes between the two is stored with a stamp it no longer has, so the next
sync does not take the shortcut.  A text that could not be read is the one
exception: it is stored as none, and `TextSound` allows that and nothing else.
For undisturbed calls `QInv` says that the hashes of row and manifest entry
agree, that what the call has statted has not changed, that every file it has
visited is passed over or has both hashes current (`Settled`), and that a row
whose text is not the file's was so when the call began, or could not be read,
or was passed over (`TornKnown`); this gives `FullSyncIsCurrent` and
`IncrementalSyncIsCurrent` from every state the tables can be in.  The second
speaks of hashes only.

*CodeIndex.*  `EdgesAlwaysTrue`: the call and the definition an edge stands for
are a property of the two identities, not of the moment.  The invariant
`Identities` says that whoever still knows an identity - the table or any
snapshot - knows the same version under it, that no edge mentions an identity
not yet given out, and that an edge is true of all who know its ends.  A stale
snapshot can therefore write useless edges but never false ones.
`IndexIsExact` and `FilesAreExact`: beside an undisturbed call all others rest,
so `Undisturbed` follows its steps alone.  `FileOK` says per stage of a file's
task what is settled, and where a wrong AstCache entry for the file's present
content (`Misled`) is the only excuse; `CallOK` adds the tables and the snapshot.
`FilesTouchOnlyParsed` is about the files that are none of the call's business:
broken files, files of the legacy parser and files it was not given keep their
rows, stale ones included; it rests on `FileOK` too, since what is stored comes
from a task's own parse.

*Mro.*  `MergesKeepOrders`: what merge takes next stands in no other list's tail,
and in its own list at the start only, as long as each list has its classes once
(`TakeKeeps`); hence every list loses its first classes only, in its own order.
That holds for every merge of every hierarchy, also of lists that an earlier
computation has consumed, since `CallsInv` shows that two calls on the stack
never share a list: no class is expanded twice at a time, and only the innermost
call merges.  `FirstGetsLinearOrder` is about the first computation as a whole: `RunInv`
follows the lists of all calls on the stack - a class that was visited is on the
stack, done, or still in a list to be merged - from which, when no merge found
itself without a candidate, the outermost order has every ancestor once, each
before its bases (`FirstInv`).  The result is linear, but where a merge has no
candidate although C3 has one it is not: `mro_first` shows that.  What goes wrong besides is between computations
(`mro_all`), when a later class finds lists an earlier one has consumed.

*SharedServer* (`Tools_proofs`).  `LockFileExcludes` is inductive together with the type.
`CountCovers` - the count is at least the number of attached launchers - compares
a number with a cardinality: its invariant counts, beside the attached launchers,
those that are about to join or to leave, and the proof moves one launcher at a
time between the sets (`FewerCounted`), using that a change of the count happens
inside the lock (`OneHolder`).  A server that was sent SIGTERM may answer probes
for a while: it does not count as up, and a launcher that joins it adds to
`troubles`.  `LaunchersImplementSession` needs both: a launcher
starts a server only when none answers, and a server is stopped at count 0 only,
when nobody is attached.  The step is one of `ServerSession` as long as nothing
of `troubles` has happened; `UntroubledIsSession` says so of whole behaviours.

*Refactor* (`Tools_proofs`).  `RefactoringsReach` needs, for each kind of refactoring, what is
left to do: the files still to be written are the only ones that name the symbol
by its old name (`RenameOK`) or place (`RenameFileOK`, `MoveOK`), as far as the
code can know them: calls that are edges of the index, and imports in a form the
textual search finds.  The other uses stay outside, as they do in the code.  A
move also needs that the text it is going to write is the one the target still
has, which an edit in between ends.  For a rename
that may be killed and repeated it adds that the file of the symbol is written
last and that the calls in the index still lead to every file left; an index run
in between keeps this because the definition is still there under its old name.

*Indexing and Scheduler* (`UnifiedIndexing_proofs`).  `IndexingInv` says where
each kind of request can be (`Routes`), that all others rest beside an
undisturbed one (`Alone`), and that what is not indexed is still to be
or was passed over (`Progressed`), in which case no older symbols are left either
unless the reset failed; `QuietRunsIndexRows` and `AnswersFromWholeTree` follow from every
state a crash can leave.  `RequestsRunOut` is what `SearchesEnd` rests on besides
fairness: `Left` counts the steps a request still has at most, each of its steps
lowers it, and no other step raises it; that a search has used up its first
attempt when it indexes (`IndexesOnce`) keeps it from starting over.  `LoopsAreKept`: a loop nobody gave up on runs under a
raised flag or a stop waits for it, and a launch happens under a lowered flag;
that there is one thread for tools makes the two exclude each other.

*FileWriter* (`Files_proofs`).  `OpenIsThere` - nobody writes into a file that is not there -
holds for threads too.  For writers in different processes `ApartInv` relates
the temporary file to the writer's program point; `TargetStaysWhole` and
`WriterImplementsAtomicFile` follow.

*Watcher* (`Files_proofs`).  `NoEditForgotten` is inductive; `CollectedHasTimer` (no property of a
run) rests on the order in which `_debounce` and `_flush` touch the timer.
Changes are forgotten only with a callback that raised.

*BackgroundTasks* (`Services_proofs`).  `QaImplementsTestRun`: `QaInv` ties row,
result and webhook to the thread's program point, and under it every transaction
of the thread is one step of `TestRun` or none, the error handler and the kill
included; it is needed because the thread tells the webhook what it remembers,
not what the row says.  `QaAnswersAgree` follows from `TestRun` alone: a row says
how its task ended exactly when it has a result, and what the webhook heard is
what the row says.  `TasksRunOut` is what `BackgroundTasksEnd` rests on besides
fairness, for the tasks of both services: `StepsToGo` falls with every step of
the thread and never rises, and at 0 there are a status and a result, or the
thread died.

*Relay* (`Services_proofs`).  `RelayImplementsAtLeastOnce`: `TasksInv` says that a
copy fetched is of a request that was sent, a copy executed is of one that ran,
and a copy that failed is of one the local server could not be asked.
`AnswersAreTrue` follows: a result is posted only of a request that was executed,
a 502 only after an attempt that failed, and either only of what was sent.  The
abstract specification allows a request to be executed twice, or to be answered
with a 502 and never executed, as the code does.
`RequestsMoveUp` says that no request is passed over for ever: as
requests are sent in the order of their numbers (`SentInOrder`), the line before
a waiting request only shortens, the first in line is polled however small the
limit, and it stays in every poll until it is answered.  That is about a client
that knows its tunnel; the repository's never does (section 3), so no run
claims that requests are answered.

*Updater* (`Services_proofs`).  `UpdateStatusSettles` rests on
`StageIsWorked`: a stage is shown only while one of the two threads is at work,
whichever of them wrote it, since whoever ends work sets another status.
`VersionsInOrder` - the tree follows what was fetched, that the releases, and
what a check has read was true once - gives `NeverDowngraded` and
`NoReleaseMissed`: a check that has seen the latest release and offers nothing
is right, though it read the tree's version before.

*The instances.*  `StandaloneCompose` and `ToolsCompose` say that a behaviour of
an instance of several components is one of each of them, fairness included, so
what is proved of a component holds in the run that checks it;
`StandaloneTypeCorrect` and `ToolsTypeCorrect` are what this gives for the type.

**Only model-checked.**  Liveness, since fairness and ENABLED are out of the
prover's reach: `QueuedTasksFinish`, `SignalCatchesUp`, `Converges`,
`SearchesEnd`, `StoppedLoopsEnd`, `BackgroundTasksEnd`,
`LastEditsAreTold` and `LaunchersSettle`.  Of some the part that is about steps
is proved: `RequestsRunOut`, `TasksRunOut`, `LoopsAreKept`,
`NoReleaseMissed` and, for the watcher, `NoEditForgotten` with
`CollectedHasTimer`.  Every other property of a passing run is a theorem.

## 5. Not modelled

- *Sync:* the SVN branch, sync_repository_paths, git history rows, repository and
  directory rows, the evaluation of ignore rules.  Each repeats the shape of
  what is modelled.
- *Index:* INHERITS, CLASS_INHERITS and IMPORTS edges, insights, the graph
  backend, scope resolution: further rows written in the same transactions.
- *Pipeline:* the providers other than the code index, mode "files", the graph
  build.
- *Writer:* append and in-place writes, backups, copy, move, delete, batches:
  they make no promise about interleaving (a batch is not atomic).
- *Refactoring:* dry runs, signature, extraction and folder operations and the
  modularisation: the same plan, write and re-index over other texts.
- *Code graph:* detect_method_overrides and the graph cache, which read tables.
- *Relay:* API keys and the cloud store, one transaction each.
- *Repository sync tool:* the `repo_sync` of `modules/coderepository/api/tools.py`
  is registered by no server (`main.py:899`); only tests import it.
- *Single-instance safeguard:* its state is the operating system's process list,
  whose ages and command lines it reads; a model would be of that list.
- *Parsers, search, analysis, insight, knowledge, deduplication, tools and HTTP:*
  text processing, queries over the tables, sections under one lock, or argument
  checking and formatting.  They are most of the repository's lines.
- `core/database` is not in the repository; it is taken at its use: a
  transaction happens entirely or not at all.  Authentication is left out.

## 6. Plan

1. What each fair step takes from, for the queue and the launchers.
2. The batch operations of the writer and their partial failures.
3. The further relations of the index, as rows of the same transactions.
