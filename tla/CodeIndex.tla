------------------------------ MODULE CodeIndex ------------------------------
(***************************************************************************)
(* codeindex/services/indexer.py: the files of one repository are parsed   *)
(* into the table `symbols`, and the calls between symbols into `edges`.   *)
(*                                                                         *)
(* A job is one call of index_repository, by its sequential path           *)
(* ("repository") or its worker pool ("pool"), or of index_files           *)
(* ("files").  Its files are processed concurrently, each looked at        *)
(* several times; other jobs run on the same tables and the owner goes on  *)
(* editing.  The sequential path goes through the process-wide AstCache.   *)
(*                                                                         *)
(* The symbols of a file are deleted and inserted together, under new      *)
(* uuids: one identity stands for them all, and for the file's own symbol, *)
(* which calls whatever the file calls.  Of the relations CALLS is         *)
(* modelled, the one that needs the symbols of two files.                  *)
(***************************************************************************)
EXTENDS Naturals, FiniteSets

CONSTANTS
    Files,       \* the rows of `files` whose classification is 'code'
    Versions,    \* what a file may contain
    Broken,      \* versions the parser reports an error for
    Names,       \* names of functions
    Defines,     \* the functions a version defines
    Calls,       \* the functions a version calls
    Jobs,
    Paths,       \* the paths a call may take: "repository", "pool", "files"
    MaxSymbols,  \* bound on the identities given out
    None

ASSUME CodeIndexAssumption ==
    /\ Broken \subseteq Versions
    /\ Defines \in [Versions -> SUBSET Names]
    /\ Calls \in [Versions -> SUBSET Names]
    /\ Paths \subseteq {"repository", "pool", "files"}
    /\ MaxSymbols \in Nat
    /\ None \notin Versions
    /\ None \notin [id: Nat, of: Versions]

VARIABLES
    disk,      \* the working tree
    legacy,    \* the files whose extension no tree-sitter parser handles; never changes
    sym,       \* table symbols: identity and version parsed, per file
    edges,     \* table edges, relation CALLS: pairs of identities
    nextId,    \* uuid4()
    cache,     \* AstCache: per path and content, the version its entry was parsed from
    pc,        \* program point of each job
    mode,
    stage,     \* program point of each job's task for each file
    held,      \* the task's locals: content until it is parsed, then parsed
    snap,      \* the symbol rows _resolve_edges_sqlite has read
    quiet      \* history: since it began no edit, other job, timeout or database error

tree   == <<disk, legacy>>
tables == <<sym, edges, nextId>>
tasks  == <<stage, held>>
vars   == <<tree, tables, cache, pc, mode, tasks, snap, quiet>>

\* "lost" and "unwritten" tasks count their file without having written it.
Counting == {"lost", "unwritten", "written"}
Ended == {"none", "skipped"} \cup Counting
Resting == {j \in Jobs : pc[j] \in {"idle", "done", "failed"}
                         /\ \A f \in Files : stage[j][f] \in Ended}

\* The CALLS edges _resolve_edges_sqlite inserts for the symbol rows s.
Links(s) ==
    {<<s[p[1]].id, s[p[2]].id>> :
        p \in {q \in Files \X Files :
                 /\ s[q[1]] # None /\ s[q[2]] # None
                 /\ Calls[s[q[1]].of] \cap Defines[s[q[2]].of] # {}}}

\* `pending` is not empty.
SomeCall(s) == \E f \in Files : s[f] # None /\ Calls[s[f].of] # {}

NoSymbols == [f \in Files |-> None]
NoTask == [f \in Files |-> "none"]

Init ==
    /\ disk = [f \in Files |-> None]
    /\ legacy \in SUBSET Files
    /\ sym = NoSymbols
    /\ edges = {}
    /\ nextId = 0
    /\ cache = [f \in Files |-> [v \in Versions |-> None]]
    /\ pc = [j \in Jobs |-> "idle"]
    /\ mode = [j \in Jobs |-> "files"]
    /\ stage = [j \in Jobs |-> NoTask]
    /\ held = [j \in Jobs |-> NoSymbols]
    /\ snap = [j \in Jobs |-> NoSymbols]
    /\ quiet = [j \in Jobs |-> FALSE]

-----------------------------------------------------------------------------
(* The owner writes or deletes a file. *)
Edit(f, v) ==
    /\ disk[f] # v
    /\ disk' = [disk EXCEPT ![f] = v]
    /\ quiet' = [j \in Jobs |-> FALSE]
    /\ UNCHANGED <<legacy, tables, cache, pc, mode, tasks, snap>>

(* A call begins; tasks a failed call left behind are over.  The second    *)
(* guard is the model's bound: calls begin while identities are left.      *)
Begin(j, m, files, start) ==
    /\ j \in Resting
    /\ nextId < MaxSymbols
    /\ mode' = [mode EXCEPT ![j] = m]
    /\ stage' = [stage EXCEPT ![j] = [f \in Files |-> IF f \in files THEN "wait" ELSE "none"]]
    /\ pc' = [pc EXCEPT ![j] = start]
    /\ quiet' = [k \in Jobs |-> k = j /\ Jobs \ {j} \subseteq Resting]
    /\ UNCHANGED <<tree, tables, cache, held, snap>>

BeginRepository(j) == \E m \in Paths \ {"files"} : Begin(j, m, Files, "reset")

\* Mutant: index_files resets the tables like index_repository.
BeginWithReset(j, files) == "files" \in Paths /\ Begin(j, "files", files, "reset")

BeginFiles(j, files) == "files" \in Paths /\ Begin(j, "files", files, "files")

\* Mutant: symbols are deleted, edges are not.
ResetSymbols(j) ==
    /\ pc[j] = "reset"
    /\ pc' = [pc EXCEPT ![j] = "files"]
    /\ sym' = NoSymbols
    /\ UNCHANGED <<tree, edges, nextId, cache, mode, tasks, snap, quiet>>

(* _reset_repo: one transaction. *)
Reset(j) ==
    /\ pc[j] = "reset"
    /\ pc' = [pc EXCEPT ![j] = "files"]
    /\ sym' = NoSymbols
    /\ edges' = {}
    /\ UNCHANGED <<tree, nextId, cache, mode, tasks, snap, quiet>>

(* It failed, which is logged, and the call goes on. *)
ResetFails(j) ==
    /\ pc[j] = "reset"
    /\ pc' = [pc EXCEPT ![j] = "files"]
    /\ quiet' = [quiet EXCEPT ![j] = FALSE]
    /\ UNCHANGED <<tree, tables, cache, mode, tasks, snap>>

-----------------------------------------------------------------------------
(* The task of job j for file f.  gather() does not stop the other tasks   *)
(* when one raises, so tasks run on in a call that has failed.             *)
At(j, f, s) == pc[j] \in {"files", "failed"} /\ stage[j][f] = s

To(j, f, s) == stage' = [stage EXCEPT ![j][f] = s]

\* What follows once the file is known to be there.
FirstRead(j, f) ==
    CASE f \in legacy -> IF mode[j] = "pool" THEN "skipped" ELSE "legacy"
      [] f \notin legacy /\ mode[j] = "repository" -> "read"
      [] OTHER -> "parse"

(* file_path.exists(); on the pool's path the stat() that follows has the  *)
(* same two outcomes.                                                      *)
Exists(j, f) ==
    /\ At(j, f, "wait")
    /\ To(j, f, CASE disk[f] = None -> "skipped"
                  [] disk[f] # None /\ mode[j] = "pool" -> FirstRead(j, f)
                  [] OTHER -> "stat")
    /\ UNCHANGED <<tree, tables, cache, pc, mode, held, snap, quiet>>

(* file_path.stat(), outside the try: a file that has vanished since       *)
(* exists() ends the call, not only its task.                              *)
StatFile(j, f) ==
    /\ At(j, f, "stat")
    /\ IF disk[f] # None
       THEN To(j, f, FirstRead(j, f)) /\ UNCHANGED pc
       ELSE To(j, f, "skipped") /\ pc' = [pc EXCEPT ![j] = "failed"]
    /\ UNCHANGED <<tree, tables, cache, mode, held, snap, quiet>>

(* The legacy path calls the coroutine function index_file without         *)
(* awaiting it: nothing is written, and the coroutine, being true, counts. *)
IndexLegacy(j, f) ==
    /\ At(j, f, "legacy")
    /\ To(j, f, IF disk[f] = None THEN "skipped" ELSE "unwritten")
    /\ UNCHANGED <<tree, tables, cache, pc, mode, held, snap, quiet>>

(* file_path.read_text() for the cache key. *)
ReadKey(j, f) ==
    /\ At(j, f, "read")
    /\ To(j, f, IF disk[f] = None THEN "skipped" ELSE "lookup")
    /\ held' = [held EXCEPT ![j][f] = disk[f]]
    /\ UNCHANGED <<tree, tables, cache, pc, mode, snap, quiet>>

\* Mutant: a result with an error is stored.
ParsedAlways(j, f, v) == held' = [held EXCEPT ![j][f] = v] /\ To(j, f, "persist")

\* Parsed data goes on to be stored, unless it reports an error.
Parsed(j, f, v) ==
    /\ held' = [held EXCEPT ![j][f] = IF v \in Broken THEN None ELSE v]
    /\ To(j, f, IF v \in Broken THEN "skipped" ELSE "persist")

\* A task ends; its locals go with it.
End(j, f, s) == held' = [held EXCEPT ![j][f] = None] /\ To(j, f, s)

(* AstCache.get() *)
Lookup(j, f) ==
    LET hit == cache[f][held[j][f]]
    IN  /\ At(j, f, "lookup")
        /\ IF hit # None THEN Parsed(j, f, hit) ELSE To(j, f, "parse") /\ UNCHANGED held
        /\ UNCHANGED <<tree, tables, cache, pc, mode, snap, quiet>>

ParseInto(j, f, entry) ==
    LET v == disk[f]
    IN  /\ At(j, f, "parse")
        /\ IF v = None
           THEN End(j, f, "skipped") /\ UNCHANGED cache
           ELSE /\ Parsed(j, f, v)
                /\ cache' = IF mode[j] = "repository" THEN [cache EXCEPT ![f][entry] = v] ELSE cache
        /\ UNCHANGED <<tree, tables, pc, mode, snap, quiet>>

\* Mutant: a file that could not be read is stored like any other.
ParseMissing(j, f) ==
    /\ At(j, f, "parse")
    /\ Parsed(j, f, disk[f])
    /\ UNCHANGED <<tree, tables, cache, pc, mode, snap, quiet>>

(* parser.parse(file_path) reads the file again; on the sequential path    *)
(* the result, an error included, is cached under the content read before. *)
Parse(j, f) == ParseInto(j, f, held[j][f])

(* wait_for gave up after PARSE_TIMEOUT_SECONDS. *)
ParseTimeout(j, f) ==
    /\ At(j, f, "parse")
    /\ mode[j] # "pool"
    /\ End(j, f, "skipped")
    /\ quiet' = [quiet EXCEPT ![j] = FALSE]
    /\ UNCHANGED <<tree, tables, cache, pc, mode, snap>>

\* pool.map returns when every file is parsed; only then is anything written.
MayWrite(j) ==
    mode[j] = "pool" => \A f \in Files : stage[j][f] \in Ended \cup {"persist"}

PersistAs(j, f, id) ==
    /\ At(j, f, "persist")
    /\ MayWrite(j)
    /\ nextId < MaxSymbols
    /\ nextId' = nextId + 1
    /\ sym' = [sym EXCEPT ![f] = [id |-> id, of |-> held[j][f]]]
    /\ End(j, f, "written")
    /\ UNCHANGED <<tree, edges, cache, pc, mode, snap, quiet>>

\* Mutant: the rows are updated in place and keep their identity.
PersistInPlace(j, f) == PersistAs(j, f, IF sym[f] = None THEN nextId ELSE sym[f].id)

(* _persist_raw_symbols: delete and insert in one transaction. *)
Persist(j, f) == PersistAs(j, f, nextId)

(* The transaction failed, which is logged; the file counts as indexed. *)
PersistFails(j, f) ==
    /\ At(j, f, "persist")
    /\ MayWrite(j)
    /\ End(j, f, "lost")
    /\ quiet' = [quiet EXCEPT ![j] = FALSE]
    /\ UNCHANGED <<tree, tables, cache, pc, mode, snap>>

-----------------------------------------------------------------------------
(* _resolve_edges_sqlite.  The symbols are read first, outside any         *)
(* transaction; without any the function returns.                          *)
ReadSymbols(j) ==
    /\ pc[j] = "files"
    /\ \A f \in Files : stage[j][f] \in Ended
    /\ snap' = [snap EXCEPT ![j] = sym]
    /\ pc' = [pc EXCEPT ![j] = IF sym = NoSymbols THEN "done" ELSE "link"]
    /\ UNCHANGED <<tree, tables, cache, mode, tasks, quiet>>

LinkWith(j, new) ==
    /\ pc[j] = "link"
    /\ edges' = new
    /\ pc' = [pc EXCEPT ![j] = "done"]
    /\ snap' = [snap EXCEPT ![j] = NoSymbols]
    /\ UNCHANGED <<tree, sym, nextId, cache, mode, tasks, quiet>>

\* Mutant: the new edges are added to the old ones.
LinkMore(j) == LinkWith(j, edges \cup Links(snap[j]))

(* CALLS edges are deleted and rebuilt, in one transaction, if there is a  *)
(* call to resolve.                                                        *)
Link(j) == LinkWith(j, IF SomeCall(snap[j]) THEN Links(snap[j]) ELSE edges)

(* A database error in either step is logged. *)
LinkFails(j) ==
    /\ pc[j] = "link"
    /\ pc' = [pc EXCEPT ![j] = "done"]
    /\ snap' = [snap EXCEPT ![j] = NoSymbols]
    /\ quiet' = [quiet EXCEPT ![j] = FALSE]
    /\ UNCHANGED <<tree, tables, cache, mode, tasks>>

(* The process is killed: tables stay, everything in memory is gone. *)
Crash ==
    /\ Resting # Jobs
    /\ pc' = [j \in Jobs |-> "idle"]
    /\ stage' = [j \in Jobs |-> NoTask]
    /\ held' = [j \in Jobs |-> NoSymbols]
    /\ snap' = [j \in Jobs |-> NoSymbols]
    /\ cache' = [f \in Files |-> [v \in Versions |-> None]]
    /\ quiet' = [j \in Jobs |-> FALSE]
    /\ UNCHANGED <<tree, tables, mode>>

-----------------------------------------------------------------------------
Task(j, f) == \/ Exists(j, f) \/ StatFile(j, f) \/ IndexLegacy(j, f)
              \/ ReadKey(j, f) \/ Lookup(j, f) \/ Parse(j, f) \/ ParseTimeout(j, f)
              \/ Persist(j, f) \/ PersistFails(j, f)

Job(j) == \/ BeginRepository(j)
          \/ \E files \in SUBSET Files : BeginFiles(j, files)
          \/ Reset(j) \/ ResetFails(j)
          \/ ReadSymbols(j) \/ Link(j) \/ LinkFails(j)

Next == \/ \E f \in Files, v \in Versions \cup {None} : Edit(f, v)
        \/ \E j \in Jobs : Job(j) \/ \E f \in Files : Task(j, f)
        \/ Crash

Spec == Init /\ [][Next]_vars

-----------------------------------------------------------------------------
Symbols == [id: 0..(MaxSymbols - 1), of: Versions]
Stages == Ended \cup {"wait", "stat", "legacy", "read", "lookup", "parse", "persist"}

(* Type correctness. *)
TypeOK ==
    /\ disk \in [Files -> Versions \cup {None}]
    /\ legacy \subseteq Files
    /\ sym \in [Files -> Symbols \cup {None}]
    /\ edges \subseteq (0..MaxSymbols) \X (0..MaxSymbols)
    /\ nextId \in 0..MaxSymbols
    /\ cache \in [Files -> [Versions -> Versions \cup {None}]]
    /\ pc \in [Jobs -> {"idle", "reset", "files", "link", "done", "failed"}]
    /\ mode \in [Jobs -> {"repository", "pool", "files"}]
    /\ stage \in [Jobs -> [Files -> Stages]]
    /\ held \in [Jobs -> [Files -> Versions \cup {None}]]
    /\ snap \in [Jobs -> [Files -> Symbols \cup {None}]]
    /\ quiet \in [Jobs -> BOOLEAN]

(* An edge between two symbols that exist is true: the caller's version    *)
(* calls something the callee's version defines, whatever races, stale     *)
(* snapshots and crashes produced the edge.                                *)
EdgesTrue ==
    \A f, g \in Files :
        (sym[f] # None /\ sym[g] # None /\ <<sym[f].id, sym[g].id>> \in edges)
            => Calls[sym[f].of] \cap Defines[sym[g].of] # {}

(* What the cache holds for a content was parsed from that content. *)
CacheSound ==
    \A f \in Files, v \in Versions : cache[f][v] \in {v, None}

Parsable(f) == disk[f] # None /\ disk[f] \notin Broken /\ f \notin legacy
Exact(f) == sym[f] # None /\ sym[f].of = disk[f]

(* An undisturbed index_repository leaves exactly the symbols and the      *)
(* calls of the files on disk - unless an earlier disturbed one has left   *)
(* a wrong entry in the cache.                                             *)
QuietIndexExact ==
    \A j \in Jobs :
        (quiet[j] /\ pc[j] = "done" /\ mode[j] # "files" /\ CacheSound)
            => /\ \A f \in Files : IF Parsable(f) THEN Exact(f) ELSE sym[f] = None
               /\ edges = Links(sym)

(* An undisturbed index_files leaves the symbols of the files it was given *)
(* up to date, where they can be parsed, and, if anything calls anything,  *)
(* exactly the calls between the symbols that are stored.                  *)
QuietFilesExact ==
    \A j \in Jobs :
        (quiet[j] /\ pc[j] = "done" /\ mode[j] = "files")
            => /\ \A f \in Files : stage[j][f] # "none" /\ Parsable(f) => Exact(f)
               /\ SomeCall(sym) => edges = Links(sym)

(* It touches no others: the symbols of a file it was not given stay, and  *)
(* so do the old ones of a file that is gone, no longer parses or has no   *)
(* parser.                                                                 *)
FilesTouchParsed ==
    [][\A j \in Jobs :
          (quiet[j] /\ quiet'[j] /\ pc[j] # "failed" /\ mode[j] = "files")
              => \A f \in Files : sym'[f] # sym[f] =>
                     stage[j][f] # "none" /\ Parsable(f) /\ Exact(f)']_vars
=============================================================================
