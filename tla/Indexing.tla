------------------------------ MODULE Indexing ------------------------------
(***************************************************************************)
(* services/unified_indexing.py, services/auto_indexer.py and their        *)
(* callers: how a repository gets from the working tree through the table  *)
(* `files` into the table `symbols`, and what a search does that finds     *)
(* nothing.                                                                *)
(*                                                                         *)
(* RepoSync and CodeIndex model a sync and an indexing run in detail; here *)
(* a sync is one step and an indexing run one step per file, so that the   *)
(* question is which of them a request makes, and in which order.  Both    *)
(* may pass over a file and report success all the same: a stat that       *)
(* fails, a parse that times out or finds an error, a transaction that     *)
(* fails, a file that is gone.                                             *)
(***************************************************************************)
EXTENDS Naturals, FiniteSets

CONSTANTS
    Sources,       \* code files of the repository
    Requests,      \* calls of the service
    MaxVersion     \* number of contents a file may have

ASSUME IndexingAssumption == MaxVersion \in Nat

VARIABLES
    git,           \* the root is a git working tree
    disk,          \* content of each file, 0 if it does not exist
    known,         \* repositories has a row for the root
    rows,          \* files with a row in table files
    sym,           \* the content a file's symbols are of, 0 without symbols
    syncAge,       \* age of sync_at: "none", "fresh" or "stale"
    ipc,           \* program point of each request
    kind,          \* what is asked for
    todo,          \* files index_repository has still to index
    attempt,       \* of a search: how often it has been run
    outcome,       \* whether the indexing of the request succeeded
    calm,          \* history: since it began nothing else happened
    passed,        \* history: files the calm request passed over
    unreset        \* history: its deletion of the old symbols failed

indexingTables == <<known, rows, sym, syncAge>>
history == <<calm, passed, unreset>>
indexingVars == <<git, disk, indexingTables, ipc, kind, todo, attempt, outcome, history>>

\* "full": also mode="incremental" in an engine without an orchestrator.
\* "refresh": analyze(dry_run=False) and repo_sync in mode full.  "search": a
\* search with auto_index.
Kinds == {"full", "incremental", "refresh", "search"}
Tree == {f \in Sources : disk[f] > 0}
Settled == {r \in Requests : ipc[r] \in {"idle", "done", "failed"}}

IndexingInit ==
    /\ git \in BOOLEAN
    /\ disk = [f \in Sources |-> 0]
    /\ known = FALSE
    /\ rows = {}
    /\ sym = [f \in Sources |-> 0]
    /\ syncAge = "none"
    /\ ipc = [r \in Requests |-> "idle"]
    /\ kind = [r \in Requests |-> "full"]
    /\ todo = [r \in Requests |-> {}]
    /\ attempt = [r \in Requests |-> 0]
    /\ outcome = [r \in Requests |-> "none"]
    /\ calm = [r \in Requests |-> FALSE]
    /\ passed = {}
    /\ unreset = FALSE

-----------------------------------------------------------------------------
\* From here on no request counts as undisturbed.
Disturbed == /\ calm' = [r \in Requests |-> FALSE]
             /\ passed' = {}
             /\ unreset' = FALSE

(* The environment: a file is written, or deleted (content 0). *)
EditSource(f) ==
    /\ \E content \in 0..MaxVersion \ {disk[f]} : disk' = [disk EXCEPT ![f] = content]
    /\ Disturbed
    /\ UNCHANGED <<git, indexingTables, ipc, kind, todo, attempt, outcome>>

(* CODECORTEX_INDEX_TTL_DAYS go by. *)
SyncGrowsOld ==
    /\ syncAge = "fresh"
    /\ syncAge' = "stale"
    /\ UNCHANGED <<git, disk, known, rows, sym, ipc, kind, todo, attempt, outcome, history>>

(* The process is killed: the tables stay. *)
IndexingCrash ==
    /\ Settled # Requests
    /\ ipc' = [r \in Requests |-> IF r \in Settled THEN ipc[r] ELSE "failed"]
    /\ todo' = [r \in Requests |-> {}]
    /\ Disturbed
    /\ UNCHANGED <<git, disk, indexingTables, kind, attempt, outcome>>

-----------------------------------------------------------------------------
At(r, l) == ipc[r] = l
Step(r, l) == ipc' = [ipc EXCEPT ![r] = l]

Request(r, k) ==
    /\ r \in Settled
    /\ Step(r, CASE k = "refresh" -> "sync" [] k = "search" -> "find" [] OTHER -> "resolve")
    /\ kind' = [kind EXCEPT ![r] = k]
    /\ attempt' = [attempt EXCEPT ![r] = 0]
    /\ outcome' = [outcome EXCEPT ![r] = "none"]
    /\ UNCHANGED todo
    /\ calm' = [q \in Requests |-> q = r /\ Requests \ {r} \subseteq Settled]
    /\ passed' = {}
    /\ unreset' = FALSE
    /\ UNCHANGED <<git, disk, indexingTables>>

\* Mutant: the row is taken for a complete sync and nothing is indexed again.
ResolveKnown(r) ==
    /\ At(r, "resolve")
    /\ Step(r, IF git /\ known THEN "done" ELSE "sync")
    /\ UNCHANGED <<git, disk, indexingTables, kind, todo, attempt, outcome, history>>

(* _resolve_repo_id: the row of the git root.  A repository that is found  *)
(* is not synced again.                                                    *)
Resolve(r) ==
    /\ At(r, "resolve")
    /\ Step(r, IF git /\ known THEN "mode" ELSE "sync")
    /\ UNCHANGED <<git, disk, indexingTables, kind, todo, attempt, outcome, history>>

\* Mutant: a failed sync passes for one that went through.
SyncNeverFails(r) ==
    /\ At(r, "sync")
    /\ known' = TRUE
    /\ \E done \in SUBSET Tree : rows' = rows \cup done
    /\ syncAge' = "fresh"
    /\ Step(r, "mode")
    /\ UNCHANGED <<git, disk, sym, kind, todo, attempt, outcome, history>>

(* repo_service.sync_repository: rows for the files there are, but for     *)
(* those whose stat fails, or an exception after some of them, of which a  *)
(* search is not told: it runs again on what there is.  No row is removed. *)
Sync(r) ==
    /\ At(r, "sync")
    /\ known' = TRUE
    /\ \E done \in SUBSET Tree : rows' = rows \cup done
    /\ \/ /\ syncAge' = "fresh"
          /\ Step(r, "mode")
          /\ passed' = IF calm[r] THEN Tree \ rows' ELSE {}
          /\ UNCHANGED outcome
       \/ /\ Step(r, IF kind[r] = "search" THEN "find" ELSE "failed")
          /\ outcome' = [outcome EXCEPT ![r] = "error"]
          /\ UNCHANGED <<syncAge, passed>>
    /\ UNCHANGED <<git, disk, sym, kind, todo, attempt, calm, unreset>>

(* index_repository: the rows there are now. *)
ListRows(r) ==
    /\ At(r, "mode")
    /\ kind[r] # "incremental"
    /\ Step(r, "reset")
    /\ todo' = [todo EXCEPT ![r] = rows]
    /\ UNCHANGED <<git, disk, indexingTables, kind, attempt, outcome, history>>

\* Mutant: the old symbols are left to be overwritten.
KeepOld(r) ==
    /\ At(r, "reset")
    /\ Step(r, "index")
    /\ UNCHANGED <<git, disk, indexingTables, kind, todo, attempt, outcome, history>>

(* _reset_repo: all its symbols are deleted; a failure is logged. *)
ResetRepo(r) ==
    /\ At(r, "reset")
    /\ Step(r, "index")
    /\ \/ sym' = [f \in Sources |-> IF f \in rows THEN 0 ELSE sym[f]] /\ UNCHANGED unreset
       \/ unreset' = calm[r] /\ UNCHANGED sym
    /\ UNCHANGED <<git, disk, known, rows, syncAge, kind, todo, attempt, outcome, calm,
                   passed>>

(* sync_repository_incremental is called with the id of the repository in  *)
(* place of its path.  No VCS is found at that path, the full sync it      *)
(* falls back to lists no file, no change is reported and nothing indexed. *)
(* (It adds a repository without files, which nothing here reads.)         *)
SyncById(r) ==
    /\ At(r, "mode")
    /\ kind[r] = "incremental"
    /\ Step(r, "done")
    /\ UNCHANGED <<git, disk, indexingTables, kind, todo, attempt, outcome, history>>

(* _process_file: the file is parsed and its symbols replaced.  (A wrong   *)
(* entry of the AstCache would be served instead; CodeIndex has that.)     *)
IndexSource(r, f) ==
    /\ At(r, "index")
    /\ f \in todo[r]
    /\ disk[f] > 0
    /\ todo' = [todo EXCEPT ![r] = @ \ {f}]
    /\ sym' = [sym EXCEPT ![f] = disk[f]]
    /\ UNCHANGED <<git, disk, known, rows, syncAge, ipc, kind, attempt, outcome, history>>

(* ... or it is passed over: gone, too large, a parser that is missing,    *)
(* times out or finds an error, a failed transaction.                      *)
PassOver(r, f) ==
    /\ At(r, "index")
    /\ f \in todo[r]
    /\ todo' = [todo EXCEPT ![r] = @ \ {f}]
    /\ passed' = IF calm[r] THEN passed \cup {f} ELSE {}
    /\ UNCHANGED <<git, disk, indexingTables, ipc, kind, attempt, outcome, calm, unreset>>

(* The indexing run is over; a search starts anew. *)
FinishIndex(r) ==
    /\ At(r, "index")
    /\ todo[r] = {}
    /\ Step(r, IF kind[r] = "search" THEN "find" ELSE "done")
    /\ outcome' = [outcome EXCEPT ![r] = "ok"]
    /\ UNCHANGED <<git, disk, indexingTables, kind, todo, attempt, history>>

(* index_repository raises, of which a search is not told either. *)
IndexRaises(r) ==
    /\ At(r, "index")
    /\ Step(r, IF kind[r] = "search" THEN "find" ELSE "failed")
    /\ todo' = [todo EXCEPT ![r] = {}]
    /\ outcome' = [outcome EXCEPT ![r] = "error"]
    /\ UNCHANGED <<git, disk, indexingTables, kind, attempt, history>>

-----------------------------------------------------------------------------
Indexed == \E f \in Sources : sym[f] > 0

\* check_index_status: sync_at is looked up by the git root, and symbols
\* without a time are assumed stale.
NeedsUpdate == IF git /\ syncAge # "none" THEN syncAge = "stale" ELSE Indexed

\* Mutant: the second attempt may trigger the indexing again.
SearchAgain(r) ==
    /\ At(r, "find")
    /\ ~Indexed \/ NeedsUpdate
    /\ Step(r, "sync")
    /\ attempt' = [attempt EXCEPT ![r] = 1]
    /\ UNCHANGED <<git, disk, indexingTables, kind, todo, outcome, history>>

(* The first attempt found nothing and the index is empty or old:          *)
(* run_full_index, then a second attempt.                                  *)
AutoIndex(r) ==
    /\ At(r, "find")
    /\ attempt[r] = 0
    /\ ~Indexed \/ NeedsUpdate
    /\ Step(r, "sync")
    /\ attempt' = [attempt EXCEPT ![r] = 1]
    /\ UNCHANGED <<git, disk, indexingTables, kind, todo, outcome, history>>

(* Something was found, in the table of symbols or another one, or there   *)
(* is no reason to index.                                                  *)
Answer(r) ==
    /\ At(r, "find")
    /\ Step(r, "done")
    /\ UNCHANGED <<git, disk, indexingTables, kind, todo, attempt, outcome, history>>

Serve(r) == \/ Resolve(r) \/ Sync(r) \/ ListRows(r) \/ ResetRepo(r) \/ SyncById(r)
            \/ FinishIndex(r) \/ IndexRaises(r) \/ AutoIndex(r) \/ Answer(r)
            \/ \E f \in Sources : IndexSource(r, f) \/ PassOver(r, f)

IndexingNext ==
    \/ \E f \in Sources : EditSource(f)
    \/ SyncGrowsOld \/ IndexingCrash
    \/ \E r \in Requests : \/ \E k \in Kinds : Request(r, k)
                           \/ Serve(r)

IndexingFairness == \A r \in Requests : WF_indexingVars(Serve(r))
IndexingSpec == IndexingInit /\ [][IndexingNext]_indexingVars /\ IndexingFairness

-----------------------------------------------------------------------------
(* Type correctness. *)
IndexingTypeOK ==
    /\ {git, known} \subseteq BOOLEAN
    /\ disk \in [Sources -> 0..MaxVersion]
    /\ rows \subseteq Sources
    /\ sym \in [Sources -> 0..MaxVersion]
    /\ syncAge \in {"none", "fresh", "stale"}
    /\ ipc \in [Requests -> {"idle", "resolve", "sync", "mode", "reset", "index", "find", "done",
                            "failed"}]
    /\ kind \in [Requests -> Kinds]
    /\ todo \in [Requests -> SUBSET Sources]
    /\ attempt \in [Requests -> 0..1]
    /\ outcome \in [Requests -> {"none", "ok", "error"}]
    /\ calm \in [Requests -> BOOLEAN]
    /\ passed \subseteq Sources
    /\ unreset \in BOOLEAN

(* The symbols of a file are those of its content; a file that was passed  *)
(* over has none, or old ones if they could not be deleted.                *)
Exact(f) == IF f \in passed THEN sym[f] = 0 \/ unreset ELSE sym[f] = disk[f]

(* An undisturbed run that indexes leaves no file behind that has a row,   *)
(* but for those it passed over, and of these no old symbols, also after a *)
(* crash between the sync and the indexing.                                *)
QuietRunIndexesRows ==
    \A r \in Requests :
        (calm[r] /\ ipc[r] = "done" /\ kind[r] \in {"full", "refresh"})
            => \A f \in rows : Exact(f)

(* An undisturbed refresh, and a search whose indexing succeeded, is       *)
(* answered from all of the tree, files the table did not know included,   *)
(* but for the files passed over, and from nothing that is gone.           *)
WholeTreeAnswers ==
    \A r \in Requests :
        (calm[r] /\ ipc[r] = "done" /\ outcome[r] = "ok" /\ kind[r] \in {"refresh", "search"})
            => /\ Tree \subseteq rows \cup passed
               /\ \A f \in rows : Exact(f)

(* A search is answered, whatever its indexing did, and never goes on      *)
(* indexing (a crash ends it).                                             *)
SearchesEnd == \A r \in Requests : ipc[r] = "find" ~> ipc[r] \in {"done", "failed"}

(* What "AST indexing ... Supports full and incremental modes" promises of *)
(* an undisturbed incremental run: the indexed files that exist are up to  *)
(* date or were passed over.                                               *)
IncrementalIndexes ==
    \A r \in Requests :
        (calm[r] /\ ipc[r] = "done" /\ kind[r] = "incremental")
            => \A f \in rows \cap Tree : f \in passed \/ sym[f] = disk[f]
=============================================================================
