------------------------------ MODULE RepoSync ------------------------------
(***************************************************************************)
(* coderepository/core/repository.py over adapters/filesystem/             *)
(* sqlite_store.py: the sync of one repository into the tables `files` and *)
(* `manifest_entries`.                                                     *)
(*                                                                         *)
(* A job is one call of sync_repository ("full"),                          *)
(* sync_repository_incremental ("incremental") or                          *)
(* sync_repository_with_changes ("changes").  It looks at a file several   *)
(* times - stat, hash, read - while its owner goes on editing and other    *)
(* jobs go on syncing, so each look is a step.  A transaction of the store *)
(* is one step.  Any look and any transaction may also fail (Fails, Read). *)
(*                                                                         *)
(* A content stands for its SHA-256.  A stamp stands for (size, mtime):    *)
(* every edit gets a stamp never used before.                              *)
(***************************************************************************)
EXTENDS Naturals, FiniteSets

CONSTANTS
    Files,       \* paths no ignore rule excludes
    Textual,     \* those whose text is stored: code, doc, config, not too large
    Contents,    \* what a file may contain
    Jobs,        \* calls of the sync entry points
    MaxEdits,    \* bound on the edits, hence on the stamps
    None         \* no file, no row, no commit, no content

ASSUME RepoSyncAssumption ==
    /\ MaxEdits \in Nat
    /\ Textual \subseteq Files
    /\ None \notin Files \cup Contents
    /\ None \notin [content: Contents, stamp: Nat]
    /\ None \notin [hash: Contents, stamp: Nat]
    /\ None \notin [text: Contents \cup {None}, hash: Contents]

VARIABLES
    disk,       \* the working tree
    head,       \* what HEAD holds of each file
    clock,      \* the last stamp given out
    manifest,   \* table manifest_entries
    row,        \* table files: stored content and content_hash
    pc,         \* program point of each job
    mode,       \* its entry point
    todo,       \* files its loop has still to visit
    item,       \* what it holds of the file in hand
    changed,    \* the list it returns
    quiet,      \* history: since it began nobody edited and no other job ran
    passed,     \* history: the files the quiet job passed over after a failure
    torn        \* history: those whose text was torn when it began and not read since

tree   == <<disk, head, clock>>
tables == <<manifest, row>>
past   == <<quiet, passed, torn>>
vars   == <<tree, tables, pc, mode, todo, item, changed, past>>

\* The locals of _upsert_file_from_scan: rel_path, (size_bytes, mtime_epoch),
\* row["hash"], file_hash and content.
Item(f) == [file |-> f, stamp |-> 0, known |-> None, hash |-> None, text |-> None]

Looks == {"size", "stat", "compare", "hash", "upsert"}
Modes == {"full", "incremental", "changes"}
Resting == {j \in Jobs : pc[j] \in {"idle", "done", "failed"}}
OnDisk == {f \in Files : disk[f] # None}
\* git diff --name-only HEAD: tracked files that differ, deleted ones included.
Listed == {f \in Files : head[f] # None /\ (disk[f] = None \/ disk[f].content # head[f])}
\* What the content column holds beside a hash when nothing went wrong.
Text(f, hash) == IF f \in Textual THEN hash ELSE None
\* What item.read_text() may give: the file's text, or nothing.
Readings(f) == IF disk[f] = None THEN {None} ELSE {None, Text(f, disk[f].content)}
\* The text was read of another version than the hash, or could not be read.
Torn(f) == row[f] # None /\ row[f].text # Text(f, row[f].hash)

Init ==
    /\ disk = [f \in Files |-> None]
    /\ head = [f \in Files |-> None]
    /\ clock = 0
    /\ manifest = [f \in Files |-> None]
    /\ row = [f \in Files |-> None]
    /\ pc = [j \in Jobs |-> "idle"]
    /\ mode = [j \in Jobs |-> "full"]
    /\ todo = [j \in Jobs |-> {}]
    /\ item = [j \in Jobs |-> Item(None)]
    /\ changed = [j \in Jobs |-> {}]
    /\ quiet = [j \in Jobs |-> FALSE]
    /\ passed = {}
    /\ torn = {}

-----------------------------------------------------------------------------
\* From here on no call counts as undisturbed.
Disturb == /\ quiet' = [j \in Jobs |-> FALSE]
           /\ passed' = {}
           /\ torn' = {}

(* The owner of the working tree. *)
Edit(f, version) ==
    /\ clock < MaxEdits
    /\ clock' = clock + 1
    /\ disk' = [disk EXCEPT ![f] = version]
    /\ Disturb
    /\ UNCHANGED <<head, tables, pc, mode, todo, item, changed>>

Write(f, c) == Edit(f, [content |-> c, stamp |-> clock + 1])

Delete(f) == disk[f] # None /\ Edit(f, None)

(* git add and git commit of one path. *)
Commit(f) ==
    LET c == IF disk[f] = None THEN None ELSE disk[f].content
    IN  /\ head[f] # c
        /\ head' = [head EXCEPT ![f] = c]
        /\ Disturb
        /\ UNCHANGED <<disk, clock, tables, pc, mode, todo, item, changed>>

-----------------------------------------------------------------------------
(* A call begins: the files its loop will visit are listed once. *)
Begin(j, m, files) ==
    /\ j \in Resting
    /\ pc' = [pc EXCEPT ![j] = "next"]
    /\ mode' = [mode EXCEPT ![j] = m]
    /\ todo' = [todo EXCEPT ![j] = files]
    /\ changed' = [changed EXCEPT ![j] = {}]
    /\ quiet' = [k \in Jobs |-> k = j /\ Jobs \ {j} \subseteq Resting]
    /\ passed' = {}
    /\ torn' = IF Jobs \ {j} \subseteq Resting THEN {f \in Files : Torn(f)} ELSE {}
    /\ UNCHANGED <<tree, tables, item>>

(* sync_repository over walk_repository_paths; also what an incremental call  *)
(* falls back to when git fails or there is no VCS.                          *)
BeginFull(j) == Begin(j, "full", OnDisk)

BeginIncremental(j) == Begin(j, "incremental", Listed)

BeginChanges(j) == Begin(j, "changes", OnDisk)

-----------------------------------------------------------------------------
(* Leaving a file: `reported` is what is appended to the returned list. *)
Return(j, reported) ==
    /\ pc' = [pc EXCEPT ![j] = "next"]
    /\ todo' = [todo EXCEPT ![j] = @ \ {item[j].file}]
    /\ changed' = [changed EXCEPT ![j] = @ \cup reported]
    /\ item' = [item EXCEPT ![j] = Item(None)]

\* Mutant: only the paths written are reported.
VisitedUnreported(j) == {}

\* The incremental loop appends the path whether or not anything was written.
Visited(j) == IF mode[j] = "incremental" THEN {item[j].file} ELSE {}

(* An exception nothing catches ends the whole call. *)
Abort(j) ==
    /\ pc' = [pc EXCEPT ![j] = "failed"]
    /\ item' = [item EXCEPT ![j] = Item(None)]
    /\ todo' = [todo EXCEPT ![j] = {}]
    /\ changed' = [changed EXCEPT ![j] = {}]
    /\ Disturb

Goto(j, l, it) ==
    /\ pc' = [pc EXCEPT ![j] = l]
    /\ item' = [item EXCEPT ![j] = it]
    /\ UNCHANGED <<todo, changed>>

(* The next path of the loop.  The incremental loop first tests that it exists. *)
Select(j, f) ==
    /\ pc[j] = "next"
    /\ f \in todo[j]
    /\ \/ /\ mode[j] # "incremental"
          /\ Goto(j, "stat", Item(f))
       \/ /\ mode[j] = "incremental" /\ disk[f] # None
          /\ Goto(j, "size", Item(f))
       \/ /\ mode[j] = "incremental" /\ disk[f] = None
          /\ todo' = [todo EXCEPT ![j] = @ \ {f}]
          /\ UNCHANGED <<pc, item, changed>>
    /\ UNCHANGED <<tree, tables, mode, past>>

(* abs_path.stat().st_size for the ScannedFile. *)
Size(j) ==
    /\ pc[j] = "size"
    /\ disk[item[j].file] # None
    /\ Goto(j, "stat", item[j])
    /\ UNCHANGED <<tree, tables, mode, past>>

(* item.stat(). *)
Stat(j) ==
    LET version == disk[item[j].file]
    IN  /\ pc[j] = "stat"
        /\ version # None
        /\ Goto(j, "compare", [item[j] EXCEPT !.stamp = version.stamp])
        /\ UNCHANGED <<tree, tables, mode, past>>

\* Mutant: the manifest is believed without comparing the stamps.
CompareLoosely(j) ==
    LET entry == manifest[item[j].file]
    IN  /\ pc[j] = "compare"
        /\ IF entry # None
           THEN Return(j, Visited(j))
           ELSE Goto(j, "hash", item[j])
        /\ UNCHANGED <<tree, tables, mode, past>>

\* Mutant: the row is compared with the hash, not row["hash"].
CompareRow(j) ==
    /\ pc[j] = "compare"
    /\ Goto(j, "hash", [item[j] EXCEPT !.known = manifest[item[j].file]])
    /\ UNCHANGED <<tree, tables, mode, past>>

(* get_manifest_entry; same size and mtime: nothing to do. *)
Compare(j) ==
    LET entry == manifest[item[j].file]
    IN  /\ pc[j] = "compare"
        /\ IF entry # None /\ entry.stamp = item[j].stamp
           THEN Return(j, Visited(j))
           ELSE Goto(j, "hash", [item[j] EXCEPT !.known = IF entry = None THEN None ELSE entry.hash])
        /\ UNCHANGED <<tree, tables, mode, past>>

(* calculate_hash(); the hash of the manifest entry: nothing to write, and *)
(* the entry keeps its old stamp.                                          *)
Hash(j) ==
    LET version == disk[item[j].file]
    IN  /\ pc[j] = "hash"
        /\ version # None
        /\ IF version.content = item[j].known THEN Return(j, Visited(j))
           ELSE Goto(j, "read", [item[j] EXCEPT !.hash = version.content])
        /\ UNCHANGED <<tree, tables, mode, past>>

(* item.read_text(): a failure, of a file that is there too, is logged and *)
(* the row gets no content.                                                *)
Read(j) ==
    LET f == item[j].file
    IN  /\ pc[j] = "read"
        /\ \E text \in Readings(f) :
              /\ Goto(j, "upsert", [item[j] EXCEPT !.text = text])
              /\ torn' = IF ~quiet[j] THEN {}
                         ELSE IF text = Text(f, item[j].hash) THEN torn \ {f} ELSE torn \cup {f}
        /\ UNCHANGED <<tree, tables, mode, quiet, passed>>

Store(j, h, s) ==
    LET f == item[j].file
    IN  /\ pc[j] = "upsert"
        /\ row' = [row EXCEPT ![f] = [text |-> item[j].text, hash |-> h]]
        /\ manifest' = [manifest EXCEPT ![f] = [hash |-> h, stamp |-> s]]
        /\ Return(j, IF mode[j] = "full" THEN {} ELSE {f})
        /\ UNCHANGED <<tree, mode, past>>

\* Mutant: the entry gets the stamp the file has when it is written.
UpsertRestamped(j) ==
    LET version == disk[item[j].file]
    IN  Store(j, item[j].hash, IF version = None THEN item[j].stamp ELSE version.stamp)

(* upsert_file_and_manifest: both rows in one transaction. *)
Upsert(j) == Store(j, item[j].hash, item[j].stamp)

(* A look or a transaction raises, of a file that is there too: no         *)
(* permission, a file held open, a locked database.  "changes" logs it per *)
(* file and goes on, item.stat() has its own early return, and everything  *)
(* else ends the call.                                                     *)
Fails(j) ==
    /\ \/ /\ pc[j] \in Looks
          /\ mode[j] = "changes" \/ pc[j] = "stat"
          /\ Return(j, Visited(j))
          /\ passed' = IF quiet[j] THEN passed \cup {item[j].file} ELSE {}
          /\ UNCHANGED <<quiet, torn>>
       \/ /\ pc[j] = "next" \/ (pc[j] \in Looks /\ mode[j] # "changes")
          /\ Abort(j)
    /\ UNCHANGED <<tree, tables, mode>>

(* The loop is over.  (update_indexing_time then writes the time that is   *)
(* shown to users and read by no sync.)                                    *)
Finish(j) ==
    /\ pc[j] = "next"
    /\ todo[j] = {}
    /\ Goto(j, "done", item[j])
    /\ UNCHANGED <<tree, tables, mode, past>>

(* The process is killed: the tables stay. *)
Crash ==
    /\ Resting # Jobs
    /\ pc' = [j \in Jobs |-> IF j \in Resting THEN pc[j] ELSE "failed"]
    /\ item' = [j \in Jobs |-> Item(None)]
    /\ todo' = [j \in Jobs |-> {}]
    /\ changed' = [j \in Jobs |-> {}]
    /\ Disturb
    /\ UNCHANGED <<tree, tables, mode>>

-----------------------------------------------------------------------------
Owner == \/ \E f \in Files, c \in Contents : Write(f, c)
         \/ \E f \in Files : Delete(f) \/ Commit(f)

Step(j) == \/ BeginFull(j) \/ BeginIncremental(j) \/ BeginChanges(j)
           \/ \E f \in Files : Select(j, f)
           \/ Size(j) \/ Stat(j) \/ Compare(j) \/ Hash(j) \/ Read(j)
           \/ Upsert(j) \/ Fails(j) \/ Finish(j)

Next == Owner \/ (\E j \in Jobs : Step(j)) \/ Crash

Spec == Init /\ [][Next]_vars

-----------------------------------------------------------------------------
(* The hashes of f in both tables are that of the file on disk. *)
Current(f) == /\ row[f] # None /\ row[f].hash = disk[f].content
              /\ manifest[f] # None /\ manifest[f].hash = disk[f].content

ItemType == [file: Files \cup {None}, stamp: 0..MaxEdits, known: Contents \cup {None},
             hash: Contents \cup {None}, text: Contents \cup {None}]

(* Type correctness. *)
TypeOK ==
    /\ disk \in [Files -> [content: Contents, stamp: 1..MaxEdits] \cup {None}]
    /\ head \in [Files -> Contents \cup {None}]
    /\ clock \in 0..MaxEdits
    /\ manifest \in [Files -> [hash: Contents, stamp: 1..MaxEdits] \cup {None}]
    /\ row \in [Files -> [text: Contents \cup {None}, hash: Contents] \cup {None}]
    /\ pc \in [Jobs -> {"idle", "next", "size", "stat", "compare", "hash", "read",
                        "upsert", "done", "failed"}]
    /\ mode \in [Jobs -> Modes]
    /\ todo \in [Jobs -> SUBSET Files]
    /\ item \in [Jobs -> ItemType]
    /\ changed \in [Jobs -> SUBSET Files]
    /\ quiet \in [Jobs -> BOOLEAN]
    /\ passed \in SUBSET Files
    /\ torn \in SUBSET Files

(* The (size, mtime) shortcut never hides a change: whenever the manifest  *)
(* carries the stamp a file has now, it carries the file's hash, and the   *)
(* text stored with it is the file's or, after a failed read, none; never  *)
(* that of another version.  Edits between stat, hash and read and late    *)
(* writes of overlapping jobs included.                                    *)
ShortcutSound ==
    \A f \in Files : (/\ disk[f] # None
                      /\ manifest[f] # None
                      /\ manifest[f].stamp = disk[f].stamp)
                        => /\ manifest[f].hash = disk[f].content
                           /\ row[f].text \in Readings(f)

(* A full or "changes" call that ran undisturbed leaves the hashes of      *)
(* every file on disk current, but for the files it passed over after a    *)
(* failure, whatever earlier calls, crashed, failed or overlapping, left   *)
(* behind; and the stored text is the file's, unless it was torn when the  *)
(* call began or the call failed to read it.                               *)
QuietSyncCurrent ==
    \A j \in Jobs : (quiet[j] /\ pc[j] = "done" /\ mode[j] # "incremental")
                        => \A f \in OnDisk \ passed :
                              /\ Current(f)
                              /\ f \notin torn => row[f].text = Text(f, disk[f].content)

(* An undisturbed incremental call leaves the hashes of every modified     *)
(* tracked file current, unless stat failed on it, and names all of them   *)
(* in the list it returns for re-indexing.                                 *)
QuietIncrementalCurrent ==
    \A j \in Jobs : (quiet[j] /\ pc[j] = "done" /\ mode[j] = "incremental")
                        => \A f \in Listed \cap OnDisk :
                              f \in changed[j] /\ (f \in passed \/ Current(f))

(* If full calls keep completing and the file system and the store stop    *)
(* failing, the hashes end up current for good: a stale write of an        *)
(* overlapping call, a crash, an abort or a file passed over is made good. *)
Converges ==
    (/\ []<><<\E j \in Jobs : Finish(j) /\ mode[j] # "incremental">>_vars
     /\ <>[][\A j \in Jobs : ~Fails(j)]_vars)
        => <>[](\A f \in OnDisk : Current(f))
=============================================================================
