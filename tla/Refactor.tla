------------------------------ MODULE Refactor ------------------------------
(***************************************************************************)
(* coderefactor/services/refactor.py: rename_symbol, move_code_element and *)
(* rename_file.  Whom they must rewrite they learn from the index: from    *)
(* the call edges and from the contents the last sync stored.  They write  *)
(* one file after the other, commit, and re-index what they touched.       *)
(*                                                                         *)
(* A file is the names it defines and the names, of other files or of its  *)
(* own, that it uses.  Of a use it matters whether it is a call, for which *)
(* the index has an edge, or a mere mention (an import, a base class, an   *)
(* argument), for which it has none; and which refactorings search for     *)
(* and rewrite an import of its form: "from m import n" both of them,      *)
(* "from pkg import m" or an import from './m' none.  Elements that are    *)
(* moved use nothing themselves.  An index run and the rewriting of a file *)
(* are one step each.                                                      *)
(***************************************************************************)
EXTENDS Naturals, FiniteSets

CONSTANTS
    Paths,          \* of source files
    Nowhere,        \* where no file is
    Names,          \* of functions and classes
    Longer,         \* <<q, p>>: the module name of q begins with that of p
    ImportForms,    \* each by the kinds of refactoring that rewrite it
    Fitting,        \* files whose grammar knows the nodes the re-index asks for
    InitialTrees,   \* working trees to begin with
    MaxChanges      \* bound on the edits and refactorings of a behaviour

Use  == [from : Paths \cup {Nowhere}, name : Names, call : BOOLEAN,
         known : SUBSET {"move", "renameFile"}]
Text == [defs : SUBSET Names, uses : SUBSET Use]
IsTree(t) == DOMAIN t \subseteq Paths /\ t \in [DOMAIN t -> Text]

ASSUME RefactorAssumption ==
    /\ IsFiniteSet(Paths) /\ Nowhere \notin Paths
    /\ Names # {}
    /\ ImportForms \subseteq SUBSET {"move", "renameFile"}
    /\ \A t \in InitialTrees : IsTree(t)
    /\ MaxChanges \in Nat

VARIABLES
    tree,           \* the files there are, and what they define and use
    rows,           \* table files: path and content at the last sync
    symbols,        \* table symbols: path and name
    calls,          \* table edges: path of the caller, path and name of the called
    job,            \* the refactoring that runs or ran last
    changes,        \* number of edits and refactorings
    edited          \* history: an edit or a kill since the last index run

refactorVars == <<tree, rows, symbols, calls, job, changes, edited>>
refactorTables == <<rows, symbols, calls>>

SymbolsOf(t) == UNION {{f} \X t[f].defs : f \in DOMAIN t}
Called(text) == {u.name : u \in {v \in text.uses : v.call}}

\* _resolve_edges_sqlite: an edge to every symbol with the name.
CallsOf(t) ==
    {c \in (DOMAIN t) \X (DOMAIN t) \X Names : c[3] \in Called(t[c[1]]) \cap t[c[2]].defs}

\* Every name a file uses is defined where the file looks for it.
Finds(t, u) == u.from \in DOMAIN t /\ u.name \in t[u.from].defs
Resolved(t) == \A f \in DOMAIN t : \A u \in t[f].uses : Finds(t, u)
IndexExact == rows = tree /\ symbols = SymbolsOf(tree) /\ calls = CallsOf(tree)

RefactorInit ==
    /\ tree \in InitialTrees
    /\ rows = tree
    /\ symbols = SymbolsOf(tree)
    /\ calls = CallsOf(tree)
    /\ job = [kind |-> "none", at |-> "done"]
    /\ changes = 0
    /\ edited = FALSE

-----------------------------------------------------------------------------
(* The environment. *)
Change == changes < MaxChanges /\ changes' = changes + 1

Disturb ==
    /\ job' = IF job.kind = "none" THEN job ELSE [job EXCEPT !.whole = FALSE, !.sound = FALSE]
    /\ edited' = TRUE

(* A use of a definition there is, added or taken away. *)
EditUse(f) ==
    /\ job.at # "reindex"
    /\ \E s \in SymbolsOf(tree), call \in BOOLEAN, known \in ImportForms :
          LET uses == tree[f].uses
              u == [from |-> s[1], name |-> s[2], call |-> call, known |-> known]
          IN  tree' = [tree EXCEPT ![f].uses = IF u \in uses THEN uses \ {u} ELSE uses \cup {u}]
    /\ Change /\ Disturb
    /\ UNCHANGED refactorTables

(* A sync and an index run over the whole tree. *)
BuildIndex ==
    /\ job.at # "reindex"
    /\ ~IndexExact
    /\ rows' = tree /\ symbols' = SymbolsOf(tree) /\ calls' = CallsOf(tree)
    /\ edited' = FALSE
    /\ UNCHANGED <<tree, job, changes>>

(* The process is killed.  A rename can be asked for again: it finds what  *)
(* is left to do if the definition is written last.                        *)
KillRefactoring ==
    /\ job.at \in {"write", "paste", "commit"}
    /\ job' = [job EXCEPT !.at = "killed", !.sound = FALSE,
                          !.whole = @ /\ job.kind = "rename" /\ job.srcLast]
    /\ edited' = TRUE
    /\ UNCHANGED <<tree, refactorTables, changes>>

-----------------------------------------------------------------------------
NamesIn(text) == text.defs \cup {u.name : u \in text.uses}
NoText == [defs |-> {}, uses |-> {}]

\* _find_callers_by_name: the files with a call edge to the symbol.  Edges of other
\* kinds the join does not list, and an import's target is no symbol.
Callers(src, name) == {f \in DOMAIN tree : <<f, src, name>> \in calls}

\* _find_importers_by_path: the files in whose stored content the text of an import
\* is found, which may be the beginning of a longer one.
Importers(src) ==
    {f \in (DOMAIN rows) \ {src} :
        \E u \in rows[f].uses : /\ "renameFile" \in u.known
                                /\ u.from = src \/ <<u.from, src>> \in Longer}

\* _rewrite_import (renameFile) and _update_import_generic (move): the path, whichever
\* names are imported by it.  The former replaces a prefix of longer paths too.
Redirect(f, u, kind, src, dst) ==
    IF u.from = f \/ kind \notin u.known THEN u
    ELSE IF u.from = src THEN [u EXCEPT !.from = dst]
    ELSE IF kind = "renameFile" /\ <<u.from, src>> \in Longer THEN [u EXCEPT !.from = Nowhere]
    ELSE u
Redirected(f, uses, kind, src, dst) == {Redirect(f, u, kind, src, dst) : u \in uses}

Of(u, src, name) == u.from = src /\ u.name = name
DefinedOnce(src, name) == {f \in DOMAIN tree : name \in tree[f].defs} = {src}

\* Who uses the symbol calls it.
UsersCall(src, name) ==
    \A f \in DOMAIN tree : \A u \in tree[f].uses :
        Of(u, src, name) => \E v \in tree[f].uses : v.call /\ Of(v, src, name)

\* fits: the refactoring makes sense, for the symbol is the only one of its name and
\* the new name is free.  sound: when it was asked for, it fitted, every name
\* resolved, who used the symbol called it, and nobody had edited a file or killed a
\* refactoring since the last index run.  whole: when it was first asked for, it
\* fitted, every name resolved and the index was exact.
\* srcLast: the plan is sorted, and the absolute paths of the callers come before
\* the relative one of the definition, unless the symbol's own file calls it.
Begin(kind, at, src, dst, old, new, text, todo, touched, fits) ==
    LET again == job.at = "killed" /\ job.kind = "rename" /\ kind = "rename"
                 /\ <<job.src, job.old, job.new>> = <<src, old, new>>
        sensible == fits /\ Resolved(tree)
    IN  /\ Change
        /\ job' = [kind |-> kind, at |-> at, src |-> src, dst |-> dst, old |-> old, new |-> new,
                   text |-> text, todo |-> todo, touched |-> touched,
                   srcLast |-> <<src, src, old>> \notin calls,
                   sound |-> sensible /\ UsersCall(src, old) /\ ~edited,
                   whole |-> IF again THEN job.whole ELSE sensible /\ IndexExact]

Idle == job.at \in {"done", "killed"}

(* rename_symbol: the files the plan changes, whatever the names are. *)
BeginRename(src, old, new) ==
    /\ Idle
    /\ LET planned == {f \in (Callers(src, old) \cup {src}) \cap DOMAIN tree :
                          old \in NamesIn(tree[f]) /\ old # new}
           fits == DefinedOnce(src, old) /\ \A f \in DOMAIN tree : new \notin NamesIn(tree[f])
       IN  Begin("rename", "write", src, src, old, new, NoText, planned, planned, fits)
    /\ UNCHANGED <<tree, refactorTables, edited>>

(* move_code_element, up to the first write: source and target are read,   *)
(* and the source is written without the element.                          *)
BeginMove(src, name, dst) ==
    /\ Idle
    /\ src \in DOMAIN tree /\ name \in tree[src].defs
    /\ LET callers == Callers(src, name)
           text == IF dst \in DOMAIN tree THEN tree[dst] ELSE NoText
       IN  Begin("move", "paste", src, dst, name, name, text, callers, callers \cup {src, dst},
                 DefinedOnce(src, name) /\ src # dst)
    /\ tree' = [tree EXCEPT ![src].defs = @ \ {name}]
    /\ UNCHANGED <<refactorTables, edited>>

(* ... and the target with it, as it was read, a new file if need be. *)
Paste ==
    /\ job.at = "paste"
    /\ tree' = [f \in (DOMAIN tree) \cup {job.dst} |->
                  IF f = job.dst THEN [job.text EXCEPT !.defs = @ \cup {job.old}] ELSE tree[f]]
    /\ job' = [job EXCEPT !.at = "write", !.text = NoText]
    /\ UNCHANGED <<refactorTables, changes, edited>>

\* The text of a renamed file: its own names are in the new place, and relative
\* imports may look elsewhere from there.
Displaced(text, src, dst, lost) ==
    [text EXCEPT !.uses = {IF u.from = src THEN [u EXCEPT !.from = dst]
                           ELSE IF u \in lost THEN [u EXCEPT !.from = Nowhere]
                           ELSE u : u \in text.uses}]

(* rename_file, up to the rename.  An importer that is gone is an error. *)
BeginRenameFile(src, dst) ==
    /\ Idle
    /\ src \in DOMAIN tree /\ dst \notin DOMAIN tree
    /\ Importers(src) \subseteq DOMAIN tree
    /\ LET planned == {f \in Importers(src) :
                          Redirected(f, tree[f].uses, "renameFile", src, dst) # tree[f].uses}
           anyName == CHOOSE n \in Names : TRUE
       IN  Begin("renameFile", "write", src, dst, anyName, anyName, NoText, planned,
                 planned \cup {dst}, TRUE)
    /\ \E lost \in SUBSET {u \in tree[src].uses : "renameFile" \notin u.known} :
          tree' = [f \in ((DOMAIN tree) \ {src}) \cup {dst} |->
                     IF f = dst THEN Displaced(tree[src], src, dst, lost) ELSE tree[f]]
    /\ UNCHANGED <<refactorTables, edited>>

-----------------------------------------------------------------------------
Renamed(n) == IF n = job.old THEN job.new ELSE n

\* _rename_in_file: every identifier with the name, whose it may be.
RenamedText(text) ==
    [defs |-> {Renamed(n) : n \in text.defs},
     uses |-> {[u EXCEPT !.name = Renamed(u.name)] : u \in text.uses}]

RedirectedText(f, text) ==
    [text EXCEPT !.uses = Redirected(f, text.uses, job.kind, job.src, job.dst)]

\* Mutant: the file of the symbol is written first.
SourceFirst(f, files) == f = job.src \/ job.src \notin files

InTurn(f, files) == job.srcLast => (f # job.src \/ files = {f})

WriteFile(f) ==
    /\ job.at = "write"
    /\ f \in job.todo \cap DOMAIN tree
    /\ job.kind = "rename" => InTurn(f, job.todo)
    /\ tree' = [tree EXCEPT ![f] = IF job.kind = "rename" THEN RenamedText(@) ELSE RedirectedText(f, @)]
    /\ job' = [job EXCEPT !.todo = @ \ {f}]
    /\ UNCHANGED <<refactorTables, changes, edited>>

(* Everything is written; stage_and_commit, whose failure changes nothing. *)
CommitToGit ==
    /\ job.at = "write" /\ job.todo = {}
    /\ job' = [job EXCEPT !.at = "commit"]
    /\ UNCHANGED <<tree, refactorTables, changes, edited>>

BeginReindex ==
    /\ job.at = "commit"
    /\ job' = [job EXCEPT !.at = "reindex"]
    /\ UNCHANGED <<tree, refactorTables, changes, edited>>

(* _reindex_affected_files, one file of its transaction: without a row it  *)
(* is passed over; else its symbols and every edge from or to them are     *)
(* deleted.  If the query suits the grammar, which has to know all the     *)
(* node types it names, the symbols and the calls within them are entered  *)
(* again, each to some symbol of that name there is by then.               *)
ReindexFile(f) ==
    /\ job.at = "reindex"
    /\ f \in job.touched
    /\ job.kind = "rename" => InTurn(f, job.touched)
    /\ job' = [job EXCEPT !.touched = @ \ {f}]
    /\ LET others == {s \in symbols : s[1] # f}
           rest == {c \in calls : c[1] # f /\ c[2] # f}
           within == IF tree[f].defs = {} THEN {} ELSE Called(tree[f])
       IN  IF f \notin (DOMAIN tree) \cap DOMAIN rows THEN UNCHANGED <<symbols, calls>>
           ELSE IF f \notin Fitting THEN symbols' = others /\ calls' = rest
           ELSE /\ symbols' = others \cup ({f} \X tree[f].defs)
                /\ \E named \in SUBSET (within \cap {s[2] : s \in symbols'}) :
                      \E home \in [named -> Paths] :
                         /\ \A n \in named : <<home[n], n>> \in symbols'
                         /\ calls' = rest \cup {<<f, home[n], n>> : n \in named}
    /\ UNCHANGED <<tree, rows, changes, edited>>

FinishRefactoring ==
    /\ job.at = "reindex" /\ job.touched = {}
    /\ job' = [job EXCEPT !.at = "done"]
    /\ UNCHANGED <<tree, refactorTables, changes, edited>>

RefactorNext ==
    \/ BuildIndex \/ KillRefactoring \/ Paste \/ CommitToGit \/ BeginReindex \/ FinishRefactoring
    \/ \E f \in DOMAIN tree : EditUse(f) \/ WriteFile(f)
    \/ \E f \in Paths : ReindexFile(f)
    \/ \E src \in Paths, old, new \in Names : BeginRename(src, old, new)
    \/ \E src, dst \in Paths : \/ BeginRenameFile(src, dst)
                               \/ \E n \in Names : BeginMove(src, n, dst)

RefactorSpec == RefactorInit /\ [][RefactorNext]_refactorVars

-----------------------------------------------------------------------------
(* Type correctness. *)
RefactorTypeOK ==
    /\ IsTree(tree) /\ IsTree(rows)
    /\ symbols \subseteq Paths \X Names
    /\ calls \subseteq Paths \X Paths \X Names
    /\ job.kind \in {"none", "rename", "move", "renameFile"}
    /\ job.at \in {"write", "paste", "commit", "reindex", "done", "killed"}
    /\ job.kind # "none" =>
          /\ {job.src, job.dst} \subseteq Paths /\ {job.old, job.new} \subseteq Names
          /\ job.text \in Text /\ job.todo \subseteq Paths /\ job.touched \subseteq Paths
          /\ {job.srcLast, job.sound, job.whole} \subseteq BOOLEAN
    /\ changes \in 0..MaxChanges
    /\ edited \in BOOLEAN

\* A rename of a symbol, asked for with an exact index, also one that is repeated
\* after a kill, with or without an index run in between: the file of the symbol
\* and those that call it find every name.  A file that only mentions the symbol
\* may keep the old name, but loses nothing else.
RenameReachesCallers ==
    (job.at = "done" /\ job.kind = "rename" /\ job.whole) =>
        \A f \in DOMAIN tree : \A u \in tree[f].uses :
            \/ Finds(tree, u)
            \/ /\ Of(u, job.src, job.old) /\ f # job.src
               /\ \A v \in tree[f].uses :
                     v.call => ~Of(v, job.src, job.old) /\ ~Of(v, job.src, job.new)

\* A rename of a file, asked for with an exact index: who still looks in vain has
\* the file imported in a form that is not rewritten, or had imported one whose
\* name begins like that of the renamed file; or it is the renamed file itself and
\* has relative imports.
RenameFileReachesImporters ==
    (job.at = "done" /\ job.kind = "renameFile" /\ job.whole) =>
        \A f \in DOMAIN tree : \A u \in tree[f].uses :
            \/ Finds(tree, u)
            \/ u.from = job.src /\ "renameFile" \notin u.known
            \/ /\ u.from = Nowhere
               /\ IF "renameFile" \in u.known THEN \E q \in Paths : <<q, job.src>> \in Longer
                                              ELSE f = job.dst

\* A moved element is in the target only, and who calls it by an import that is
\* rewritten does not look for it in the source any more.
MoveReachesCallers ==
    (job.at = "done" /\ job.kind = "move" /\ job.whole) =>
        /\ job.old \in tree[job.dst].defs \ tree[job.src].defs
        /\ \A f \in (DOMAIN tree) \ {job.src} : \A u \in tree[f].uses :
              Of(u, job.src, job.old) /\ u.call => "move" \notin u.known

(* What a refactoring reaches that was asked for with an exact index: the  *)
(* callers that the index knows, and of the imports those in a form that   *)
(* the patterns know; a rename of a symbol also when it is killed and      *)
(* asked for again.  That is less than "across the codebase" (rename_symbol) *)
(* and "all imports across the codebase" (rename_file) say.                *)
RefactoringsReachKnown == RenameReachesCallers /\ RenameFileReachesImporters /\ MoveReachesCallers

(* "Rename a symbol across the codebase", also after refactorings of which *)
(* the knowledge graph was told: "Knowledge graph updated post-mutation".  *)
(* Files that mention the symbol without a call are left out of account.   *)
RenameAcrossCodebase ==
    (job.at = "done" /\ job.kind = "rename" /\ job.sound) => Resolved(tree)
=============================================================================
