--------------------------- MODULE CodeIndex_proofs ---------------------------
(* Theorems about CodeIndex, for any files, versions, calls and jobs. *)
EXTENDS CodeIndex, TLAPS

USE DEF tree

-----------------------------------------------------------------------------
(* Type correctness. *)

\* Every stage a task can be sent to is one.
LEMMA StageNames ==
    /\ {"none", "skipped", "lost", "unwritten", "written"} \subseteq Stages
    /\ {"wait", "stat", "legacy", "read", "lookup", "parse", "persist"} \subseteq Stages
BY DEF Stages, Ended, Counting

\* A task that is to look something up, or to store it, holds it.
HeldOK ==
    \A j \in Jobs, f \in Files :
        stage[j][f] \in {"lookup", "persist"} => held[j][f] # None

Typed == TypeOK /\ HeldOK

\* The part of the state that only the tasks and their jobs change.
Locals ==
    /\ stage \in [Jobs -> [Files -> Stages]]
    /\ held \in [Jobs -> [Files -> Versions \cup {None}]]
    /\ HeldOK

\* Of a move of one task only what it holds in its new stage matters.
LEMMA MoveKeepsLocals ==
    ASSUME NEW j \in Jobs, NEW f \in Files, NEW s \in Stages,
           NEW h \in Versions \cup {None}, Locals,
           s \in {"lookup", "persist"} => h # None,
           To(j, f, s), held' = [held EXCEPT ![j][f] = h]
    PROVE  Locals'
<1>1. /\ stage' \in [Jobs -> [Files -> Stages]]
      /\ held' \in [Jobs -> [Files -> Versions \cup {None}]]
  BY DEF Locals, To
<1>2. ASSUME NEW k \in Jobs, NEW g \in Files, stage'[k][g] \in {"lookup", "persist"}
      PROVE  held'[k][g] # None
  <2>1. CASE k = j /\ g = f
    BY <2>1, <1>2 DEF Locals, To
  <2>2. CASE ~(k = j /\ g = f)
    <3>1. stage'[k][g] = stage[k][g] /\ held'[k][g] = held[k][g]
      BY <2>2 DEF Locals, To
    <3> QED  BY <3>1, <1>2 DEF Locals, HeldOK
  <2> QED  BY <2>1, <2>2
<1> QED  BY <1>1, <1>2 DEF Locals, HeldOK

\* A move that leaves the locals alone.
LEMMA ToKeepsLocals ==
    ASSUME NEW j \in Jobs, NEW f \in Files, NEW s \in Stages, Locals,
           s \in {"lookup", "persist"} => held[j][f] # None,
           To(j, f, s), UNCHANGED held
    PROVE  Locals'
<1>1. held[j][f] \in Versions \cup {None} /\ held' = [held EXCEPT ![j][f] = held[j][f]]
  BY DEF Locals
<1> QED  BY <1>1, MoveKeepsLocals

\* What the parser or the cache returns.
LEMMA ParsedKeepsLocals ==
    ASSUME NEW j \in Jobs, NEW f \in Files, NEW v \in Versions, Locals, Parsed(j, f, v)
    PROVE  Locals'
<1>1. CASE v \in Broken
  BY <1>1, MoveKeepsLocals, StageNames DEF Parsed
<1>2. CASE v \notin Broken
  BY <1>2, MoveKeepsLocals, StageNames, CodeIndexAssumption DEF Parsed
<1> QED  BY <1>1, <1>2

\* A task that ends.
LEMMA EndKeepsLocals ==
    ASSUME NEW j \in Jobs, NEW f \in Files, NEW s \in Ended, Locals, End(j, f, s)
    PROVE  Locals'
<1>1. s \in Stages /\ s \notin {"lookup", "persist"}
  BY DEF Stages, Ended, Counting
<1> QED  BY <1>1, MoveKeepsLocals DEF End

\* Each step of a task leaves the locals in order.
LEMMA TaskKeepsLocals ==
    ASSUME Typed, NEW j \in Jobs, NEW f \in Files, Task(j, f)
    PROVE  Locals'
<1>0. Locals /\ disk \in [Files -> Versions \cup {None}]
      /\ cache \in [Files -> [Versions -> Versions \cup {None}]]
  BY DEF Typed, TypeOK, Locals
<1>n. FirstRead(j, f) \in Stages \ {"lookup", "persist"}
  BY StageNames DEF FirstRead
<1>1. CASE Exists(j, f)
  <2>1. PICK s \in Stages \ {"lookup", "persist"} : To(j, f, s)
    BY <1>1, <1>n, StageNames DEF Exists
  <2> QED  BY <2>1, <1>0, <1>1, ToKeepsLocals DEF Exists
<1>2. CASE StatFile(j, f)
  <2>1. PICK s \in Stages \ {"lookup", "persist"} : To(j, f, s)
    BY <1>2, <1>n, StageNames DEF StatFile
  <2> QED  BY <2>1, <1>0, <1>2, ToKeepsLocals DEF StatFile
<1>3. CASE IndexLegacy(j, f)
  <2>1. PICK s \in Stages \ {"lookup", "persist"} : To(j, f, s)
    BY <1>3, StageNames DEF IndexLegacy
  <2> QED  BY <2>1, <1>0, <1>3, ToKeepsLocals DEF IndexLegacy
<1>4. CASE ReadKey(j, f)
  <2>1. CASE disk[f] = None
    BY <2>1, <1>0, <1>4, MoveKeepsLocals, StageNames DEF ReadKey
  <2>2. CASE disk[f] # None
    BY <2>2, <1>0, <1>4, MoveKeepsLocals, StageNames DEF ReadKey
  <2> QED  BY <2>1, <2>2
<1>5. CASE Lookup(j, f)
  <2> DEFINE hit == cache[f][held[j][f]]
  <2>1. held[j][f] \in Versions
    BY <1>0, <1>5 DEF Lookup, At, Locals, HeldOK
  <2>2. CASE hit # None
    <3>1. hit \in Versions /\ Parsed(j, f, hit)
      BY <2>1, <2>2, <1>0, <1>5 DEF Lookup
    <3> QED  BY <3>1, <1>0, ParsedKeepsLocals
  <2>3. CASE hit = None
    BY <2>3, <1>0, <1>5, ToKeepsLocals, StageNames DEF Lookup
  <2> QED  BY <2>2, <2>3
<1>6. CASE Parse(j, f)
  <2>1. CASE disk[f] = None
    BY <2>1, <1>0, <1>6, EndKeepsLocals DEF Parse, ParseInto, Ended
  <2>2. CASE disk[f] # None
    BY <2>2, <1>0, <1>6, ParsedKeepsLocals DEF Parse, ParseInto
  <2> QED  BY <2>1, <2>2
<1>7. CASE ParseTimeout(j, f)
  BY <1>0, <1>7, EndKeepsLocals DEF ParseTimeout, Ended
<1>8. CASE Persist(j, f)
  BY <1>0, <1>8, EndKeepsLocals DEF Persist, PersistAs, Ended, Counting
<1>9. CASE PersistFails(j, f)
  BY <1>0, <1>9, EndKeepsLocals DEF PersistFails, Ended, Counting
<1> QED  BY <1>1, <1>2, <1>3, <1>4, <1>5, <1>6, <1>7, <1>8, <1>9 DEF Task

\* The tables, the disk and the jobs' own variables.
Shared ==
    /\ disk \in [Files -> Versions \cup {None}]
    /\ legacy \subseteq Files
    /\ sym \in [Files -> Symbols \cup {None}]
    /\ edges \subseteq (0..MaxSymbols) \X (0..MaxSymbols)
    /\ nextId \in 0..MaxSymbols
    /\ cache \in [Files -> [Versions -> Versions \cup {None}]]
    /\ pc \in [Jobs -> {"idle", "reset", "files", "link", "done", "failed"}]
    /\ mode \in [Jobs -> {"repository", "pool", "files"}]
    /\ snap \in [Jobs -> [Files -> Symbols \cup {None}]]
    /\ quiet \in [Jobs -> BOOLEAN]

\* Typed splits into what tasks alone change and the rest.
LEMMA TypedParts == Typed <=> Shared /\ Locals
BY DEF Typed, TypeOK, Shared, Locals

\* A step of a task keeps the rest of the state typed.
LEMMA TaskKeepsShared ==
    ASSUME Typed, NEW j \in Jobs, NEW f \in Files, Task(j, f)
    PROVE  Shared'
<1>0. Shared /\ Locals
  BY TypedParts
<1>1. CASE Exists(j, f)  BY <1>0, <1>1 DEF Exists, Shared, tables
<1>2. CASE StatFile(j, f)  BY <1>0, <1>2 DEF StatFile, Shared, tables
<1>3. CASE IndexLegacy(j, f)  BY <1>0, <1>3 DEF IndexLegacy, Shared, tables
<1>4. CASE ReadKey(j, f)  BY <1>0, <1>4 DEF ReadKey, Shared, tables
<1>5. CASE Lookup(j, f)  BY <1>0, <1>5 DEF Lookup, Shared, tables
<1>6. CASE Parse(j, f)
  <2>1. cache' \in [Files -> [Versions -> Versions \cup {None}]]
    <3> DEFINE v == disk[f]  entry == held[j][f]
    <3>1. CASE UNCHANGED cache
      BY <3>1, <1>0 DEF Shared
    <3>2. CASE v # None /\ cache' = [cache EXCEPT ![f][entry] = v]
      <4>1. v \in Versions
        BY <3>2, <1>0 DEF Shared
      <4>2. [cache[f] EXCEPT ![entry] = v] \in [Versions -> Versions \cup {None}]
        BY <4>1, <1>0 DEF Shared
      <4> HIDE DEF v, entry
      <4> QED  BY <4>2, <3>2, <1>0 DEF Shared
    <3> QED  BY <3>1, <3>2, <1>6 DEF Parse, ParseInto
  <2> QED  BY <2>1, <1>0, <1>6 DEF Parse, ParseInto, Shared, tables
<1>7. CASE ParseTimeout(j, f)  BY <1>0, <1>7 DEF ParseTimeout, Shared, tables
<1>8. CASE Persist(j, f)
  <2>1. held[j][f] \in Versions
    BY <1>0, <1>8 DEF Persist, PersistAs, At, Locals, HeldOK
  <2>2. /\ nextId \in 0..(MaxSymbols - 1)
        /\ nextId' \in 0..MaxSymbols
    BY <1>0, <1>8, CodeIndexAssumption DEF Persist, PersistAs, Shared
  <2>3. [id |-> nextId, of |-> held[j][f]] \in Symbols
    BY <2>1, <2>2 DEF Symbols
  <2> HIDE DEF Symbols
  <2> QED  BY <2>2, <2>3, <1>0, <1>8 DEF Persist, PersistAs, Shared
<1>9. CASE PersistFails(j, f)  BY <1>0, <1>9 DEF PersistFails, Shared, tables
<1> QED  BY <1>1, <1>2, <1>3, <1>4, <1>5, <1>6, <1>7, <1>8, <1>9 DEF Task

\* The edges a snapshot yields join identities.
LEMMA LinksTyped ==
    ASSUME NEW s \in [Files -> Symbols \cup {None}]
    PROVE  Links(s) \subseteq (0..MaxSymbols) \X (0..MaxSymbols)
<1>1. \A f \in Files : s[f] # None => s[f].id \in 0..MaxSymbols
  BY CodeIndexAssumption DEF Symbols
<1> QED  BY <1>1 DEF Links

\* A step of a call keeps everything typed.
LEMMA JobKeepsTyped ==
    ASSUME Typed, NEW j \in Jobs, Job(j)
    PROVE  Typed'
<1>0. Shared /\ Locals
  BY TypedParts
<1>b. ASSUME NEW m \in {"repository", "pool", "files"}, NEW files \in SUBSET Files,
             NEW start \in {"reset", "files"}, Begin(j, m, files, start)
      PROVE  Typed'
  <2>1. Shared'
    BY <1>0, <1>b DEF Begin, Shared, tables
  <2>2. [f \in Files |-> IF f \in files THEN "wait" ELSE "none"] \in [Files -> Stages]
    BY StageNames
  <2>3. stage' \in [Jobs -> [Files -> Stages]] /\ UNCHANGED held
    BY <2>2, <1>0, <1>b DEF Begin, Locals
  <2>4. HeldOK'
    BY <1>0, <1>b DEF Begin, Locals, HeldOK
  <2> QED  BY <2>1, <2>3, <2>4, <1>0, TypedParts DEF Locals, Typed, TypeOK, Shared
<1>1. CASE BeginRepository(j)
  <2>1. PICK m \in Paths \ {"files"} : Begin(j, m, Files, "reset")
    BY <1>1 DEF BeginRepository
  <2> QED  BY <2>1, <1>b, CodeIndexAssumption
<1>2. ASSUME NEW files \in SUBSET Files, BeginFiles(j, files)  PROVE Typed'
  BY <1>2, <1>b DEF BeginFiles
<1>l. ASSUME UNCHANGED <<stage, held>>  PROVE Locals'
  BY <1>0, <1>l DEF Locals, HeldOK
<1>3. CASE Reset(j)
  <2>1. NoSymbols \in [Files -> Symbols \cup {None}]
    BY DEF NoSymbols
  <2>2. Shared'
    BY <2>1, <1>0, <1>3 DEF Reset, Shared
  <2> QED  BY <2>2, <1>l, <1>3, TypedParts DEF Reset, tasks, Typed, TypeOK, Shared, Locals
<1>4. CASE ResetFails(j)
  <2>1. Shared'
    BY <1>0, <1>4 DEF ResetFails, Shared, tables
  <2> QED  BY <2>1, <1>l, <1>4 DEF ResetFails, tasks, Typed, TypeOK, Shared, Locals
<1>5. CASE ReadSymbols(j)
  <2>1. Shared'
    BY <1>0, <1>5 DEF ReadSymbols, Shared, tables
  <2> QED  BY <2>1, <1>l, <1>5 DEF ReadSymbols, tasks, Typed, TypeOK, Shared, Locals
<1>6. CASE Link(j)
  <2>1. /\ Links(snap[j]) \subseteq (0..MaxSymbols) \X (0..MaxSymbols)
        /\ NoSymbols \in [Files -> Symbols \cup {None}]
    BY <1>0, LinksTyped DEF Shared, NoSymbols
  <2>2. Shared'
    BY <2>1, <1>0, <1>6 DEF Link, LinkWith, Shared
  <2> QED  BY <2>2, <1>l, <1>6 DEF Link, LinkWith, tasks, Typed, TypeOK, Shared, Locals
<1>7. CASE LinkFails(j)
  <2>1. NoSymbols \in [Files -> Symbols \cup {None}]
    BY DEF NoSymbols
  <2>2. Shared'
    BY <2>1, <1>0, <1>7 DEF LinkFails, Shared, tables
  <2> QED  BY <2>2, <1>l, <1>7 DEF LinkFails, tasks, Typed, TypeOK, Shared, Locals
<1> QED  BY <1>1, <1>2, <1>3, <1>4, <1>5, <1>6, <1>7 DEF Job

\* Every step keeps the typing.
LEMMA NextTyped ==
    ASSUME Typed, [Next]_vars
    PROVE  Typed'
<1>0. Shared /\ Locals
  BY TypedParts
<1>1. ASSUME NEW f \in Files, NEW v \in Versions \cup {None}, Edit(f, v)  PROVE Typed'
  <2>1. Shared' /\ Locals'
    BY <1>0, <1>1 DEF Edit, Shared, Locals, HeldOK, tables, tasks
  <2> QED  BY <2>1 DEF Typed, TypeOK, Shared, Locals
<1>2. ASSUME NEW j \in Jobs, NEW f \in Files, Task(j, f)  PROVE Typed'
  <2>1. Shared' /\ Locals'
    BY <1>2, TaskKeepsShared, TaskKeepsLocals
  <2> QED  BY <2>1 DEF Typed, TypeOK, Shared, Locals
<1>3. CASE Crash
  <2>1. /\ NoSymbols \in [Files -> Symbols \cup {None}]
        /\ NoSymbols \in [Files -> Versions \cup {None}]
        /\ NoTask \in [Files -> Stages]
        /\ \A f \in Files : NoTask[f] \notin {"lookup", "persist"}
    BY StageNames DEF NoSymbols, NoTask
  <2>2. Shared'
    BY <2>1, <1>0, <1>3 DEF Crash, Shared, tables
  <2>3. Locals'
    BY <2>1, <1>0, <1>3 DEF Crash, Locals, HeldOK
  <2> QED  BY <2>2, <2>3 DEF Typed, TypeOK, Shared, Locals
<1>4. CASE UNCHANGED vars
  BY <1>4 DEF Typed, TypeOK, HeldOK, vars, tables, tasks
<1> QED  BY <1>1, <1>2, <1>3, <1>4, JobKeepsTyped DEF Next

\* The initial state is typed.
LEMMA InitTyped == Init => Typed
BY StageNames, CodeIndexAssumption DEF Init, Typed, TypeOK, HeldOK, NoSymbols, NoTask

\* TypeOK holds in every reachable state, whatever the files, versions, calls
\* between them and jobs are (indexer.py, ast_cache.py).
THEOREM TypeCorrect == Spec => []TypeOK
<1>1. Typed /\ [Next]_vars => Typed'
  BY NextTyped
<1>2. Typed => TypeOK
  BY DEF Typed
<1> QED  BY <1>1, <1>2, InitTyped, PTL DEF Spec

-----------------------------------------------------------------------------
(* Edges are true.  An identity is given out once: whoever still knows it, *)
(* in the table or in the snapshot of a call that is resolving edges,      *)
(* knows the same version under it.  An edge written from a snapshot, how- *)
(* ever old, is therefore true of every pair of symbols that has its ids.  *)

\* Symbol rows someone knows.
Known == {r \in Symbols : \/ \E f \in Files : sym[f] = r
                          \/ \E j \in Jobs, f \in Files : snap[j][f] = r}

Identities ==
    /\ \A r \in Known : r.id < nextId
    /\ \A r, s \in Known : r.id = s.id => r.of = s.of
    /\ \A e \in edges : e[1] < nextId /\ e[2] < nextId
    /\ \A r, s \in Known : <<r.id, s.id>> \in edges => Calls[r.of] \cap Defines[s.of] # {}

\* Steps that at most forget rows and edges.
LEMMA ForgettingKeeps ==
    ASSUME Identities, Known' \subseteq Known, edges' \subseteq edges, nextId' = nextId
    PROVE  Identities'
BY DEF Identities

\* A row is known when the table or a snapshot has it.
LEMMA KnownRow ==
    ASSUME Typed
    PROVE  /\ \A f \in Files : sym[f] # None => sym[f] \in Known
           /\ \A j \in Jobs, f \in Files : snap[j][f] # None => snap[j][f] \in Known
BY DEF Typed, TypeOK, Known

\* A stored file gets an identity nobody knows and no edge mentions.
LEMMA PersistKeeps ==
    ASSUME Typed, Identities, NEW j \in Jobs, NEW f \in Files, Persist(j, f)
    PROVE  Identities'
<1> DEFINE new == [id |-> nextId, of |-> held[j][f]]
<1>1. /\ nextId \in Nat /\ nextId' = nextId + 1 /\ edges' = edges /\ snap' = snap
      /\ sym' = [sym EXCEPT ![f] = new]
      /\ sym \in [Files -> Symbols \cup {None}]
  BY DEF Typed, TypeOK, Persist, PersistAs
<1>2. Known' \subseteq Known \cup {new}
  BY <1>1 DEF Known
<1>3. \A r \in Known : r.id \in Nat /\ r.id < nextId
  BY DEF Identities, Known, Symbols
<1>4. new.id = nextId
  OBVIOUS
<1> HIDE DEF new
<1>5. \A r \in Known' : r.id < nextId'
  BY <1>1, <1>2, <1>3, <1>4
<1>6. \A r, s \in Known' : r.id = s.id => r.of = s.of
  BY <1>1, <1>2, <1>3, <1>4 DEF Identities
<1>7. \A e \in edges' : e[1] < nextId' /\ e[2] < nextId'
  <2>1. \A e \in edges : e[1] \in Nat /\ e[2] \in Nat
    BY DEF Typed, TypeOK
  <2> QED  BY <2>1, <1>1 DEF Identities
<1>8. ASSUME NEW r \in Known', NEW s \in Known', <<r.id, s.id>> \in edges'
      PROVE  Calls[r.of] \cap Defines[s.of] # {}
  <2>1. r.id < nextId /\ s.id < nextId
    BY <1>8, <1>1 DEF Identities
  <2>2. r \in Known /\ s \in Known
    BY <2>1, <1>1, <1>2, <1>4
  <2> QED  BY <2>2, <1>8, <1>1 DEF Identities
<1>9. QED  BY <1>5, <1>6, <1>7, <1>8 DEF Identities

\* Edges written from a snapshot are true of whoever has their ids.
LEMMA LinkKeeps ==
    ASSUME Typed, Identities, NEW j \in Jobs, Link(j)
    PROVE  Identities'
<1>1. Known' \subseteq Known /\ nextId' = nextId
  <2>1. snap' = [snap EXCEPT ![j] = NoSymbols] /\ sym' = sym /\ nextId' = nextId
    BY DEF Link, LinkWith
  <2>2. \A r \in Symbols : r # None
    BY CodeIndexAssumption DEF Symbols
  <2> QED  BY <2>1, <2>2 DEF Known, NoSymbols, Typed, TypeOK
<1>2. CASE edges' = edges
  BY <1>1, <1>2, ForgettingKeeps
<1>3. CASE edges' = Links(snap[j])
  <2>1. ASSUME NEW e \in edges'
        PROVE  \E r, s \in Known : e = <<r.id, s.id>> /\ Calls[r.of] \cap Defines[s.of] # {}
    <3>1. PICK p \in Files \X Files :
              /\ snap[j][p[1]] # None /\ snap[j][p[2]] # None
              /\ Calls[snap[j][p[1]].of] \cap Defines[snap[j][p[2]].of] # {}
              /\ e = <<snap[j][p[1]].id, snap[j][p[2]].id>>
      BY <1>3 DEF Links
    <3>2. snap[j][p[1]] \in Known /\ snap[j][p[2]] \in Known
      BY <3>1, KnownRow
    <3> QED  BY <3>1, <3>2
  <2>2. \A e \in edges' : e[1] < nextId' /\ e[2] < nextId'
    BY <2>1, <1>1 DEF Identities
  <2>3. ASSUME NEW r \in Known', NEW s \in Known', <<r.id, s.id>> \in edges'
        PROVE  Calls[r.of] \cap Defines[s.of] # {}
    <3>1. PICK r1, s1 \in Known : <<r.id, s.id>> = <<r1.id, s1.id>>
                                  /\ Calls[r1.of] \cap Defines[s1.of] # {}
      BY <2>1, <2>3
    <3>2. r1.of = r.of /\ s1.of = s.of
      BY <3>1, <1>1 DEF Identities
    <3> QED  BY <3>1, <3>2
  <2> QED  BY <2>2, <2>3, <1>1 DEF Identities
<1> QED  BY <1>2, <1>3 DEF Link, LinkWith

\* Every step keeps the identities in order.
LEMMA NextKeepsIdentities ==
    ASSUME Typed, Identities, [Next]_vars
    PROVE  Identities'
<1>0. \A r \in Symbols : r # None
  BY CodeIndexAssumption DEF Symbols
<1>1. ASSUME UNCHANGED <<tables, snap>>  PROVE Identities'
  BY <1>1, ForgettingKeeps DEF tables, Known
<1>2. ASSUME NEW j \in Jobs, NEW f \in Files, Task(j, f)  PROVE Identities'
  <2>1. CASE Persist(j, f)  BY <2>1, PersistKeeps
  <2>2. CASE ~Persist(j, f)
    <3>1. UNCHANGED <<tables, snap>>
      BY <2>2, <1>2 DEF Task, Exists, StatFile, IndexLegacy, ReadKey, Lookup, Parse,
                        ParseInto, ParseTimeout, PersistFails
    <3> QED  BY <3>1, <1>1
  <2> QED  BY <2>1, <2>2
<1>3. ASSUME NEW j \in Jobs, Job(j)  PROVE Identities'
  <2>1. CASE BeginRepository(j) \/ \E files \in SUBSET Files : BeginFiles(j, files)
    BY <2>1, <1>1 DEF BeginRepository, BeginFiles, Begin
  <2>2. CASE Reset(j)
    <3>1. Known' \subseteq Known
      BY <2>2, <1>0 DEF Reset, Known, NoSymbols
    <3> QED  BY <3>1, <2>2, ForgettingKeeps DEF Reset
  <2>3. CASE ResetFails(j)  BY <2>3, <1>1 DEF ResetFails
  <2>4. CASE ReadSymbols(j)
    <3>1. Known' \subseteq Known
      BY <2>4 DEF ReadSymbols, Known, tables, Typed, TypeOK
    <3> QED  BY <3>1, <2>4, ForgettingKeeps DEF ReadSymbols, tables
  <2>5. CASE Link(j)  BY <2>5, LinkKeeps
  <2>6. CASE LinkFails(j)
    <3>1. Known' \subseteq Known
      BY <2>6, <1>0 DEF LinkFails, Known, NoSymbols, tables, Typed, TypeOK
    <3> QED  BY <3>1, <2>6, ForgettingKeeps DEF LinkFails, tables
  <2> QED  BY <2>1, <2>2, <2>3, <2>4, <2>5, <2>6, <1>3 DEF Job
<1>4. CASE Crash
  <2>1. Known' \subseteq Known
    BY <1>4, <1>0 DEF Crash, Known, NoSymbols, tables
  <2> QED  BY <2>1, <1>4, ForgettingKeeps DEF Crash, tables
<1>5. ASSUME NEW f \in Files, NEW v \in Versions \cup {None}, Edit(f, v)  PROVE Identities'
  BY <1>5, <1>1 DEF Edit
<1>6. CASE UNCHANGED vars
  BY <1>6, <1>1 DEF vars
<1> QED  BY <1>2, <1>3, <1>4, <1>5, <1>6 DEF Next

\* Whatever calls overlap, fail or are killed, an edge between two existing
\* symbols is a call the first one makes (indexer.py, _resolve_edges_sqlite).
THEOREM EdgesAlwaysTrue == Spec => []EdgesTrue
<1> DEFINE IInv == Typed /\ Identities
<1>1. Init => IInv
  <2>1. ASSUME Init  PROVE Known = {}
    BY <2>1, CodeIndexAssumption DEF Init, Known, NoSymbols, Symbols
  <2> QED  BY <2>1, InitTyped DEF Init, Identities
<1>2. IInv /\ [Next]_vars => IInv'
  BY NextTyped, NextKeepsIdentities
<1>3. IInv => EdgesTrue
  BY KnownRow DEF Identities, EdgesTrue
<1> QED  BY <1>1, <1>2, <1>3, PTL DEF Spec
-----------------------------------------------------------------------------
(* The index is exact.  While a call is undisturbed every other job rests, *)
(* so only its own steps count; what it has done for a file by the time    *)
(* the file's task is at a given stage is in FileOK, and what it has done  *)
(* for the tables by the time it is at a given point itself in CallOK.     *)
(* The one thing that can still go wrong is the AstCache: a wrong entry an *)
(* earlier, disturbed call left for the content the file has now.          *)

Misled(j, f) ==
    /\ mode[j] = "repository"
    /\ disk[f] # None
    /\ cache[f][disk[f]] \notin {disk[f], None}

FileOK(j, f) ==
    /\ stage[j][f] # "lost"
    /\ mode[j] # "files" => /\ stage[j][f] # "none"
                            /\ stage[j][f] # "written" => sym[f] = None
    /\ stage[j][f] = "stat" => disk[f] # None
    /\ stage[j][f] = "legacy" => f \in legacy
    /\ stage[j][f] \in {"read", "lookup", "parse", "persist", "written"} => f \notin legacy
    /\ stage[j][f] \in {"read", "lookup"} => mode[j] = "repository"
    /\ stage[j][f] = "lookup" => held[j][f] = disk[f]
    /\ stage[j][f] = "parse" /\ mode[j] = "repository" => held[j][f] = disk[f] /\ disk[f] # None
    /\ stage[j][f] = "persist" =>
           held[j][f] \notin Broken /\ (held[j][f] = disk[f] \/ Misled(j, f))
    /\ stage[j][f] \in {"skipped", "unwritten"} => ~Parsable(f) \/ Misled(j, f)
    /\ stage[j][f] = "written" => (Exact(f) /\ Parsable(f)) \/ Misled(j, f)

CallOK(j) ==
    /\ Jobs \ {j} \subseteq Resting
    /\ pc[j] = "reset" => mode[j] # "files" /\ \A f \in Files : stage[j][f] = "wait"
    /\ pc[j] \in {"files", "link", "done"} => \A f \in Files : FileOK(j, f)
    /\ pc[j] \in {"link", "done"} => \A f \in Files : stage[j][f] \in Ended
    /\ pc[j] = "link" => snap[j] = sym
    /\ pc[j] \in {"files", "link"} /\ mode[j] # "files" => edges = {}
    /\ pc[j] = "done" /\ (mode[j] # "files" \/ SomeCall(sym)) => edges = Links(sym)

Undisturbed == \A j \in Jobs : quiet[j] => CallOK(j)

\* What a task does not touch of another file stays as good as it was.
LEMMA ElsewhereFileOK ==
    ASSUME NEW j \in Jobs, NEW g \in Files, FileOK(j, g),
           stage'[j][g] = stage[j][g], held'[j][g] = held[j][g], mode'[j] = mode[j],
           disk'[g] = disk[g], legacy' = legacy, sym'[g] = sym[g], cache'[g] = cache[g]
    PROVE  FileOK(j, g)'
BY DEF FileOK, Misled, Parsable, Exact

\* What a task changes: its own stage and local, its own file.
LEMMA TaskTouches ==
    ASSUME Typed, NEW j \in Jobs, NEW f \in Files, Task(j, f)
    PROVE  /\ UNCHANGED <<disk, legacy, mode, snap, edges>>
           /\ \A k \in Jobs \ {j} : stage'[k] = stage[k] /\ pc'[k] = pc[k]
           /\ \A g \in Files \ {f} : /\ stage'[j][g] = stage[j][g] /\ held'[j][g] = held[j][g]
                                     /\ sym'[g] = sym[g] /\ cache'[g] = cache[g]
           /\ pc'[j] \in {pc[j], "failed"}
           /\ pc[j] \in {"files", "failed"}
           /\ stage[j][f] \notin Ended
<1>0. /\ stage \in [Jobs -> [Files -> Stages]]
      /\ held \in [Jobs -> [Files -> Versions \cup {None}]]
      /\ pc \in [Jobs -> {"idle", "reset", "files", "link", "done", "failed"}]
      /\ sym \in [Files -> Symbols \cup {None}]
      /\ cache \in [Files -> [Versions -> Versions \cup {None}]]
  BY DEF Typed, TypeOK
<1> USE DEF At, To, End, tables, Ended, Counting
<1>1. CASE Exists(j, f)  BY <1>0, <1>1 DEF Exists
<1>2. CASE StatFile(j, f)  BY <1>0, <1>2 DEF StatFile
<1>3. CASE IndexLegacy(j, f)  BY <1>0, <1>3 DEF IndexLegacy
<1>4. CASE ReadKey(j, f)  BY <1>0, <1>4 DEF ReadKey
<1>5. CASE Lookup(j, f)  BY <1>0, <1>5 DEF Lookup, Parsed
<1>6. CASE Parse(j, f)  BY <1>0, <1>6 DEF Parse, ParseInto, Parsed
<1>7. CASE ParseTimeout(j, f)  BY <1>0, <1>7 DEF ParseTimeout
<1>8. CASE Persist(j, f)  BY <1>0, <1>8 DEF Persist, PersistAs
<1>9. CASE PersistFails(j, f)  BY <1>0, <1>9 DEF PersistFails
<1> QED  BY <1>1, <1>2, <1>3, <1>4, <1>5, <1>6, <1>7, <1>8, <1>9 DEF Task

\* A step of an undisturbed task keeps its file in order.
LEMMA TaskKeepsFileOK ==
    ASSUME Typed, NEW j \in Jobs, NEW f \in Files, Task(j, f), FileOK(j, f),
           pc[j] = "files", pc'[j] = "files", quiet'[j]
    PROVE  FileOK(j, f)'
<1>0. /\ stage \in [Jobs -> [Files -> Stages]]
      /\ held \in [Jobs -> [Files -> Versions \cup {None}]]
      /\ pc \in [Jobs -> {"idle", "reset", "files", "link", "done", "failed"}]
      /\ mode \in [Jobs -> {"repository", "pool", "files"}]
      /\ disk \in [Files -> Versions \cup {None}]
      /\ sym \in [Files -> Symbols \cup {None}]
      /\ cache \in [Files -> [Versions -> Versions \cup {None}]]
      /\ quiet \in [Jobs -> BOOLEAN]
      /\ HeldOK /\ None \notin Versions
  BY CodeIndexAssumption DEF Typed, TypeOK
<1> USE DEF At, To, tables, Misled, Parsable
<1>1. CASE Exists(j, f)
  <2>1. UNCHANGED <<tree, sym, cache, mode, held>>
    BY <1>1 DEF Exists
  <2>2. stage[j][f] = "wait"
    BY <1>1 DEF Exists
  <2>3. CASE disk[f] = None
    <3>1. stage'[j][f] = "skipped"
      BY <2>3, <1>1, <1>0 DEF Exists
    <3> QED  BY <3>1, <2>1, <2>2, <2>3 DEF FileOK
  <2>4. CASE disk[f] # None /\ mode[j] = "pool"
    <3>1. stage'[j][f] = IF f \in legacy THEN "skipped" ELSE "parse"
      BY <2>4, <1>1, <1>0 DEF Exists, FirstRead
    <3> QED  BY <3>1, <2>1, <2>2, <2>4 DEF FileOK
  <2>5. CASE disk[f] # None /\ mode[j] # "pool"
    <3>1. stage'[j][f] = "stat"
      BY <2>5, <1>1, <1>0 DEF Exists
    <3> QED  BY <3>1, <2>1, <2>2, <2>5 DEF FileOK
  <2> QED  BY <2>3, <2>4, <2>5
<1>2. CASE StatFile(j, f)
  <2>1. UNCHANGED <<tree, sym, cache, mode, held>> /\ stage[j][f] = "stat"
    BY <1>2 DEF StatFile
  <2>2. stage'[j][f] = FirstRead(j, f)
    BY <1>2, <1>0 DEF StatFile, FileOK
  <2>3. \/ f \in legacy /\ stage'[j][f] \in {"skipped", "legacy"}
        \/ f \notin legacy /\ mode[j] = "repository" /\ stage'[j][f] = "read"
        \/ f \notin legacy /\ mode[j] # "repository" /\ stage'[j][f] = "parse"
    BY <2>2 DEF FirstRead
  <2> QED  BY <2>1, <2>3 DEF FileOK
<1>3. CASE IndexLegacy(j, f)
  <2>1. UNCHANGED <<tree, sym, cache, mode, held>> /\ stage[j][f] = "legacy"
    BY <1>3 DEF IndexLegacy
  <2>2. stage'[j][f] \in {"skipped", "unwritten"}
    BY <1>3, <1>0 DEF IndexLegacy
  <2> QED  BY <2>1, <2>2 DEF FileOK
<1>4. CASE ReadKey(j, f)
  <2>1. UNCHANGED <<tree, sym, cache, mode>> /\ stage[j][f] = "read"
    BY <1>4 DEF ReadKey
  <2>2. held'[j][f] = disk[f] /\ stage'[j][f] = IF disk[f] = None THEN "skipped" ELSE "lookup"
    BY <1>4, <1>0 DEF ReadKey
  <2> QED  BY <2>1, <2>2 DEF FileOK
<1>5. CASE Lookup(j, f)
  <2> DEFINE hit == cache[f][held[j][f]]
  <2>1. UNCHANGED <<tree, sym, cache, mode>> /\ stage[j][f] = "lookup"
    BY <1>5 DEF Lookup
  <2>2. held[j][f] = disk[f] /\ disk[f] # None
    BY <2>1, <1>0 DEF FileOK, HeldOK
  <2>3. CASE hit = None
    <3>1. stage'[j][f] = "parse" /\ held'[j][f] = held[j][f]
      BY <2>3, <1>5, <1>0 DEF Lookup
    <3> QED  BY <3>1, <2>1, <2>2 DEF FileOK
  <2>4. CASE hit # None /\ hit \in Broken
    <3>1. stage'[j][f] = "skipped"
      BY <2>4, <1>5, <1>0 DEF Lookup, Parsed
    <3>2. hit = disk[f] \/ Misled(j, f)
      BY <2>1, <2>2, <2>4 DEF FileOK
    <3> QED  BY <3>1, <3>2, <2>1, <2>4 DEF FileOK
  <2>5. CASE hit # None /\ hit \notin Broken
    <3>1. stage'[j][f] = "persist" /\ held'[j][f] = hit
      BY <2>5, <1>5, <1>0 DEF Lookup, Parsed
    <3>2. hit = disk[f] \/ Misled(j, f)
      BY <2>1, <2>2, <2>5 DEF FileOK
    <3> QED  BY <3>1, <3>2, <2>1, <2>5 DEF FileOK
  <2> QED  BY <2>3, <2>4, <2>5
<1>6. CASE Parse(j, f)
  <2>1. UNCHANGED <<tree, sym, mode>> /\ stage[j][f] = "parse"
    BY <1>6 DEF Parse, ParseInto
  <2>2. CASE disk[f] = None
    <3>1. stage'[j][f] = "skipped" /\ UNCHANGED cache
      BY <2>2, <1>6, <1>0 DEF Parse, ParseInto, End
    <3> QED  BY <3>1, <2>1, <2>2 DEF FileOK
  <2>3. CASE disk[f] # None
    <3>1. IF disk[f] \in Broken THEN stage'[j][f] = "skipped"
          ELSE stage'[j][f] = "persist" /\ held'[j][f] = disk[f]
      BY <2>3, <1>6, <1>0 DEF Parse, ParseInto, Parsed
    <3> QED  BY <3>1, <2>1, <2>3 DEF FileOK
  <2> QED  BY <2>2, <2>3
<1>7. CASE ParseTimeout(j, f)
  BY <1>7, <1>0 DEF ParseTimeout
<1>8. CASE Persist(j, f)
  <2>1. UNCHANGED <<tree, cache, mode>> /\ stage[j][f] = "persist"
    BY <1>8 DEF Persist, PersistAs
  <2>2. stage'[j][f] = "written"
    BY <1>8, <1>0 DEF Persist, PersistAs, End
  <2>3. sym'[f] # None /\ sym'[f].of = held[j][f]
    <3>1. held[j][f] \in Versions
      BY <2>1, <1>0 DEF HeldOK
    <3>2. nextId \in Nat
      BY DEF Typed, TypeOK
    <3> QED  BY <3>1, <3>2, <1>8, <1>0, CodeIndexAssumption DEF Persist, PersistAs
  <2>4. held[j][f] = disk[f] => disk[f] # None
    BY <2>1, <1>0 DEF HeldOK
  <2> QED  BY <2>1, <2>2, <2>3, <2>4 DEF FileOK, Exact
<1>9. CASE PersistFails(j, f)
  BY <1>9, <1>0 DEF PersistFails
<1> QED  BY <1>1, <1>2, <1>3, <1>4, <1>5, <1>6, <1>7, <1>8, <1>9 DEF Task

\* While a call is undisturbed, a step of a task keeps it in order.
LEMMA TaskKeepsCallOK ==
    ASSUME Typed, NEW j \in Jobs, CallOK(j), quiet'[j],
           NEW k \in Jobs, NEW f \in Files, Task(k, f)
    PROVE  CallOK(j)'
<1>0. /\ UNCHANGED <<disk, legacy, mode, snap, edges>>
      /\ \A i \in Jobs \ {k} : stage'[i] = stage[i] /\ pc'[i] = pc[i]
      /\ \A g \in Files \ {f} : /\ stage'[k][g] = stage[k][g] /\ held'[k][g] = held[k][g]
                                /\ sym'[g] = sym[g] /\ cache'[g] = cache[g]
      /\ pc'[k] \in {pc[k], "failed"}
      /\ pc[k] \in {"files", "failed"}
      /\ stage[k][f] \notin Ended
  BY TaskTouches
<1>1. k = j
  BY <1>0 DEF CallOK, Resting
<1>2. (Jobs \ {j} \subseteq Resting)'
  BY <1>0, <1>1 DEF CallOK, Resting
<1>3. CASE pc'[j] = "failed"
  BY <1>2, <1>3 DEF CallOK
<1>4. CASE pc'[j] = "files"
  <2>1. pc[j] = "files"
    BY <1>4, <1>0, <1>1
  <2>2. FileOK(j, f)'
    BY <2>1, <1>1, <1>4, TaskKeepsFileOK DEF CallOK
  <2>3. ASSUME NEW g \in Files \ {f}  PROVE FileOK(j, g)'
    <3>1. FileOK(j, g)
      BY <2>1 DEF CallOK
    <3> QED  BY <3>1, <1>0, <1>1, ElsewhereFileOK
  <2>4. mode'[j] # "files" => edges' = {}
    BY <2>1, <1>0 DEF CallOK
  <2> QED  BY <2>2, <2>3, <2>4, <1>2, <1>4 DEF CallOK
<1> QED  BY <1>0, <1>1, <1>3, <1>4

\* A call that begins undisturbed is in order.
LEMMA BeginIsOK ==
    ASSUME Typed, NEW j \in Jobs, quiet'[j], NEW k \in Jobs,
           \/ BeginRepository(k)
           \/ \E files \in SUBSET Files : BeginFiles(k, files)
    PROVE  CallOK(j)'
<1>0. /\ stage \in [Jobs -> [Files -> Stages]]
      /\ pc \in [Jobs -> {"idle", "reset", "files", "link", "done", "failed"}]
      /\ mode \in [Jobs -> {"repository", "pool", "files"}]
  BY DEF Typed, TypeOK
<1>1. PICK m \in {"repository", "pool", "files"}, files \in SUBSET Files,
           start \in {"reset", "files"} :
           /\ Begin(k, m, files, start)
           /\ m = "files" <=> start = "files"
           /\ m # "files" => files = Files
  <2>1. CASE BeginRepository(k)
    <3>1. PICK m \in Paths \ {"files"} : Begin(k, m, Files, "reset")
      BY <2>1 DEF BeginRepository
    <3> QED  BY <3>1, CodeIndexAssumption
  <2>2. CASE \E files \in SUBSET Files : BeginFiles(k, files)
    BY <2>2 DEF BeginFiles
  <2> QED  BY <2>1, <2>2
<1>2. k = j /\ Jobs \ {j} \subseteq Resting
  BY <1>1 DEF Begin
<1>3. /\ mode'[j] = m /\ pc'[j] = start
      /\ stage'[j] = [f \in Files |-> IF f \in files THEN "wait" ELSE "none"]
      /\ \A i \in Jobs \ {j} : stage'[i] = stage[i] /\ pc'[i] = pc[i]
  BY <1>0, <1>1, <1>2 DEF Begin
<1>4. (Jobs \ {j} \subseteq Resting)'
  BY <1>2, <1>3 DEF Resting
<1>5. CASE m = "files"
  BY <1>1, <1>3, <1>4, <1>5 DEF CallOK, FileOK
<1>6. CASE m # "files"
  BY <1>1, <1>3, <1>4, <1>6 DEF CallOK
<1> QED  BY <1>5, <1>6

\* Without symbols nothing calls anything.
LEMMA NoLinks ==
    ASSUME NEW s \in [Files -> Symbols \cup {None}], s = NoSymbols \/ ~SomeCall(s)
    PROVE  Links(s) = {} /\ ~SomeCall(s)
BY DEF Links, SomeCall, NoSymbols

\* While a call is undisturbed, its own steps keep it in order.
LEMMA JobKeepsCallOK ==
    ASSUME Typed, NEW j \in Jobs, quiet[j], CallOK(j), quiet'[j], NEW k \in Jobs, Job(k)
    PROVE  CallOK(j)'
<1>0. /\ stage \in [Jobs -> [Files -> Stages]]
      /\ pc \in [Jobs -> {"idle", "reset", "files", "link", "done", "failed"}]
      /\ mode \in [Jobs -> {"repository", "pool", "files"}]
      /\ sym \in [Files -> Symbols \cup {None}]
      /\ snap \in [Jobs -> [Files -> Symbols \cup {None}]]
      /\ quiet \in [Jobs -> BOOLEAN]
  BY DEF Typed, TypeOK
<1>1. CASE BeginRepository(k) \/ \E files \in SUBSET Files : BeginFiles(k, files)
  BY <1>1, BeginIsOK
<1>2. ASSUME k # j, pc[k] \notin {"idle", "done", "failed"}  PROVE FALSE
  BY <1>2 DEF CallOK, Resting
<1>r. ASSUME stage' = stage, pc' = [pc EXCEPT ![j] = pc'[j]]
      PROVE  (Jobs \ {j} \subseteq Resting)'
  BY <1>0, <1>r DEF CallOK, Resting
<1>3. CASE Reset(k)
  <2>1. k = j
    BY <1>2, <1>3 DEF Reset
  <2>2. /\ pc[j] = "reset" /\ pc' = [pc EXCEPT ![j] = "files"] /\ pc'[j] = "files"
        /\ sym' = NoSymbols /\ edges' = {}
        /\ UNCHANGED <<tree, cache, mode, stage, held>>
    BY <2>1, <1>0, <1>3 DEF Reset, tasks
  <2>3. \A f \in Files : FileOK(j, f)'
    BY <2>2 DEF CallOK, FileOK, NoSymbols
  <2> QED  BY <2>2, <2>3, <1>r DEF CallOK
<1>4. CASE ResetFails(k)
  <2>1. k = j
    BY <1>2, <1>4 DEF ResetFails
  <2> QED  BY <2>1, <1>0, <1>4 DEF ResetFails
<1>5. CASE ReadSymbols(k)
  <2>1. k = j
    BY <1>2, <1>5 DEF ReadSymbols
  <2>2. /\ pc[j] = "files" /\ pc' = [pc EXCEPT ![j] = pc'[j]]
        /\ pc'[j] = IF sym = NoSymbols THEN "done" ELSE "link"
        /\ snap'[j] = sym
        /\ UNCHANGED <<tree, sym, edges, cache, mode, stage, held>>
        /\ \A f \in Files : stage[j][f] \in Ended
    BY <2>1, <1>0, <1>5 DEF ReadSymbols, tasks, tables
  <2>3. \A f \in Files : FileOK(j, f)'
    BY <2>2, ElsewhereFileOK DEF CallOK
  <2>4. CASE sym = NoSymbols
    BY <2>2, <2>3, <2>4, <1>0, <1>r, NoLinks DEF CallOK
  <2>5. CASE sym # NoSymbols
    BY <2>2, <2>3, <2>5, <1>r DEF CallOK
  <2> QED  BY <2>4, <2>5
<1>6. CASE Link(k)
  <2>1. k = j
    BY <1>2, <1>6 DEF Link, LinkWith
  <2>2. /\ pc[j] = "link" /\ pc' = [pc EXCEPT ![j] = pc'[j]] /\ pc'[j] = "done"
        /\ edges' = IF SomeCall(snap[j]) THEN Links(snap[j]) ELSE edges
        /\ UNCHANGED <<tree, sym, cache, mode, stage, held>>
    BY <2>1, <1>0, <1>6 DEF Link, LinkWith, tasks
  <2>3. \A f \in Files : FileOK(j, f)'
    BY <2>2, ElsewhereFileOK DEF CallOK
  <2>4. snap[j] = sym /\ (mode[j] # "files" => edges = {})
    BY <2>2 DEF CallOK
  <2>5. mode[j] # "files" \/ SomeCall(sym) => edges' = Links(sym)
    BY <2>2, <2>4, <1>0, NoLinks
  <2>6. Links(sym)' = Links(sym) /\ (SomeCall(sym)' <=> SomeCall(sym))
    BY <2>2 DEF Links, SomeCall
  <2>7. \A f \in Files : stage[j][f] \in Ended
    BY <2>2 DEF CallOK
  <2> QED  BY <2>2, <2>3, <2>5, <2>6, <2>7, <1>r DEF CallOK
<1>7. CASE LinkFails(k)
  <2>1. k = j
    BY <1>2, <1>7 DEF LinkFails
  <2> QED  BY <2>1, <1>0, <1>7 DEF LinkFails
<1> QED  BY <1>1, <1>3, <1>4, <1>5, <1>6, <1>7 DEF Job

\* Every step keeps undisturbed calls in order.
LEMMA NextKeepsUndisturbed ==
    ASSUME Typed, Undisturbed, [Next]_vars
    PROVE  Undisturbed'
<1> SUFFICES ASSUME NEW j \in Jobs, quiet'[j]  PROVE CallOK(j)'
  BY DEF Undisturbed
<1>0. quiet \in [Jobs -> BOOLEAN]
  BY DEF Typed, TypeOK
<1>1. ASSUME NEW f \in Files, NEW v \in Versions \cup {None}, Edit(f, v)  PROVE FALSE
  BY <1>1 DEF Edit
<1>2. ASSUME NEW k \in Jobs, NEW f \in Files, Task(k, f)  PROVE CallOK(j)'
  <2>1. quiet[j]
    BY <1>0, <1>2 DEF Task, Exists, StatFile, IndexLegacy, ReadKey, Lookup, Parse, ParseInto,
                      ParseTimeout, Persist, PersistAs, PersistFails
  <2> QED  BY <2>1, <1>2, TaskKeepsCallOK DEF Undisturbed
<1>3. ASSUME NEW k \in Jobs, Job(k)  PROVE CallOK(j)'
  <2>1. CASE BeginRepository(k) \/ \E files \in SUBSET Files : BeginFiles(k, files)
    BY <2>1, BeginIsOK
  <2>2. CASE Reset(k) \/ ResetFails(k) \/ ReadSymbols(k) \/ Link(k) \/ LinkFails(k)
    <3>1. quiet[j]
      BY <1>0, <2>2 DEF Reset, ResetFails, ReadSymbols, Link, LinkWith, LinkFails
    <3> QED  BY <3>1, <1>3, JobKeepsCallOK DEF Undisturbed
  <2> QED  BY <2>1, <2>2, <1>3 DEF Job
<1>4. CASE Crash
  BY <1>4 DEF Crash
<1>5. CASE UNCHANGED vars
  <2>1. CallOK(j)
    BY <1>5 DEF vars, Undisturbed
  <2>2. /\ Links(sym)' = Links(sym) /\ (SomeCall(sym)' <=> SomeCall(sym))
        /\ Resting' = Resting
        /\ \A f \in Files : FileOK(j, f)' <=> FileOK(j, f)
    BY <1>5 DEF vars, tables, tasks, Links, SomeCall, Resting, FileOK, Misled, Parsable, Exact
  <2> QED  BY <2>1, <2>2, <1>5 DEF CallOK, vars, tables, tasks
<1> QED  BY <1>1, <1>2, <1>3, <1>4, <1>5 DEF Next

\* Undisturbed calls are in order in every reachable state.
LEMMA AlwaysUndisturbed == Spec => [](Typed /\ Undisturbed)
<1>1. Init => Undisturbed
  BY DEF Init, Undisturbed
<1>2. Undisturbed /\ Typed /\ [Next]_vars => Undisturbed'
  BY NextKeepsUndisturbed
<1>3. Typed /\ [Next]_vars => Typed'
  BY NextTyped
<1> QED  BY <1>1, <1>2, <1>3, InitTyped, PTL DEF Spec

\* An index_repository nobody disturbs ends with exactly the symbols and the
\* calls of the files on disk, if the AstCache holds nothing wrong, for any
\* files, legacy files, versions and calls (indexer.py, ast_cache.py).
THEOREM IndexIsExact == Spec => []QuietIndexExact
<1>1. ASSUME Typed, Undisturbed  PROVE QuietIndexExact
  <2> SUFFICES ASSUME NEW j \in Jobs, quiet[j], pc[j] = "done", mode[j] # "files", CacheSound
               PROVE  /\ \A f \in Files : IF Parsable(f) THEN Exact(f) ELSE sym[f] = None
                      /\ edges = Links(sym)
    BY DEF QuietIndexExact
  <2>1. CallOK(j)
    BY <1>1 DEF Undisturbed
  <2>2. ASSUME NEW f \in Files  PROVE IF Parsable(f) THEN Exact(f) ELSE sym[f] = None
    <3>1. FileOK(j, f) /\ stage[j][f] \in Ended
      BY <2>1 DEF CallOK
    <3>2. ~Misled(j, f)
      BY <1>1 DEF Misled, CacheSound, Typed, TypeOK
    <3> QED  BY <3>1, <3>2 DEF FileOK, Ended, Counting
  <2>3. edges = Links(sym)
    BY <2>1 DEF CallOK
  <2> QED  BY <2>2, <2>3
<1> QED  BY <1>1, AlwaysUndisturbed, PTL

\* An index_files nobody disturbs ends with the symbols of its files up to
\* date and, if anything calls anything, exactly the calls between the stored
\* symbols; it does not use the AstCache (indexer.py, index_files).
THEOREM FilesAreExact == Spec => []QuietFilesExact
<1>1. ASSUME Undisturbed  PROVE QuietFilesExact
  <2> SUFFICES ASSUME NEW j \in Jobs, quiet[j], pc[j] = "done", mode[j] = "files"
               PROVE  /\ \A f \in Files : stage[j][f] # "none" /\ Parsable(f) => Exact(f)
                      /\ SomeCall(sym) => edges = Links(sym)
    BY DEF QuietFilesExact
  <2>1. CallOK(j)
    BY <1>1 DEF Undisturbed
  <2>2. ASSUME NEW f \in Files, stage[j][f] # "none", Parsable(f)  PROVE Exact(f)
    <3>1. FileOK(j, f) /\ stage[j][f] \in Ended
      BY <2>1 DEF CallOK
    <3> QED  BY <3>1, <2>2 DEF FileOK, Misled, Ended, Counting
  <2>3. SomeCall(sym) => edges = Links(sym)
    BY <2>1 DEF CallOK
  <2> QED  BY <2>2, <2>3
<1> QED  BY <1>1, AlwaysUndisturbed, PTL

\* Only an undisturbed index_files' own task changes symbols beside it, and only
\* those of a file it was given, from what the file holds now.
LEMMA TouchedIsParsed ==
    ASSUME Typed, Undisturbed, [Next]_vars, NEW j \in Jobs, quiet[j], quiet'[j],
           pc[j] # "failed", mode[j] = "files", NEW f \in Files, sym'[f] # sym[f]
    PROVE  stage[j][f] # "none" /\ Parsable(f) /\ Exact(f)'
<1>0. CallOK(j)
  BY DEF Undisturbed
<1>1. ASSUME NEW k \in Jobs, NEW g \in Files, Task(k, g)
      PROVE  stage[j][f] # "none" /\ Parsable(f) /\ Exact(f)'
  <2>1. Persist(k, g)
    BY <1>1 DEF Task, Exists, StatFile, IndexLegacy, ReadKey, Lookup, Parse, ParseInto,
                ParseTimeout, PersistFails, tables
  <2>2. k = j
    BY <1>0, <1>1, TaskTouches DEF CallOK, Resting
  <2>3. g = f
    BY <1>1, TaskTouches
  <2>4. pc[j] = "files" /\ stage[j][f] = "persist" /\ FileOK(j, f)
    BY <1>0, <2>1, <2>2, <2>3 DEF Persist, PersistAs, At, CallOK
  <2>5. pc'[j] = "files" /\ stage'[j][f] = "written" /\ mode'[j] = "files"
    BY <2>1, <2>2, <2>3, <2>4 DEF Persist, PersistAs, End, To, Typed, TypeOK
  <2>6. FileOK(j, f)'
    BY <1>1, <2>2, <2>3, <2>4, <2>5, TaskKeepsFileOK
  <2>7. Exact(f)' /\ Parsable(f)'
    BY <2>5, <2>6 DEF FileOK, Misled
  <2> QED  BY <2>1, <2>4, <2>7 DEF Persist, PersistAs, Parsable
<1>2. ASSUME NEW k \in Jobs, Job(k)  PROVE FALSE
  <2>1. Reset(k)
    BY <1>2 DEF Job, BeginRepository, BeginFiles, Begin, ResetFails, ReadSymbols, Link, LinkWith,
                LinkFails, tables
  <2>2. pc[k] = "reset"
    BY <2>1 DEF Reset
  <2> QED  BY <1>0, <2>2 DEF CallOK, Resting
<1>3. ~Crash /\ sym' # sym
  BY DEF Crash, tables
<1> QED  BY <1>1, <1>2, <1>3 DEF Next, Edit, vars, tables

\* An index_files nobody disturbs changes the symbols of the files it was given
\* and can parse, and no others (indexer.py, index_files).
THEOREM FilesTouchOnlyParsed == Spec => FilesTouchParsed
<1>1. ASSUME Typed, Undisturbed, [Next]_vars,
             NEW j \in Jobs, quiet[j] /\ quiet'[j] /\ pc[j] # "failed" /\ mode[j] = "files",
             NEW f \in Files, sym'[f] # sym[f]
      PROVE  stage[j][f] # "none" /\ Parsable(f) /\ Exact(f)'
  BY <1>1, TouchedIsParsed
<1>2. Typed /\ Undisturbed /\ [Next]_vars
      => [\A j \in Jobs :
            (quiet[j] /\ quiet'[j] /\ pc[j] # "failed" /\ mode[j] = "files")
                => \A f \in Files : sym'[f] # sym[f] =>
                       stage[j][f] # "none" /\ Parsable(f) /\ Exact(f)']_vars
  BY <1>1
<1> QED  BY <1>2, AlwaysUndisturbed, PTL DEF Spec, FilesTouchParsed
=============================================================================
