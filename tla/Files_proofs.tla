----------------------------- MODULE Files_proofs -----------------------------
(***************************************************************************)
(* Theorems about the two services that work on files.  Watcher, for any   *)
(* number of files and of handlers: no interleaving of events, timers and  *)
(* callbacks forgets an edit, or leaves one collected without a timer.     *)
(* FileWriter, for any number of calls and processes: atomic writes whose  *)
(* processes differ never tear the file and implement AtomicFile.          *)
(***************************************************************************)
EXTENDS Watcher, FileWriter, TLAPS

-----------------------------------------------------------------------------
(* The watcher: type correctness.                                          *)

(* Every variable of the watcher keeps its type.                           *)
THEOREM WatcherTypeCorrect == WatcherSpec => []WatcherTypeOK
  <1>. USE WatcherAssumption
  <1>1. WatcherInit => WatcherTypeOK
    <2>. SUFFICES ASSUME WatcherInit
                  PROVE  WatcherTypeOK
      OBVIOUS
    <2>1. version \in [Watched -> 0..MaxEdit] /\ told \in [Watched -> 0..MaxEdit]
      BY DEF WatcherInit
    <2>2. /\ inbox \in [Handlers -> SUBSET Watched] /\ changes \in [Handlers -> SUBSET Watched]
          /\ taken \in [Handlers -> SUBSET Watched]
          /\ observer \in [Handlers -> {"none", "live", "stopped"}]
      BY DEF WatcherInit
    <2>3. /\ appended \in [Handlers -> BOOLEAN] /\ armed \in [Handlers -> BOOLEAN]
          /\ quiet \in BOOLEAN /\ unheard \subseteq Watched
      BY DEF WatcherInit
    <2>. QED
      BY <2>1, <2>2, <2>3 DEF WatcherTypeOK
  <1>2. WatcherTypeOK /\ [WatcherNext]_watcherVars => WatcherTypeOK'
    <2>. SUFFICES ASSUME WatcherTypeOK, [WatcherNext]_watcherVars
                  PROVE  WatcherTypeOK'
      OBVIOUS
    <2>. USE DEF WatcherTypeOK, watcherFiles
    <2>0. ASSUME NEW f \in Watched, version[f] < MaxEdit
          PROVE  [version EXCEPT ![f] = @ + 1] \in [Watched -> 0..MaxEdit]
      BY <2>0
    <2>1. ASSUME NEW f \in Watched, EditInPlace(f)
          PROVE  WatcherTypeOK'
      <3>1. version' \in [Watched -> 0..MaxEdit]
        BY <2>0, <2>1 DEF EditInPlace
      <3>2. inbox' \in [Handlers -> SUBSET Watched]
        BY <2>1 DEF EditInPlace
      <3>3. unheard' \subseteq Watched
        BY <2>1 DEF EditInPlace
      <3>. QED
        BY <2>1, <3>1, <3>2, <3>3 DEF EditInPlace
    <2>2. ASSUME NEW f \in Watched, RenameOnto(f)
          PROVE  WatcherTypeOK'
      BY <2>0, <2>2 DEF RenameOnto
    <2>3. CASE EndEdits
      BY <2>3 DEF EndEdits
    <2>4. ASSUME NEW h \in Handlers, StartWatching(h) \/ StopWatching(h)
          PROVE  WatcherTypeOK'
      BY <2>4 DEF StartWatching, StopWatching
    <2>5. ASSUME NEW h \in Handlers, NEW f \in Watched, HandleEvent(h, f)
          PROVE  WatcherTypeOK'
      BY <2>5 DEF HandleEvent
    <2>6. ASSUME NEW h \in Handlers, Debounce(h)
          PROVE  WatcherTypeOK'
      BY <2>6 DEF Debounce
    <2>7. ASSUME NEW h \in Handlers, Flush(h)
          PROVE  WatcherTypeOK'
      BY <2>7 DEF Flush
    <2>8. ASSUME NEW h \in Handlers, CallBack(h)
          PROVE  WatcherTypeOK'
      BY <2>8 DEF CallBack
    <2>9. ASSUME NEW h \in Handlers, CallBackRaises(h)
          PROVE  WatcherTypeOK'
      <3>1. taken[h] \subseteq Watched
        OBVIOUS
      <3>. QED
        BY <2>9, <3>1 DEF CallBackRaises
    <2>10. CASE UNCHANGED watcherVars
      BY <2>10 DEF watcherVars
    <2>. QED
      BY <2>1, <2>2, <2>3, <2>4, <2>5, <2>6, <2>7, <2>8, <2>9, <2>10
      DEF WatcherNext, WatcherStep, CallBackOver
  <1>. QED
    BY <1>1, <1>2, PTL DEF WatcherSpec

-----------------------------------------------------------------------------
(* No edit is forgotten.                                                   *)

\* A file on its way through handler h.
Underway(h) == inbox[h] \cup changes[h] \cup taken[h]

LEMMA NothingForgottenStep ==
  ASSUME WatcherTypeOK, NothingForgotten, [WatcherNext]_watcherVars
  PROVE  NothingForgotten'
  <1>. SUFFICES ASSUME NEW g \in Watched, told'[g] # version'[g], g \notin unheard'
                PROVE  \E h \in Handlers : g \in Underway(h)'
    BY DEF NothingForgotten, Underway
  <1>. USE DEF WatcherTypeOK, watcherFiles, Underway
  <1>0. told[g] # version[g] /\ g \notin unheard => \E h \in Handlers : g \in Underway(h)
    BY DEF NothingForgotten
  \* An edit that a live handler hears goes to its inbox.
  <1>1. ASSUME NEW f \in Watched, EditInPlace(f)
        PROVE  \E h \in Handlers : g \in Underway(h)'
    <2>1. CASE g = f
      <3>1. PICK h \in LiveHandlers : TRUE
        BY <1>1, <2>1 DEF EditInPlace
      <3>. QED
        BY <1>1, <2>1, <3>1 DEF EditInPlace, LiveHandlers
    <2>2. CASE g # f
      <3>1. PICK h \in Handlers : g \in Underway(h)
        BY <1>0, <1>1, <2>2 DEF EditInPlace
      <3>. QED
        BY <1>1, <3>1 DEF EditInPlace
    <2>. QED
      BY <2>1, <2>2
  <1>2. ASSUME NEW f \in Watched, RenameOnto(f)
        PROVE  \E h \in Handlers : g \in Underway(h)'
    <2>1. g # f
      BY <1>2 DEF RenameOnto
    <2>. QED
      BY <1>0, <1>2, <2>1 DEF RenameOnto
  <1>3. ASSUME NEW h \in Handlers, StopWatching(h)
        PROVE  \E k \in Handlers : g \in Underway(k)'
    <2>1. PICK k \in Handlers : g \in Underway(k)
      BY <1>0, <1>3 DEF StopWatching
    <2>. QED
      BY <1>3, <2>1 DEF StopWatching
  \* From the inbox to the list, to the timer's thread, to the callback.
  <1>4. ASSUME NEW h \in Handlers, NEW f \in Watched, HandleEvent(h, f)
        PROVE  \E k \in Handlers : g \in Underway(k)'
    <2>1. PICK k \in Handlers : g \in Underway(k)
      BY <1>0, <1>4 DEF HandleEvent
    <2>. QED
      BY <1>4, <2>1 DEF HandleEvent
  <1>5. ASSUME NEW h \in Handlers, Flush(h)
        PROVE  \E k \in Handlers : g \in Underway(k)'
    <2>1. PICK k \in Handlers : g \in Underway(k)
      BY <1>0, <1>5 DEF Flush
    <2>. QED
      BY <1>5, <2>1 DEF Flush
  <1>6. ASSUME NEW h \in Handlers, CallBack(h)
        PROVE  \E k \in Handlers : g \in Underway(k)'
    <2>1. g \notin taken[h] /\ told'[g] = told[g] /\ version'[g] = version[g]
      BY <1>6 DEF CallBack
    <2>2. PICK k \in Handlers : g \in Underway(k)
      BY <1>0, <1>6, <2>1 DEF CallBack
    <2>. QED
      BY <1>6, <2>1, <2>2 DEF CallBack
  <1>7. ASSUME NEW h \in Handlers, StartWatching(h) \/ Debounce(h)
        PROVE  \E k \in Handlers : g \in Underway(k)'
    BY <1>0, <1>7 DEF StartWatching, Debounce
  <1>8. CASE EndEdits \/ UNCHANGED watcherVars
    BY <1>0, <1>8 DEF EndEdits, watcherVars
  \* What a callback that raises was given is lost, unless another handler has it.
  <1>9. ASSUME NEW h \in Handlers, CallBackRaises(h)
        PROVE  \E k \in Handlers : g \in Underway(k)'
    <2>1. g \notin taken[h] \ OnTheirWay(h) /\ g \notin unheard
      BY <1>9 DEF CallBackRaises
    <2>2. PICK k \in Handlers : g \in Underway(k)
      BY <1>0, <1>9, <2>1 DEF CallBackRaises
    <2>3. g \in OnTheirWay(h)
      <3>1. CASE g \in taken[h]
        BY <2>1, <3>1
      <3>2. CASE g \notin taken[h]
        BY <2>2, <3>2 DEF OnTheirWay
      <3>. QED
        BY <3>1, <3>2
    <2>4. PICK j \in Handlers : g \in inbox[j] \cup changes[j] \cup (IF j = h THEN {} ELSE taken[j])
      BY <2>3 DEF OnTheirWay
    <2>5. g \in Underway(j)'
      BY <1>9, <2>4 DEF CallBackRaises
    <2>. QED
      BY <2>5
  <1>. QED
    BY <1>1, <1>2, <1>3, <1>4, <1>5, <1>6, <1>7, <1>8, <1>9 DEF WatcherNext, WatcherStep, CallBackOver

(* An edit the observer heard of is with the callback or on its way there, *)
(* or was lost in a callback that raised, whatever the interleaving of     *)
(* events, timers, starts and stops.                                       *)
THEOREM NoEditForgotten == WatcherSpec => []NothingForgotten
  <1>1. WatcherInit => NothingForgotten
    BY DEF WatcherInit, NothingForgotten
  <1>. QED
    BY <1>1, WatcherTypeCorrect, NothingForgottenStep, PTL DEF WatcherSpec

-----------------------------------------------------------------------------
(* The timer.                                                              *)

LEMMA CollectedStep ==
  ASSUME WatcherTypeOK, CollectedIsTimed, [WatcherNext]_watcherVars
  PROVE  CollectedIsTimed'
  <1>. USE DEF WatcherTypeOK, CollectedIsTimed, watcherFiles
  <1>1. ASSUME NEW f \in Watched, EditInPlace(f) \/ RenameOnto(f)
        PROVE  CollectedIsTimed'
    BY <1>1 DEF EditInPlace, RenameOnto
  <1>2. ASSUME NEW h \in Handlers, StartWatching(h) \/ StopWatching(h)
        PROVE  CollectedIsTimed'
    BY <1>2 DEF StartWatching, StopWatching
  <1>3. ASSUME NEW h \in Handlers, NEW f \in Watched, HandleEvent(h, f)
        PROVE  CollectedIsTimed'
    BY <1>3 DEF HandleEvent
  <1>4. ASSUME NEW h \in Handlers, Debounce(h)
        PROVE  CollectedIsTimed'
    BY <1>4 DEF Debounce
  <1>5. ASSUME NEW h \in Handlers, Flush(h)
        PROVE  CollectedIsTimed'
    BY <1>5 DEF Flush
  <1>6. ASSUME NEW h \in Handlers, CallBack(h)
        PROVE  CollectedIsTimed'
    BY <1>6 DEF CallBack
  <1>7. CASE EndEdits \/ UNCHANGED watcherVars
    BY <1>7 DEF EndEdits, watcherVars
  <1>8. ASSUME NEW h \in Handlers, CallBackRaises(h)
        PROVE  CollectedIsTimed'
    BY <1>8 DEF CallBackRaises
  <1>. QED
    BY <1>1, <1>2, <1>3, <1>4, <1>5, <1>6, <1>7, <1>8 DEF WatcherNext, WatcherStep, CallBackOver

(* What a handler collected has a timer, or gets one from the thread that  *)
(* collected it: no flush of an older timer leaves a change without one.   *)
THEOREM CollectedHasTimer == WatcherSpec => []CollectedIsTimed
  <1>1. WatcherInit => CollectedIsTimed
    BY DEF WatcherInit, CollectedIsTimed
  <1>. QED
    BY <1>1, WatcherTypeCorrect, CollectedStep, PTL DEF WatcherSpec

-----------------------------------------------------------------------------
(* The writer: type correctness.                                           *)

WriterStages == {"idle", "refused", "open", "first", "second", "move", "replaced", "ok", "error"}
Files == Content \cup {Missing}

\* A piece only goes into a file that is there.
OpenIsThere ==
    /\ \A w \in open : TempOf(w) \in Content
    /\ loose # {} => target \in Content

LEMMA GotoTyped ==
  ASSUME WriterTypeOK, NEW w \in Writes, NEW from, NEW to \in WriterStages, WriterGoto(w, from, to)
  PROVE  wpc' \in [Writes -> WriterStages]
  BY DEF WriterTypeOK, WriterGoto, WriterStages

\* A piece turns a content into a content.
LEMMA PieceTyped ==
  ASSUME NEW c \in Content, NEW w \in Writes, NEW i \in {1, 2}
  PROVE  [c EXCEPT ![i] = w] \in Content
  BY DEF Content

\* The Put of either piece keeps the types and the invariant.
LEMMA PutTyped ==
  ASSUME WriterTypeOK, OpenIsThere, NEW w \in Writes, NEW i \in {1, 2}, Put(w, i),
         process' = process, open' \subseteq open, loose' \subseteq loose
  PROVE  /\ temp' \in [Processes -> Files]
         /\ target' \in Files
         /\ OpenIsThere'
  <1>0. process[w] \in Processes /\ w \in open => TempOf(w) \in Content /\ TempOf(w) = temp[process[w]]
    BY DEF WriterTypeOK, OpenIsThere, TempOf
  <1>00. process[w] \in Processes /\ temp \in [Processes -> Files] /\ target \in Files
    BY DEF WriterTypeOK, Files
  <1>1. w \in open => [temp[process[w]] EXCEPT ![i] = w] \in Content
    BY <1>0, <1>00, PieceTyped
  <1>2. w \in loose => [target EXCEPT ![i] = w] \in Content
    BY PieceTyped DEF OpenIsThere
  <1>3. temp' \in [Processes -> Files]
    BY <1>00, <1>1 DEF Put, Files
  <1>4. target' \in Files
    BY <1>00, <1>2 DEF Put, Files
  <1>5. ASSUME NEW x \in open'
        PROVE  TempOf(x)' \in Content
    <2>1. x \in Writes /\ x \in open /\ process[x] \in Processes /\ temp[process[x]] \in Content
      BY <1>5 DEF WriterTypeOK, OpenIsThere, TempOf
    <2>2. temp'[process[x]] \in Content
      BY <1>00, <1>1, <2>1 DEF Put
    <2>. QED
      BY <2>2 DEF TempOf
  <1>6. loose' # {} => target' \in Content
    BY <1>2 DEF Put, OpenIsThere
  <1>. QED
    BY <1>3, <1>4, <1>5, <1>6 DEF OpenIsThere

(* Every variable keeps its type, and nobody writes into a file that is    *)
(* not there, threads that share a temporary file included.                *)
LEMMA TypeStep ==
  ASSUME WriterTypeOK, OpenIsThere, [WriterNext]_writerVars
  PROVE  WriterTypeOK' /\ OpenIsThere'
  <1>. DEFINE Typed == /\ process' \in [Writes -> Processes]
                       /\ wpc' \in [Writes -> WriterStages]
                       /\ target' \in Files
                       /\ temp' \in [Processes -> Files]
                       /\ open' \subseteq Writes
                       /\ loose' \subseteq Writes
  <1>0. ASSUME Typed, OpenIsThere'
        PROVE  WriterTypeOK' /\ OpenIsThere'
    BY <1>0 DEF WriterTypeOK, WriterStages, Files
  <1>00. /\ process \in [Writes -> Processes] /\ wpc \in [Writes -> WriterStages]
         /\ target \in Files /\ temp \in [Processes -> Files]
         /\ open \subseteq Writes /\ loose \subseteq Writes
    BY DEF WriterTypeOK, WriterStages, Files
  <1>1. ASSUME NEW w \in Writes, CheckTarget(w) \/ ReturnWritten(w) \/ ReturnFails(w)
        PROVE  WriterTypeOK' /\ OpenIsThere'
    <2>1. \E from, to \in WriterStages : WriterGoto(w, from, to)
      BY <1>1 DEF CheckTarget, ReturnWritten, ReturnFails, WriterStages
    <2>2. UNCHANGED <<process, target, temp, open, loose>>
      BY <1>1 DEF CheckTarget, ReturnWritten, ReturnFails
    <2>3. OpenIsThere'
      BY <2>2 DEF OpenIsThere, TempOf
    <2>4. wpc' \in [Writes -> WriterStages]
      BY <2>1, GotoTyped
    <2>. QED
      BY <1>0, <1>00, <2>2, <2>3, <2>4
  <1>2. ASSUME NEW w \in Writes, OpenTemp(w)
        PROVE  WriterTypeOK' /\ OpenIsThere'
    <2>1. Empty \in Content /\ Empty \in Files
      BY DEF Empty, Content, Files
    <2>2. wpc' \in [Writes -> WriterStages]
      BY <1>2, GotoTyped DEF OpenTemp, WriterStages
    <2>3. temp' \in [Processes -> Files]
      BY <1>2, <1>00, <2>1 DEF OpenTemp
    <2>4. ASSUME NEW x \in open'
          PROVE  TempOf(x)' \in Content
      <3>1. process[x] \in Processes /\ process' = process
        BY <1>2, <1>00, <2>4 DEF OpenTemp
      <3>2. temp'[process[x]] \in Content
        BY <1>2, <1>00, <2>1, <2>4, <3>1 DEF OpenTemp, OpenIsThere, TempOf
      <3>. QED
        BY <3>1, <3>2 DEF TempOf
    <2>5. OpenIsThere'
      BY <1>2, <2>4 DEF OpenTemp, OpenIsThere
    <2>. QED
      BY <1>0, <1>00, <1>2, <2>2, <2>3, <2>5 DEF OpenTemp
  <1>3. ASSUME NEW w \in Writes, WriteFirst(w) \/ WriteSecond(w)
        PROVE  WriterTypeOK' /\ OpenIsThere'
    <2>1. wpc' \in [Writes -> WriterStages]
      BY <1>3, GotoTyped DEF WriteFirst, WriteSecond, WriterStages
    <2>2. /\ process' = process /\ open' \subseteq open /\ loose' \subseteq loose
          /\ \E i \in {1, 2} : Put(w, i)
      BY <1>3 DEF WriteFirst, WriteSecond
    <2>3. temp' \in [Processes -> Files] /\ target' \in Files /\ OpenIsThere'
      BY <2>2, PutTyped
    <2>. QED
      BY <1>0, <1>00, <2>1, <2>2, <2>3
  <1>4. ASSUME NEW w \in Writes, Move(w)
        PROVE  WriterTypeOK' /\ OpenIsThere'
    <2>1. wpc' \in [Writes -> WriterStages]
      BY <1>4, GotoTyped DEF Move, WriterStages
    <2>2. process[w] \in Processes /\ TempOf(w) \in Content /\ TempOf(w) \in Files
      BY <1>4, <1>00 DEF Move, TempOf, Files
    <2>3. /\ process' = process /\ target' = TempOf(w)
          /\ temp' = [temp EXCEPT ![process[w]] = Missing]
          /\ open' = open \ {x \in open : process[x] = process[w]}
          /\ loose' \subseteq open
      BY <1>4 DEF Move, Rename
    <2>4. temp' \in [Processes -> Files]
      BY <2>3, <1>00 DEF Files
    <2>5. ASSUME NEW x \in open'
          PROVE  TempOf(x)' \in Content
      <3>1. x \in open /\ process[x] # process[w] /\ process[x] \in Processes
        BY <2>3, <2>5, <1>00
      <3>2. temp'[process[x]] = temp[process[x]]
        BY <2>3, <3>1, <1>00
      <3>. QED
        BY <2>3, <3>1, <3>2 DEF OpenIsThere, TempOf
    <2>6. OpenIsThere'
      BY <2>2, <2>3, <2>5 DEF OpenIsThere
    <2>. QED
      BY <1>0, <1>00, <2>1, <2>2, <2>3, <2>4, <2>6
  <1>5. ASSUME NEW w \in Writes, WriteFails(w)
        PROVE  WriterTypeOK' /\ OpenIsThere'
    <2>1. wpc' \in [Writes -> WriterStages]
      BY <1>5, GotoTyped DEF WriteFails, WriterStages
    <2>3. /\ process' = process /\ target' = target
          /\ temp' = [temp EXCEPT ![process[w]] = Missing]
          /\ open' = {x \in open : process[x] # process[w]}
          /\ loose' = loose \ {w}
      BY <1>5 DEF WriteFails
    <2>4. temp' \in [Processes -> Files]
      BY <2>3, <1>00 DEF Files
    <2>5. ASSUME NEW x \in open'
          PROVE  TempOf(x)' \in Content
      <3>1. x \in open /\ process[x] # process[w] /\ process[x] \in Processes
        BY <2>3, <2>5, <1>00
      <3>2. temp'[process[x]] = temp[process[x]]
        BY <2>3, <3>1, <1>00
      <3>. QED
        BY <2>3, <3>1, <3>2 DEF OpenIsThere, TempOf
    <2>6. OpenIsThere'
      BY <2>3, <2>5 DEF OpenIsThere
    <2>. QED
      BY <1>0, <1>00, <2>1, <2>3, <2>4, <2>6
  <1>6. ASSUME NEW p \in Processes, KillProcess(p)
        PROVE  WriterTypeOK' /\ OpenIsThere'
    <2>1. wpc' \in [Writes -> WriterStages]
      BY <1>6, <1>00 DEF KillProcess, WriterStages
    <2>2. /\ UNCHANGED <<process, target, temp>>
          /\ open' \subseteq open /\ loose' \subseteq loose
      BY <1>6 DEF KillProcess
    <2>3. OpenIsThere'
      BY <2>2 DEF OpenIsThere, TempOf
    <2>. QED
      BY <1>0, <1>00, <2>1, <2>2, <2>3
  <1>7. CASE UNCHANGED writerVars
    BY <1>0, <1>00, <1>7 DEF writerVars, OpenIsThere, TempOf
  <1>. QED
    BY <1>1, <1>2, <1>3, <1>4, <1>5, <1>6, <1>7 DEF WriterNext

\* Initially nobody has a file open.
LEMMA TypeInit == WriterInit => WriterTypeOK /\ OpenIsThere
  BY DEF WriterInit, WriterTypeOK, OpenIsThere, Missing

(* Every variable of the writers keeps its type.                           *)
THEOREM WriterTypeCorrect == WriterSpec => [](WriterTypeOK /\ OpenIsThere)
  <1>. QED
    BY TypeInit, TypeStep, PTL DEF WriterSpec

-----------------------------------------------------------------------------
(* Writers of different processes.                                         *)

\* How far a writer is, is how much of its temporary file it has written, and
\* nobody has the target open.
OwnPieces(w) ==
    /\ w \in open <=> wpc[w] \in {"first", "second"}
    /\ wpc[w] = "second" => TempOf(w)[1] = w
    /\ wpc[w] = "move" => TempOf(w) \in {Missing, Whole(w)}

ApartInv ==
    ProcessesApart =>
        /\ loose = {}
        /\ target \in {Missing} \cup {Whole(w) : w \in Writes}
        /\ \A w \in Writes : OwnPieces(w)

\* A step of one writer leaves the others what they have.
LEMMA OthersKeep ==
  ASSUME WriterTypeOK, ApartInv, ProcessesApart, NEW w \in Writes,
         UNCHANGED process,
         \A x \in Writes : x # w => /\ wpc'[x] = wpc[x]
                                    /\ x \in open' <=> x \in open,
         \A p \in Processes : p # process[w] => temp'[p] = temp[p]
  PROVE  \A x \in Writes : x # w => OwnPieces(x)'
  <1>. SUFFICES ASSUME NEW x \in Writes, x # w
                PROVE  OwnPieces(x)'
    OBVIOUS
  <1>1. process[x] \in Processes /\ process[x] # process[w]
    BY DEF ProcessesApart, WriterTypeOK
  <1>2. TempOf(x)' = TempOf(x)
    BY <1>1 DEF TempOf
  <1>3. OwnPieces(x)
    BY DEF ApartInv
  <1>. QED
    BY <1>2, <1>3 DEF OwnPieces, Whole, Missing

LEMMA ApartStep ==
  ASSUME WriterTypeOK, OpenIsThere, ApartInv, [WriterNext]_writerVars
  PROVE  ApartInv'
  <1>0. process' = process
    BY DEF WriterNext, writerVars, CheckTarget, OpenTemp, WriteFirst, WriteSecond, Move,
           ReturnWritten, WriteFails, ReturnFails, KillProcess
  <1>. SUFFICES ASSUME ProcessesApart
                PROVE  /\ loose' = {}
                       /\ target' \in {Missing} \cup {Whole(w) : w \in Writes}
                       /\ \A w \in Writes : OwnPieces(w)'
    BY <1>0 DEF ApartInv, ProcessesApart, Whole
  <1>00. /\ process \in [Writes -> Processes] /\ wpc \in [Writes -> WriterStages]
         /\ temp \in [Processes -> Files] /\ open \subseteq Writes
         /\ loose = {}
         /\ target \in {Missing} \cup {Whole(w) : w \in Writes}
         /\ \A w \in Writes : OwnPieces(w)
    BY DEF WriterTypeOK, WriterStages, Files, ApartInv
  <1>1. ASSUME NEW w \in Writes, CheckTarget(w) \/ ReturnWritten(w) \/ ReturnFails(w)
        PROVE  loose' = {} /\ target' = target /\ \A x \in Writes : OwnPieces(x)'
    <2>1. /\ UNCHANGED <<process, target, temp, open, loose>>
          /\ wpc[w] \in {"idle", "replaced"}
          /\ wpc'[w] \in {"refused", "open", "ok", "error"}
          /\ \A x \in Writes : x # w => wpc'[x] = wpc[x]
      BY <1>1, <1>00 DEF CheckTarget, ReturnWritten, ReturnFails, WriterGoto
    <2>2. OwnPieces(w)'
      BY <2>1, <1>00 DEF OwnPieces
    <2>. QED
      BY <2>1, <2>2, <1>00, OthersKeep
  <1>2. ASSUME NEW w \in Writes, OpenTemp(w)
        PROVE  loose' = {} /\ target' = target /\ \A x \in Writes : OwnPieces(x)'
    <2>1. /\ UNCHANGED <<process, target, loose>>
          /\ temp' = [temp EXCEPT ![process[w]] = Empty]
          /\ open' = open \cup {w}
          /\ wpc'[w] = "first"
          /\ \A x \in Writes : x # w => wpc'[x] = wpc[x]
      BY <1>2, <1>00 DEF OpenTemp, WriterGoto
    <2>2. OwnPieces(w)'
      BY <2>1 DEF OwnPieces
    <2>3. \A p \in Processes : p # process[w] => temp'[p] = temp[p]
      BY <2>1, <1>00
    <2>. QED
      BY <2>1, <2>2, <2>3, <1>00, OthersKeep
  <1>3. ASSUME NEW w \in Writes, WriteFirst(w)
        PROVE  loose' = {} /\ target' = target /\ \A x \in Writes : OwnPieces(x)'
    <2>1. /\ UNCHANGED <<process, open, loose>>
          /\ wpc[w] = "first" /\ wpc'[w] = "second"
          /\ \A x \in Writes : x # w => wpc'[x] = wpc[x]
      BY <1>3, <1>00 DEF WriteFirst, WriterGoto
    <2>2. w \in open /\ process[w] \in Processes /\ TempOf(w) \in Content
      BY <2>1, <1>00 DEF OwnPieces, OpenIsThere
    <2>3. /\ target' = target
          /\ temp' = [temp EXCEPT ![process[w]] = [@ EXCEPT ![1] = w]]
      BY <1>3, <2>2, <1>00 DEF WriteFirst, Put
    <2>4. TempOf(w)' = [TempOf(w) EXCEPT ![1] = w]
      BY <2>1, <2>2, <2>3, <1>00 DEF TempOf
    <2>5. TempOf(w)'[1] = w
      BY <2>2, <2>4 DEF Content
    <2>6. OwnPieces(w)'
      BY <2>1, <2>2, <2>5 DEF OwnPieces
    <2>7. \A p \in Processes : p # process[w] => temp'[p] = temp[p]
      BY <2>3, <1>00
    <2>. QED
      BY <2>1, <2>3, <2>6, <2>7, <1>00, OthersKeep
  <1>4. ASSUME NEW w \in Writes, WriteSecond(w)
        PROVE  loose' = {} /\ target' = target /\ \A x \in Writes : OwnPieces(x)'
    <2>1. /\ UNCHANGED process /\ open' = open \ {w} /\ loose' = {}
          /\ wpc[w] = "second" /\ wpc'[w] = "move"
          /\ \A x \in Writes : x # w => wpc'[x] = wpc[x]
      BY <1>4, <1>00 DEF WriteSecond, WriterGoto
    <2>2. w \in open /\ process[w] \in Processes /\ TempOf(w) \in Content /\ TempOf(w)[1] = w
      BY <2>1, <1>00 DEF OwnPieces, OpenIsThere
    <2>3. /\ target' = target
          /\ temp' = [temp EXCEPT ![process[w]] = [@ EXCEPT ![2] = w]]
      BY <1>4, <2>2, <1>00 DEF WriteSecond, Put
    <2>4. TempOf(w)' = [TempOf(w) EXCEPT ![2] = w]
      BY <2>1, <2>2, <2>3, <1>00 DEF TempOf
    <2>5. TempOf(w)' = Whole(w)
      BY <2>2, <2>4 DEF Content, Whole
    <2>6. OwnPieces(w)'
      BY <2>1, <2>2, <2>5 DEF OwnPieces, Whole
    <2>7. \A p \in Processes : p # process[w] => temp'[p] = temp[p]
      BY <2>3, <1>00
    <2>. QED
      BY <2>1, <2>3, <2>6, <2>7, <1>00, OthersKeep
  <1>5. ASSUME NEW w \in Writes, Move(w)
        PROVE  loose' = {} /\ target' = Whole(w) /\ \A x \in Writes : OwnPieces(x)'
    <2>1. /\ UNCHANGED process
          /\ TempOf(w) # Missing /\ target' = TempOf(w)
          /\ temp' = [temp EXCEPT ![process[w]] = Missing]
          /\ wpc[w] = "move" /\ wpc'[w] = "replaced"
          /\ \A x \in Writes : x # w => wpc'[x] = wpc[x]
          /\ open' = open \ {x \in open : process[x] = process[w]}
          /\ loose' = {x \in open : process[x] = process[w]}
      BY <1>5, <1>00 DEF Move, Rename, WriterGoto
    <2>2. w \notin open /\ TempOf(w) = Whole(w)
      BY <2>1, <1>00 DEF OwnPieces
    <2>3. {x \in open : process[x] = process[w]} = {}
      BY <2>2, <1>00 DEF ProcessesApart
    <2>4. OwnPieces(w)'
      BY <2>1, <2>2, <2>3 DEF OwnPieces
    <2>5. \A p \in Processes : p # process[w] => temp'[p] = temp[p]
      BY <2>1, <1>00
    <2>. QED
      BY <2>1, <2>2, <2>3, <2>4, <2>5, <1>00, OthersKeep
  <1>6. ASSUME NEW w \in Writes, WriteFails(w)
        PROVE  loose' = {} /\ target' = target /\ \A x \in Writes : OwnPieces(x)'
    <2>1. /\ UNCHANGED <<process, target>> /\ loose' = {}
          /\ temp' = [temp EXCEPT ![process[w]] = Missing]
          /\ wpc'[w] = "error"
          /\ \A x \in Writes : x # w => wpc'[x] = wpc[x]
          /\ open' = {x \in open : process[x] # process[w]}
      BY <1>6, <1>00 DEF WriteFails, WriterGoto
    <2>2. OwnPieces(w)'
      BY <2>1 DEF OwnPieces
    <2>3. \A x \in Writes : x # w => (x \in open' <=> x \in open)
      BY <2>1, <1>00 DEF ProcessesApart
    <2>4. \A p \in Processes : p # process[w] => temp'[p] = temp[p]
      BY <2>1, <1>00
    <2>. QED
      BY <2>1, <2>2, <2>3, <2>4, <1>00, OthersKeep
  <1>7. ASSUME NEW p \in Processes, KillProcess(p)
        PROVE  loose' = {} /\ target' = target /\ \A x \in Writes : OwnPieces(x)'
    <2>. DEFINE dead == {w \in Writes : process[w] = p /\ wpc[w] \in {"open", "first", "second", "move", "replaced"}}
    <2>1. /\ UNCHANGED <<process, target, temp>> /\ loose' = {}
          /\ wpc' = [w \in Writes |-> IF w \in dead THEN "error" ELSE wpc[w]]
          /\ open' = open \ dead
      BY <1>7, <1>00 DEF KillProcess
    <2>2. ASSUME NEW x \in Writes
          PROVE  OwnPieces(x)'
      <3>1. OwnPieces(x) /\ TempOf(x)' = TempOf(x)
        BY <2>1, <1>00 DEF TempOf
      <3>2. CASE x \in dead
        BY <2>1, <3>2 DEF OwnPieces
      <3>3. CASE x \notin dead
        BY <2>1, <3>1, <3>3 DEF OwnPieces, Whole, Missing
      <3>. QED
        BY <3>2, <3>3
    <2>. QED
      BY <2>1, <2>2
  <1>8. CASE UNCHANGED writerVars
    BY <1>8, <1>00 DEF writerVars, OwnPieces, TempOf, Whole, Missing
  <1>. QED
    <2>1. ASSUME loose' = {} /\ (target' = target \/ \E w \in Writes : target' = Whole(w)),
                 \A x \in Writes : OwnPieces(x)'
          PROVE  /\ loose' = {}
                 /\ target' \in {Missing} \cup {Whole(w) : w \in Writes}
                 /\ \A w \in Writes : OwnPieces(w)'
      BY <2>1, <1>00
    <2>. QED
      BY <1>1, <1>2, <1>3, <1>4, <1>5, <1>6, <1>7, <1>8, <2>1, <1>00 DEF WriterNext

LEMMA ApartInit == WriterInit => ApartInv
  BY DEF WriterInit, ApartInv, OwnPieces

LEMMA WriterInvariant == WriterSpec => [](WriterTypeOK /\ OpenIsThere /\ ApartInv)
  <1>. QED
    BY TypeInit, ApartInit, TypeStep, ApartStep, PTL DEF WriterSpec

(* Writers in different processes never leave a torn file, whoever fails   *)
(* or is killed, and wherever.                                             *)
THEOREM TargetStaysWhole == WriterSpec => []TargetIsWhole
  <1>1. ApartInv => TargetIsWhole
    BY DEF ApartInv, TargetIsWhole
  <1>. QED
    BY <1>1, WriterInvariant, PTL

-----------------------------------------------------------------------------
(* The refinement.                                                         *)

\* The state of a write in AtomicFile.
Progress(stage) ==
    IF stage \in {"open", "first", "second", "move"} THEN "begun"
    ELSE IF stage = "refused" THEN "idle" ELSE stage

Held == IF target = Missing THEN NoWrite ELSE target[1]
Progresses == [w \in Writes |-> Progress(wpc[w])]

LEMMA FileStep ==
  ASSUME NEW w \in Writes, wpc \in [Writes -> WriterStages], wpc' \in [Writes -> WriterStages],
         \A x \in Writes : x # w => wpc'[x] = wpc[x],
         \/ UNCHANGED Held /\ Progress(wpc'[w]) = Progress(wpc[w])
         \/ /\ UNCHANGED Held
            /\ \/ wpc[w] = "idle" /\ wpc'[w] = "open"
               \/ wpc[w] = "replaced" /\ wpc'[w] = "ok"
               \/ wpc[w] \in {"open", "first", "second", "move", "replaced"} /\ wpc'[w] = "error"
         \/ Held' = w /\ wpc[w] = "move" /\ wpc'[w] = "replaced"
  PROVE  File!Step
  <1>. DEFINE P == Progresses
  <1>1. P' = [P EXCEPT ![w] = Progress(wpc'[w])]
    BY DEF Progresses
  <1>2. P[w] = Progress(wpc[w])
    BY DEF Progresses
  <1>3. CASE UNCHANGED Held /\ Progress(wpc'[w]) = Progress(wpc[w])
    <2>1. P' = P
      BY <1>1, <1>2, <1>3 DEF Progresses
    <2>. QED
      BY <1>3, <2>1 DEF File!Step, Held, Progresses, Progress
  <1>4. CASE UNCHANGED Held /\ wpc[w] = "idle" /\ wpc'[w] = "open"
    <2>1. P[w] = "idle" /\ P' = [P EXCEPT ![w] = "begun"]
      BY <1>1, <1>2, <1>4 DEF Progress
    <2>. QED
      BY <1>4, <2>1 DEF File!Step, File!Next, File!Begin, File!Advance, Held, Progresses, Progress
  <1>5. CASE UNCHANGED Held /\ wpc[w] = "replaced" /\ wpc'[w] = "ok"
    <2>1. P[w] = "replaced" /\ P' = [P EXCEPT ![w] = "ok"]
      BY <1>1, <1>2, <1>5 DEF Progress
    <2>. QED
      BY <1>5, <2>1 DEF File!Step, File!Next, File!Return, File!Advance, Held, Progresses, Progress
  <1>6. CASE /\ UNCHANGED Held
             /\ wpc[w] \in {"open", "first", "second", "move", "replaced"} /\ wpc'[w] = "error"
    <2>1. P[w] \in {"begun", "replaced"} /\ P' = [P EXCEPT ![w] = "error"]
      BY <1>1, <1>2, <1>6 DEF Progress
    <2>. QED
      BY <1>6, <2>1 DEF File!Step, File!Next, File!Fail, File!Advance, Held, Progresses, Progress
  <1>7. CASE Held' = w /\ wpc[w] = "move" /\ wpc'[w] = "replaced"
    <2>1. P[w] = "begun" /\ P' = [P EXCEPT ![w] = "replaced"]
      BY <1>1, <1>2, <1>7 DEF Progress
    <2>. QED
      BY <1>7, <2>1 DEF File!Step, File!Next, File!Replace, File!Advance, Held, Progresses, Progress
  <1>. QED
    BY <1>3, <1>4, <1>5, <1>6, <1>7

LEMMA StepRefines ==
  ASSUME WriterTypeOK, OpenIsThere, ApartInv, WriterTypeOK', [WriterNext]_writerVars
  PROVE  [ProcessesApart => File!Step]_writerVars
  <1>. SUFFICES ASSUME ProcessesApart, WriterNext
                PROVE  File!Step
    OBVIOUS
  <1>00. /\ process \in [Writes -> Processes]
         /\ wpc \in [Writes -> WriterStages] /\ wpc' \in [Writes -> WriterStages]
         /\ loose = {} /\ \A w \in Writes : OwnPieces(w)
    BY DEF WriterTypeOK, WriterStages, ApartInv
  <1>1. ASSUME NEW w \in Writes, CheckTarget(w)
        PROVE  File!Step
    <2>1. /\ UNCHANGED Held
          /\ wpc[w] = "idle" /\ wpc'[w] \in {"refused", "open"}
          /\ \A x \in Writes : x # w => wpc'[x] = wpc[x]
      BY <1>1, <1>00 DEF CheckTarget, WriterGoto, Held
    <2>. QED
      BY <2>1, <1>00, FileStep DEF Progress
  <1>2. ASSUME NEW w \in Writes, OpenTemp(w)
        PROVE  File!Step
    <2>1. /\ UNCHANGED Held
          /\ wpc[w] = "open" /\ wpc'[w] = "first"
          /\ \A x \in Writes : x # w => wpc'[x] = wpc[x]
      BY <1>2, <1>00 DEF OpenTemp, WriterGoto, Held
    <2>. QED
      BY <2>1, <1>00, FileStep DEF Progress
  <1>3. ASSUME NEW w \in Writes, WriteFirst(w) \/ WriteSecond(w)
        PROVE  File!Step
    <2>1. /\ UNCHANGED Held
          /\ wpc[w] \in {"first", "second"} /\ wpc'[w] \in {"second", "move"}
          /\ \A x \in Writes : x # w => wpc'[x] = wpc[x]
      BY <1>3, <1>00 DEF WriteFirst, WriteSecond, Put, WriterGoto, Held
    <2>. QED
      BY <2>1, <1>00, FileStep DEF Progress
  <1>4. ASSUME NEW w \in Writes, Move(w)
        PROVE  File!Step
    <2>1. /\ target' = TempOf(w) /\ TempOf(w) # Missing
          /\ wpc[w] = "move" /\ wpc'[w] = "replaced"
          /\ \A x \in Writes : x # w => wpc'[x] = wpc[x]
      BY <1>4, <1>00 DEF Move, Rename, WriterGoto
    <2>2. target' = Whole(w) /\ target' # Missing
      BY <2>1, <1>00 DEF OwnPieces
    <2>3. Held' = w
      BY <2>2 DEF Held, Whole, Missing
    <2>. QED
      BY <2>1, <2>3, <1>00, FileStep
  <1>5. ASSUME NEW w \in Writes, ReturnWritten(w) \/ WriteFails(w) \/ ReturnFails(w)
        PROVE  File!Step
    <2>1. /\ UNCHANGED Held
          /\ \/ wpc[w] = "replaced" /\ wpc'[w] = "ok"
             \/ wpc[w] \in {"open", "first", "second", "move", "replaced"} /\ wpc'[w] = "error"
          /\ \A x \in Writes : x # w => wpc'[x] = wpc[x]
      BY <1>5, <1>00 DEF ReturnWritten, WriteFails, ReturnFails, WriterGoto, Held
    <2>. QED
      BY <2>1, <1>00, FileStep
  \* A process that is killed runs one call.
  <1>6. ASSUME NEW p \in Processes, KillProcess(p)
        PROVE  File!Step
    <2>. DEFINE dead == {w \in Writes : process[w] = p /\ wpc[w] \in {"open", "first", "second", "move", "replaced"}}
    <2>1. PICK w \in dead : TRUE
      BY <1>6 DEF KillProcess
    <2>2. \A x \in Writes : x # w => x \notin dead
      BY <2>1 DEF ProcessesApart
    <2>3. /\ UNCHANGED Held
          /\ wpc[w] \in {"open", "first", "second", "move", "replaced"} /\ wpc'[w] = "error"
          /\ \A x \in Writes : x # w => wpc'[x] = wpc[x]
      BY <1>6, <2>1, <2>2 DEF KillProcess, Held
    <2>. QED
      BY <2>1, <2>3, <1>00, FileStep
  <1>. QED
    BY <1>1, <1>2, <1>3, <1>4, <1>5, <1>6 DEF WriterNext

(* Among writers of different processes an atomic write is one step of     *)
(* AtomicFile: the file changes by whole, running writes only.             *)
THEOREM WriterImplementsAtomicFile == WriterSpec => ImplementsAtomicFile
  <1>1. /\ WriterTypeOK /\ OpenIsThere /\ ApartInv
        /\ (WriterTypeOK /\ OpenIsThere /\ ApartInv)'
        /\ [WriterNext]_writerVars
        => [ProcessesApart => File!Step]_writerVars
    BY StepRefines
  <1>. QED
    BY <1>1, WriterInvariant, PTL DEF WriterSpec, ImplementsAtomicFile
=============================================================================
