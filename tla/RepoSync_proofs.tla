-------------------------- MODULE RepoSync_proofs --------------------------
(***************************************************************************)
(* Theorems about RepoSync, for every set of files, contents and jobs.     *)
(*                                                                         *)
(* The shortcut on (size, mtime) is sound because the stamp is taken       *)
(* before the hash: a hash taken of a later version goes with the stamp of *)
(* an earlier one, which no file has any more (HashOfStamp).               *)
(***************************************************************************)
EXTENDS RepoSync, TLAPS

InLoop == {"size", "stat", "compare", "hash", "read", "upsert"}
Statted == {"compare", "hash", "read", "upsert"}
Hashed == {"read", "upsert"}

(* What a job holds at each point. *)
InHand ==
    \A j \in Jobs :
        /\ pc[j] \in InLoop => item[j].file \in todo[j]
        /\ pc[j] \in Statted => item[j].stamp \in 1..clock
        /\ pc[j] \in Hashed => item[j].hash \in Contents

(* No stamp comes from the future. *)
StampsGiven ==
    \A f \in Files :
        /\ disk[f] # None => disk[f].stamp <= clock
        /\ manifest[f] # None => manifest[f].stamp <= clock

(* A hash in hand is the file's if the file still has the stamp in hand. *)
HashOfStamp ==
    \A j \in Jobs :
        (/\ pc[j] \in Hashed
         /\ disk[item[j].file] # None
         /\ disk[item[j].file].stamp = item[j].stamp)
            => item[j].hash = disk[item[j].file].content

(* The stamp a file has now goes with its hash. *)
HashSound ==
    \A f \in Files : (/\ disk[f] # None
                      /\ manifest[f] # None
                      /\ manifest[f].stamp = disk[f].stamp)
                        => manifest[f].hash = disk[f].content

IInv == TypeOK /\ InHand /\ StampsGiven /\ HashOfStamp /\ HashSound

-----------------------------------------------------------------------------
\* The invariant holds initially.
LEMMA InitHolds == Init => IInv
BY RepoSyncAssumption
DEF Init, IInv, TypeOK, InHand, StampsGiven, HashOfStamp, HashSound, InLoop,
    Statted, Hashed, Item, ItemType, Modes

(* An edit of the working tree. *)
LEMMA EditKeeps ==
    ASSUME IInv, NEW f \in Files, NEW version \in [content: Contents, stamp: {clock + 1}] \cup {None},
           Edit(f, version)
    PROVE  IInv'
<1>. USE DEF IInv, InLoop, Statted, Hashed
<1>1. clock \in Nat /\ clock' \in 1..MaxEdits /\ clock' = clock + 1 /\ MaxEdits \in Nat
  BY RepoSyncAssumption DEF Edit, TypeOK
<1>2. \A g \in Files : disk'[g] = IF g = f THEN version ELSE disk[g]
  BY DEF Edit, TypeOK
<1>3. TypeOK'
  BY <1>1, <1>2 DEF Edit, Disturb, TypeOK, tables
<1>4. InHand'
  BY <1>1 DEF Edit, InHand, TypeOK, ItemType
<1>5. StampsGiven'
  BY <1>1, <1>2 DEF Edit, StampsGiven, TypeOK, tables
<1>6. HashOfStamp'
  <2>. SUFFICES ASSUME NEW j \in Jobs, pc[j] \in Hashed,
                       disk'[item[j].file] # None,
                       disk'[item[j].file].stamp = item[j].stamp
                PROVE  item[j].hash = disk'[item[j].file].content
    BY DEF Edit, HashOfStamp
  <2>1. item[j].file \in Files /\ item[j].stamp \in 1..clock
    BY DEF InHand, TypeOK
  <2>2. item[j].file # f
    BY <1>1, <1>2, <2>1
  <2>. QED
    BY <1>2, <2>1, <2>2 DEF HashOfStamp
<1>7. HashSound'
  BY <1>1, <1>2 DEF Edit, HashSound, StampsGiven, TypeOK, tables
<1>. QED
  BY <1>3, <1>4, <1>5, <1>6, <1>7

(* The steps of a job that write no table: what is left to show is about *)
(* the job itself.                                                       *)
LEMMA JobStepKeeps ==
    ASSUME IInv, NEW j \in Jobs, UNCHANGED <<disk, clock, manifest>>, TypeOK',
           \A k \in Jobs \ {j} : pc'[k] = pc[k] /\ item'[k] = item[k] /\ todo'[k] = todo[k],
           pc'[j] \in InLoop => item'[j].file \in todo'[j],
           pc'[j] \in Statted => item'[j].stamp \in 1..clock,
           pc'[j] \in Hashed =>
                /\ item'[j].hash \in Contents
                /\ \/ disk[item'[j].file] = None
                   \/ disk[item'[j].file].stamp # item'[j].stamp
                   \/ item'[j].hash = disk[item'[j].file].content
    PROVE  IInv'
<1>1. InHand'
  BY DEF IInv, InHand
<1>2. StampsGiven' /\ HashSound'
  BY DEF IInv, StampsGiven, HashSound
<1>3. HashOfStamp'
  BY DEF IInv, HashOfStamp
<1>. QED
  BY <1>1, <1>2, <1>3 DEF IInv

(* Moving on with an item, leaving one, and giving up are well typed. *)
Points == {"idle", "next", "size", "stat", "compare", "hash", "read", "upsert", "done", "failed"}

\* Moving a job to another program point keeps everything typed.
LEMMA MoveTyped ==
    ASSUME TypeOK, NEW j \in Jobs, UNCHANGED <<disk, head, clock, mode>>,
           manifest' \in [Files -> [hash: Contents, stamp: 1..MaxEdits] \cup {None}],
           row' \in [Files -> [text: Contents \cup {None}, hash: Contents] \cup {None}],
           quiet' \in [Jobs -> BOOLEAN], passed' \in SUBSET Files, torn' \in SUBSET Files,
           \/ \E l \in Points, it \in ItemType : Goto(j, l, it)
           \/ \E r \in SUBSET Files : Return(j, r)
           \/ Abort(j)
    PROVE  TypeOK'
<1>. USE DEF TypeOK
<1>1. Item(None) \in ItemType
  BY RepoSyncAssumption DEF Item, ItemType
<1>2. ASSUME NEW l \in Points, NEW it \in ItemType, Goto(j, l, it)
      PROVE  /\ pc' \in [Jobs -> Points]
             /\ todo' \in [Jobs -> SUBSET Files]
             /\ changed' \in [Jobs -> SUBSET Files]
             /\ item' \in [Jobs -> ItemType]
  BY <1>2 DEF Goto, Points
<1>3. ASSUME NEW r \in SUBSET Files, Return(j, r)
      PROVE  /\ pc' \in [Jobs -> Points]
             /\ todo' \in [Jobs -> SUBSET Files]
             /\ changed' \in [Jobs -> SUBSET Files]
             /\ item' \in [Jobs -> ItemType]
  BY <1>1, <1>3 DEF Return, Points
<1>4. ASSUME Abort(j)
      PROVE  /\ pc' \in [Jobs -> Points]
             /\ todo' \in [Jobs -> SUBSET Files]
             /\ changed' \in [Jobs -> SUBSET Files]
             /\ item' \in [Jobs -> ItemType]
  BY <1>1, <1>4 DEF Abort, Points
<1>. QED
  BY <1>2, <1>3, <1>4 DEF Points

\* Every step keeps the typing.
LEMMA TypeStep == IInv /\ [Next]_vars => TypeOK'
<1>. SUFFICES ASSUME IInv, [Next]_vars PROVE TypeOK'
  OBVIOUS
<1>. USE RepoSyncAssumption DEF IInv, TypeOK
<1>1. ASSUME NEW f \in Files, NEW c \in Contents, Write(f, c) PROVE TypeOK'
  BY <1>1, EditKeeps DEF Write
<1>2. ASSUME NEW f \in Files, Delete(f) PROVE TypeOK'
  BY <1>2, EditKeeps DEF Delete
<1>3. ASSUME NEW f \in Files, Commit(f) PROVE TypeOK'
  BY <1>3 DEF Commit, Disturb, tables
<1>4. ASSUME NEW j \in Jobs, NEW m \in Modes, NEW fs \in SUBSET Files, Begin(j, m, fs)
      PROVE  TypeOK'
  BY <1>4 DEF Begin, tree, tables
<1>5. ASSUME NEW j \in Jobs, NEW f \in Files, Select(j, f) PROVE TypeOK'
  <2>1. Item(f) \in ItemType
    BY DEF Item, ItemType
  <2>2. \/ \E l \in Points, it \in ItemType : Goto(j, l, it)
        \/ todo' = [todo EXCEPT ![j] = @ \ {f}] /\ UNCHANGED <<pc, item, changed>>
    BY <1>5, <2>1 DEF Select, Points
  <2>3. UNCHANGED <<tree, tables, mode, past>>
    BY <1>5 DEF Select
  <2>4. CASE \E l \in Points, it \in ItemType : Goto(j, l, it)
    BY <2>3, <2>4, MoveTyped DEF tree, tables, past
  <2>5. CASE todo' = [todo EXCEPT ![j] = @ \ {f}] /\ UNCHANGED <<pc, item, changed>>
    BY <2>3, <2>5 DEF tree, tables, past
  <2>. QED
    BY <2>2, <2>4, <2>5
<1>6. ASSUME NEW j \in Jobs, Size(j) PROVE TypeOK'
  <2>1. \E l \in Points, it \in ItemType : Goto(j, l, it)
    BY <1>6 DEF Size, Points
  <2>. QED
    BY <1>6, <2>1, MoveTyped DEF Size, tree, tables, past
<1>7. ASSUME NEW j \in Jobs, Stat(j) PROVE TypeOK'
  <2>1. item[j] \in ItemType /\ item[j].file \in Files
    BY <1>7 DEF Stat, InHand, InLoop
  <2>2. disk[item[j].file] # None =>
            [item[j] EXCEPT !.stamp = disk[item[j].file].stamp] \in ItemType
    <3>1. disk[item[j].file] # None => disk[item[j].file].stamp \in 0..MaxEdits
      BY <2>1
    <3>. QED
      BY <2>1, <3>1 DEF ItemType
  <2>3. \E l \in Points, it \in ItemType : Goto(j, l, it)
    BY <1>7, <2>1, <2>2 DEF Stat, Points
  <2>. QED
    BY <1>7, <2>3, MoveTyped DEF Stat, tree, tables, past
<1>8. ASSUME NEW j \in Jobs, Compare(j) PROVE TypeOK'
  <2>. DEFINE entry == manifest[item[j].file]
              k == IF entry = None THEN None ELSE entry.hash
  <2>1. item[j] \in ItemType /\ item[j].file \in Files
    BY <1>8 DEF Compare, InHand, InLoop
  <2>2. [item[j] EXCEPT !.known = k] \in ItemType
    BY <2>1 DEF ItemType
  <2>3. \/ \E l \in Points, it \in ItemType : Goto(j, l, it)
        \/ \E r \in SUBSET Files : Return(j, r)
    BY <1>8, <2>1, <2>2 DEF Compare, Visited, Points
  <2>. QED
    BY <1>8, <2>3, MoveTyped DEF Compare, tree, tables, past
<1>9. ASSUME NEW j \in Jobs, Hash(j) PROVE TypeOK'
  <2>1. item[j] \in ItemType /\ item[j].file \in Files
    BY <1>9 DEF Hash, InHand, InLoop
  <2>2. disk[item[j].file] # None =>
            [item[j] EXCEPT !.hash = disk[item[j].file].content] \in ItemType
    BY <2>1 DEF ItemType
  <2>3. \/ \E l \in Points, it \in ItemType : Goto(j, l, it)
        \/ \E r \in SUBSET Files : Return(j, r)
    BY <1>9, <2>1, <2>2 DEF Hash, Visited, Points
  <2>. QED
    BY <1>9, <2>3, MoveTyped DEF Hash, tree, tables, past
<1>10. ASSUME NEW j \in Jobs, Read(j) PROVE TypeOK'
  <2>1. item[j] \in ItemType /\ item[j].file \in Files
    BY <1>10 DEF Read, InHand, InLoop
  <2>2. PICK text : /\ text \in Contents \cup {None}
                    /\ Goto(j, "upsert", [item[j] EXCEPT !.text = text])
    BY <1>10, <2>1 DEF Read, Readings, Text
  <2>3. [item[j] EXCEPT !.text = text] \in ItemType
    BY <2>1, <2>2 DEF ItemType
  <2>4. \E l \in Points, it \in ItemType : Goto(j, l, it)
    BY <2>2, <2>3 DEF Points
  <2>5. torn' \in SUBSET Files /\ UNCHANGED <<tree, tables, mode, quiet, passed>>
    BY <1>10, <2>1 DEF Read
  <2>. QED
    BY <2>4, <2>5, MoveTyped DEF tree, tables
<1>11. ASSUME NEW j \in Jobs, Upsert(j) PROVE TypeOK'
  <2>1. /\ item[j] \in ItemType
        /\ item[j].file \in Files
        /\ item[j].hash \in Contents
        /\ item[j].stamp \in 1..MaxEdits
        /\ item[j].text \in Contents \cup {None}
    BY <1>11 DEF Upsert, Store, InHand, InLoop, Statted, Hashed, ItemType
  <2>2. manifest' \in [Files -> [hash: Contents, stamp: 1..MaxEdits] \cup {None}]
    BY <1>11, <2>1 DEF Upsert, Store
  <2>3. row' \in [Files -> [text: Contents \cup {None}, hash: Contents] \cup {None}]
    BY <1>11, <2>1 DEF Upsert, Store
  <2>4. \E r \in SUBSET Files : Return(j, r)
    BY <1>11, <2>1 DEF Upsert, Store
  <2>. QED
    BY <1>11, <2>2, <2>3, <2>4, MoveTyped DEF Upsert, Store, tree, past
<1>12. ASSUME NEW j \in Jobs, Finish(j) PROVE TypeOK'
  BY <1>12 DEF Finish, Goto, tree, tables, past
<1>13. CASE Crash
  BY <1>13 DEF Crash, Disturb, Resting, Item, ItemType, tree, tables
<1>14. CASE UNCHANGED vars
  BY <1>14 DEF vars, tree, tables, past
<1>16. ASSUME NEW j \in Jobs, Fails(j) PROVE TypeOK'
  <2>1. pc[j] \in Looks => item[j].file \in Files
    BY DEF Looks, InHand, InLoop
  <2>2. (\E r \in SUBSET Files : Return(j, r)) \/ Abort(j)
    BY <1>16, <2>1 DEF Fails, Visited
  <2>3. /\ UNCHANGED <<tree, tables, mode>>
        /\ quiet' \in [Jobs -> BOOLEAN] /\ passed' \in SUBSET Files /\ torn' \in SUBSET Files
    BY <1>16, <2>1 DEF Fails, Abort, Disturb
  <2>. QED
    BY <2>2, <2>3, MoveTyped DEF tree, tables
<1>15. ASSUME NEW j \in Jobs, BeginFull(j) \/ BeginIncremental(j) \/ BeginChanges(j)
       PROVE  TypeOK'
  BY <1>4, <1>15 DEF BeginFull, BeginIncremental, BeginChanges, OnDisk, Listed, Modes
<1>. QED
  BY <1>1, <1>2, <1>3, <1>5, <1>6, <1>7, <1>8, <1>9, <1>10, <1>11, <1>12, <1>13, <1>14, <1>15,
     <1>16
  DEF Next, Owner, Step

-----------------------------------------------------------------------------
(* Leaving the file in hand, or the whole call. *)
LEMMA LeaveKeeps ==
    ASSUME IInv, TypeOK', NEW j \in Jobs, UNCHANGED <<disk, clock, manifest>>,
           (\E r \in SUBSET Files : Return(j, r)) \/ Abort(j)
    PROVE  IInv'
<1>1. /\ \A k \in Jobs \ {j} : pc'[k] = pc[k] /\ item'[k] = item[k] /\ todo'[k] = todo[k]
      /\ pc'[j] \in {"next", "failed"}
  BY DEF Return, Abort, IInv, TypeOK
<1>. QED
  BY <1>1, JobStepKeeps DEF InLoop, Statted, Hashed

\* Every step keeps the invariant.
LEMMA StepKeeps == IInv /\ [Next]_vars => IInv'
<1>. SUFFICES ASSUME IInv, [Next]_vars PROVE IInv'
  OBVIOUS
<1>. USE RepoSyncAssumption
<1>0. TypeOK'
  BY TypeStep
<1>1. ASSUME NEW f \in Files, NEW c \in Contents, Write(f, c) PROVE IInv'
  BY <1>1, EditKeeps DEF Write
<1>2. ASSUME NEW f \in Files, Delete(f) PROVE IInv'
  BY <1>2, EditKeeps DEF Delete
<1>3. ASSUME NEW f \in Files, Commit(f) PROVE IInv'
  BY <1>0, <1>3 DEF Commit, tables, IInv, InHand, StampsGiven, HashOfStamp, HashSound
<1>4. ASSUME NEW j \in Jobs, NEW m \in Modes, NEW fs \in SUBSET Files, Begin(j, m, fs)
      PROVE  IInv'
  <2>1. /\ UNCHANGED <<disk, clock, manifest, item>>
        /\ pc'[j] = "next"
        /\ \A k \in Jobs \ {j} : pc'[k] = pc[k] /\ todo'[k] = todo[k]
    BY <1>4 DEF Begin, tree, tables, IInv, TypeOK
  <2>. QED
    BY <1>0, <2>1, JobStepKeeps DEF InLoop, Statted, Hashed
<1>5. ASSUME NEW j \in Jobs, NEW f \in Files, Select(j, f) PROVE IInv'
  <2>1. /\ UNCHANGED <<disk, clock, manifest>>
        /\ \A k \in Jobs \ {j} : pc'[k] = pc[k] /\ item'[k] = item[k] /\ todo'[k] = todo[k]
    BY <1>5 DEF Select, Goto, tree, tables, IInv, TypeOK
  <2>2. \/ /\ pc'[j] \in {"stat", "size"}
           /\ item'[j].file = f
           /\ f \in todo'[j]
        \/ pc'[j] = "next"
    BY <1>5 DEF Select, Goto, Item, IInv, TypeOK
  <2>. QED
    BY <1>0, <2>1, <2>2, JobStepKeeps DEF InLoop, Statted, Hashed
<1>6. ASSUME NEW j \in Jobs, Size(j) PROVE IInv'
  <2>1. /\ UNCHANGED <<disk, clock, manifest, todo>>
        /\ \A k \in Jobs \ {j} : pc'[k] = pc[k] /\ item'[k] = item[k]
    BY <1>6 DEF Size, Goto, tree, tables, IInv, TypeOK
  <2>2. pc'[j] = "stat" /\ item'[j] = item[j]
    BY <1>6 DEF Size, Goto, IInv, TypeOK
  <2>3. item[j].file \in todo[j]
    BY <1>6 DEF Size, IInv, InHand, InLoop
  <2>. QED
    BY <1>0, <2>1, <2>2, <2>3, JobStepKeeps DEF InLoop, Statted, Hashed
<1>7. ASSUME NEW j \in Jobs, Stat(j) PROVE IInv'
  <2>1. item[j] \in ItemType /\ item[j].file \in Files /\ item[j].file \in todo[j]
    BY <1>7 DEF Stat, IInv, TypeOK, InHand, InLoop
  <2>2. disk[item[j].file].stamp \in 1..clock
    BY <1>7, <2>1 DEF Stat, IInv, TypeOK, StampsGiven
  <2>3. /\ UNCHANGED <<disk, clock, manifest, todo>>
        /\ \A k \in Jobs \ {j} : pc'[k] = pc[k] /\ item'[k] = item[k]
    BY <1>7 DEF Stat, Goto, tree, tables, IInv, TypeOK
  <2>4. /\ pc'[j] = "compare"
        /\ item'[j] = [item[j] EXCEPT !.stamp = disk[item[j].file].stamp]
    BY <1>7 DEF Stat, Goto, IInv, TypeOK
  <2>5. item'[j].file = item[j].file /\ item'[j].stamp = disk[item[j].file].stamp
    BY <2>1, <2>4 DEF ItemType
  <2>. QED
    BY <1>0, <2>1, <2>2, <2>3, <2>4, <2>5, JobStepKeeps DEF InLoop, Statted, Hashed
<1>8. ASSUME NEW j \in Jobs, Compare(j) PROVE IInv'
  <2>. DEFINE entry == manifest[item[j].file]
              k == IF entry = None THEN None ELSE entry.hash
              next == [item[j] EXCEPT !.known = k]
  <2>1. item[j] \in ItemType /\ item[j].file \in todo[j] /\ item[j].file \in Files
        /\ item[j].stamp \in 1..clock
    BY <1>8 DEF Compare, IInv, TypeOK, InHand, InLoop, Statted
  <2>2. UNCHANGED <<disk, clock, manifest>>
    BY <1>8 DEF Compare, tree, tables
  <2>3. CASE Return(j, Visited(j))
    BY <1>0, <2>1, <2>2, <2>3, LeaveKeeps DEF Visited
  <2>4. CASE Goto(j, "hash", next)
    <3>1. next.file = item[j].file /\ next.stamp = item[j].stamp
      BY <2>1 DEF ItemType
    <3>. HIDE DEF next
    <3>2. /\ \A l \in Jobs \ {j} : pc'[l] = pc[l] /\ item'[l] = item[l]
          /\ pc'[j] = "hash" /\ item'[j] = next /\ todo' = todo
      BY <2>4 DEF Goto, IInv, TypeOK
    <3>. QED
      BY <1>0, <2>1, <2>2, <3>1, <3>2, JobStepKeeps DEF InLoop, Statted, Hashed
  <2>. QED
    BY <1>8, <2>3, <2>4 DEF Compare
<1>9. ASSUME NEW j \in Jobs, Hash(j) PROVE IInv'
  <2>. DEFINE next == [item[j] EXCEPT !.hash = disk[item[j].file].content]
  <2>1. item[j] \in ItemType /\ item[j].file \in todo[j] /\ item[j].file \in Files
        /\ item[j].stamp \in 1..clock
    BY <1>9 DEF Hash, IInv, TypeOK, InHand, InLoop, Statted
  <2>2. UNCHANGED <<disk, clock, manifest>>
    BY <1>9 DEF Hash, tree, tables
  <2>3. CASE (\E r \in SUBSET Files : Return(j, r)) \/ Abort(j)
    BY <1>0, <2>2, <2>3, LeaveKeeps
  <2>4. CASE disk[item[j].file] # None /\ Goto(j, "read", next)
    <3>1. /\ next.file = item[j].file /\ next.stamp = item[j].stamp
          /\ next.hash = disk[item[j].file].content
      BY <2>1 DEF ItemType
    <3>2. disk[item[j].file].content \in Contents
      BY <2>1, <2>4 DEF IInv, TypeOK
    <3>. HIDE DEF next
    <3>3. /\ \A l \in Jobs \ {j} : pc'[l] = pc[l] /\ item'[l] = item[l]
          /\ pc'[j] = "read" /\ item'[j] = next /\ todo' = todo
      BY <2>4 DEF Goto, IInv, TypeOK
    <3>. QED
      BY <1>0, <2>1, <2>2, <3>1, <3>2, <3>3, JobStepKeeps DEF InLoop, Statted, Hashed
  <2>. QED
    BY <1>9, <2>1, <2>3, <2>4 DEF Hash, Visited
<1>10. ASSUME NEW j \in Jobs, Read(j) PROVE IInv'
  <2>. PICK text : Goto(j, "upsert", [item[j] EXCEPT !.text = text])
    BY <1>10 DEF Read
  <2>. DEFINE next == [item[j] EXCEPT !.text = text]
  <2>1. /\ item[j] \in ItemType /\ item[j].file \in todo[j] /\ item[j].file \in Files
        /\ item[j].stamp \in 1..clock /\ item[j].hash \in Contents
    BY <1>10 DEF Read, IInv, TypeOK, InHand, InLoop, Statted, Hashed
  <2>2. \/ disk[item[j].file] = None
        \/ disk[item[j].file].stamp # item[j].stamp
        \/ item[j].hash = disk[item[j].file].content
    BY <1>10 DEF Read, IInv, HashOfStamp, Hashed
  <2>3. UNCHANGED <<disk, clock, manifest>>
    BY <1>10 DEF Read, tree, tables
  <2>4. /\ next.file = item[j].file /\ next.stamp = item[j].stamp
        /\ next.hash = item[j].hash
    BY <2>1 DEF ItemType
  <2>5. Goto(j, "upsert", next)
    OBVIOUS
  <2>. HIDE DEF next
  <2>6. /\ \A l \in Jobs \ {j} : pc'[l] = pc[l] /\ item'[l] = item[l]
        /\ pc'[j] = "upsert" /\ item'[j] = next /\ todo' = todo
    BY <2>5 DEF Goto, IInv, TypeOK
  <2>. QED
    BY <1>0, <2>1, <2>2, <2>3, <2>4, <2>6, JobStepKeeps DEF InLoop, Statted, Hashed
<1>11. ASSUME NEW j \in Jobs, Upsert(j) PROVE IInv'
  <2>. DEFINE f == item[j].file
  <2>1. /\ f \in Files /\ item[j].stamp \in 1..clock /\ item[j].hash \in Contents
        /\ pc[j] \in Hashed
    BY <1>11 DEF Upsert, Store, IInv, TypeOK, InHand, InLoop, Statted, Hashed
  <2>2. /\ UNCHANGED <<disk, clock>>
        /\ manifest' = [manifest EXCEPT ![f] = [hash |-> item[j].hash, stamp |-> item[j].stamp]]
        /\ \A k \in Jobs \ {j} : pc'[k] = pc[k] /\ item'[k] = item[k] /\ todo'[k] = todo[k]
        /\ pc'[j] = "next"
    BY <1>11 DEF Upsert, Store, Return, tree, IInv, TypeOK
  <2>3. InHand' /\ HashOfStamp'
    BY <2>2 DEF IInv, InHand, HashOfStamp, InLoop, Statted, Hashed
  <2>4. \A g \in Files :
            manifest'[g] = IF g = f THEN [hash |-> item[j].hash, stamp |-> item[j].stamp]
                                    ELSE manifest[g]
    BY <2>1, <2>2 DEF IInv, TypeOK
  <2>5. StampsGiven'
    BY <2>1, <2>2, <2>4 DEF IInv, StampsGiven, TypeOK
  <2>6. disk[f] # None /\ disk[f].stamp = item[j].stamp => item[j].hash = disk[f].content
    BY <2>1 DEF IInv, HashOfStamp
  <2>7. HashSound'
    BY <2>2, <2>4, <2>6 DEF IInv, HashSound
  <2>. QED
    BY <1>0, <2>3, <2>5, <2>7 DEF IInv
<1>12. ASSUME NEW j \in Jobs, Finish(j) PROVE IInv'
  <2>1. /\ UNCHANGED <<disk, clock, manifest, todo>>
        /\ \A k \in Jobs \ {j} : pc'[k] = pc[k] /\ item'[k] = item[k]
        /\ pc'[j] = "done"
    BY <1>12 DEF Finish, Goto, tree, tables, IInv, TypeOK
  <2>. QED
    BY <1>0, <2>1, JobStepKeeps DEF InLoop, Statted, Hashed
<1>13. CASE Crash
  <2>1. /\ UNCHANGED <<disk, clock, manifest>>
        /\ \A k \in Jobs : pc'[k] \notin InLoop
    BY <1>13 DEF Crash, Resting, tree, tables, IInv, TypeOK, InLoop
  <2>. QED
    BY <1>0, <2>1 DEF IInv, InHand, StampsGiven, HashOfStamp, HashSound, InLoop, Statted, Hashed
<1>14. CASE UNCHANGED vars
  BY <1>0, <1>14 DEF vars, tree, tables, IInv, InHand, StampsGiven, HashOfStamp, HashSound
<1>15. ASSUME NEW j \in Jobs, BeginFull(j) \/ BeginIncremental(j) \/ BeginChanges(j)
       PROVE  IInv'
  BY <1>4, <1>15 DEF BeginFull, BeginIncremental, BeginChanges, OnDisk, Listed, Modes
<1>16. ASSUME NEW j \in Jobs, Fails(j) PROVE IInv'
  <2>1. pc[j] \in Looks => item[j].file \in Files
    BY DEF Looks, IInv, TypeOK, InHand, InLoop
  <2>2. (\E r \in SUBSET Files : Return(j, r)) \/ Abort(j)
    BY <1>16, <2>1 DEF Fails, Visited
  <2>. QED
    BY <1>0, <1>16, <2>2, LeaveKeeps DEF Fails, tree, tables
<1>. QED
  BY <1>1, <1>2, <1>3, <1>5, <1>6, <1>7, <1>8, <1>9, <1>10, <1>11, <1>12, <1>13, <1>14, <1>15,
     <1>16
  DEF Next, Owner, Step

(* The inductive invariant holds of every behaviour. *)
THEOREM Invariance == Spec => []IInv
BY InitHolds, StepKeeps, PTL DEF Spec

(* Every variable keeps its type. *)
THEOREM TypeCorrect == Spec => []TypeOK
<1>1. IInv => TypeOK
  BY DEF IInv
<1>. QED
  BY <1>1, Invariance, PTL

-----------------------------------------------------------------------------
(* The text is read after the hash, and the two are told apart only while  *)
(* the stamp in hand is out of date.                                       *)
\* A text in hand is the file's, or none, if the file still has the stamp in hand.
TextOfStamp ==
    \A j \in Jobs :
        (/\ pc[j] = "upsert"
         /\ disk[item[j].file] # None
         /\ disk[item[j].file].stamp = item[j].stamp)
            => item[j].text \in Readings(item[j].file)

\* So is a text stored beside the stamp the file has.
TextSound ==
    \A f \in Files : (/\ disk[f] # None
                      /\ manifest[f] # None
                      /\ manifest[f].stamp = disk[f].stamp)
                        => row[f].text \in Readings(f)

TInv == TextOfStamp /\ TextSound

\* An edit gives the file a stamp that nobody holds and no entry has.
LEMMA EditKeepsTexts ==
    ASSUME IInv, TInv, NEW f \in Files, NEW version \in [content: Contents, stamp: {clock + 1}] \cup {None},
           Edit(f, version)
    PROVE  TInv'
<1>1. clock \in Nat
  BY RepoSyncAssumption DEF IInv, TypeOK
<1>2. \A g \in Files : disk'[g] = IF g = f THEN version ELSE disk[g]
  BY DEF Edit, IInv, TypeOK
<1>3. TextOfStamp'
  <2>. SUFFICES ASSUME NEW j \in Jobs, pc[j] = "upsert",
                       disk'[item[j].file] # None,
                       disk'[item[j].file].stamp = item[j].stamp
                PROVE  item[j].text \in Readings(item[j].file)'
    BY DEF Edit, TextOfStamp, Readings
  <2>1. item[j].file \in Files /\ item[j].stamp \in 1..clock
    BY DEF IInv, InHand, TypeOK, InLoop, Statted
  <2>2. item[j].file # f
    BY <1>1, <1>2, <2>1
  <2>. QED
    BY <1>2, <2>1, <2>2 DEF TInv, TextOfStamp, Readings, Edit
<1>4. TextSound'
  <2>. SUFFICES ASSUME NEW g \in Files, disk'[g] # None, manifest[g] # None,
                       manifest[g].stamp = disk'[g].stamp
                PROVE  row[g].text \in Readings(g)'
    BY DEF Edit, tables, TextSound
  <2>1. manifest[g].stamp \in 1..clock
    BY <1>1 DEF IInv, TypeOK, StampsGiven
  <2>2. g # f
    BY <1>1, <1>2, <2>1
  <2>. QED
    BY <1>2, <2>2 DEF TInv, TextSound, Readings
<1>. QED
  BY <1>3, <1>4 DEF TInv

\* Every step keeps the texts.
LEMMA StepKeepsTexts == IInv /\ TInv /\ [Next]_vars => TInv'
<1>. SUFFICES ASSUME IInv, TInv, [Next]_vars PROVE TInv'
  OBVIOUS
<1>. USE RepoSyncAssumption
<1>1. ASSUME NEW f \in Files, (\E c \in Contents : Write(f, c)) \/ Delete(f) PROVE TInv'
  BY <1>1, EditKeepsTexts DEF Write, Delete
<1>2. ASSUME UNCHANGED <<disk, manifest, row>>,
             \A j \in Jobs : pc'[j] = "upsert" => pc[j] = "upsert" /\ item'[j] = item[j]
      PROVE  TInv'
  BY <1>2 DEF TInv, TextOfStamp, TextSound, Readings
<1>3. ASSUME NEW f \in Files, Commit(f) PROVE TInv'
  BY <1>2, <1>3 DEF Commit, tables
<1>4. ASSUME NEW j \in Jobs, NEW l \in Points \ {"upsert"}, NEW it, Goto(j, l, it)
      PROVE  \A k \in Jobs : pc'[k] = "upsert" => pc[k] = "upsert" /\ item'[k] = item[k]
  BY <1>4 DEF Goto, IInv, TypeOK
<1>5. ASSUME NEW j \in Jobs, NEW r, Return(j, r)
      PROVE  \A k \in Jobs : pc'[k] = "upsert" => pc[k] = "upsert" /\ item'[k] = item[k]
  BY <1>5 DEF Return, IInv, TypeOK
<1>6. ASSUME NEW j \in Jobs, Abort(j)
      PROVE  \A k \in Jobs : pc'[k] = "upsert" => pc[k] = "upsert" /\ item'[k] = item[k]
  BY <1>6 DEF Abort, IInv, TypeOK
<1>7. ASSUME NEW j \in Jobs, BeginFull(j) \/ BeginIncremental(j) \/ BeginChanges(j) PROVE TInv'
  BY <1>2, <1>7 DEF BeginFull, BeginIncremental, BeginChanges, Begin, tree, tables, IInv, TypeOK
<1>8. ASSUME NEW j \in Jobs, NEW f \in Files, Select(j, f) PROVE TInv'
  <2>1. \A k \in Jobs : pc'[k] = "upsert" => pc[k] = "upsert" /\ item'[k] = item[k]
    BY <1>4, <1>8 DEF Select, Points
  <2>. QED
    BY <1>2, <1>8, <2>1 DEF Select, tree, tables
<1>9. ASSUME NEW j \in Jobs, Size(j) PROVE TInv'
  BY <1>2, <1>4, <1>9 DEF Size, tree, tables, Points
<1>10. ASSUME NEW j \in Jobs, Stat(j) PROVE TInv'
  BY <1>2, <1>4, <1>10 DEF Stat, tree, tables, Points
<1>11. ASSUME NEW j \in Jobs, Compare(j) PROVE TInv'
  BY <1>2, <1>4, <1>5, <1>11 DEF Compare, tree, tables, Points
<1>12. ASSUME NEW j \in Jobs, Hash(j) PROVE TInv'
  BY <1>2, <1>4, <1>5, <1>12 DEF Hash, tree, tables, Points
<1>13. ASSUME NEW j \in Jobs, Finish(j) PROVE TInv'
  BY <1>2, <1>4, <1>13 DEF Finish, tree, tables, Points
<1>14. CASE Crash
  BY <1>2, <1>14 DEF Crash, Resting, tree, tables, IInv, TypeOK
<1>15. CASE UNCHANGED vars
  BY <1>2, <1>15 DEF vars, tree, tables
<1>16. ASSUME NEW j \in Jobs, Read(j) PROVE TInv'
  <2>. DEFINE f == item[j].file
  <2>1. item[j] \in ItemType /\ f \in Files
    BY <1>16 DEF Read, IInv, TypeOK, InHand, InLoop
  <2>. PICK text : /\ disk[f] # None => text \in Readings(f)
                   /\ Goto(j, "upsert", [item[j] EXCEPT !.text = text])
    BY <1>16, <2>1 DEF Read
  <2>. DEFINE next == [item[j] EXCEPT !.text = text]
  <2>2. next.file = f /\ next.text = text
    BY <2>1 DEF ItemType
  <2>3. UNCHANGED <<disk, manifest, row>> /\ Goto(j, "upsert", next)
    BY <1>16 DEF Read, tree, tables
  <2>5. disk[next.file] # None => next.text \in Readings(next.file)
    BY <2>2
  <2>. HIDE DEF next
  <2>4. /\ pc'[j] = "upsert" /\ item'[j] = next
        /\ \A k \in Jobs \ {j} : pc'[k] = pc[k] /\ item'[k] = item[k]
    BY <2>3 DEF Goto, IInv, TypeOK
  <2>. QED
    BY <2>3, <2>4, <2>5 DEF TInv, TextOfStamp, TextSound, Readings
<1>17. ASSUME NEW j \in Jobs, Upsert(j) PROVE TInv'
  <2>. DEFINE f == item[j].file
  <2>1. f \in Files /\ pc[j] = "upsert"
    BY <1>17 DEF Upsert, Store, IInv, TypeOK, InHand, InLoop
  <2>2. /\ UNCHANGED disk
        /\ manifest' = [manifest EXCEPT ![f] = [hash |-> item[j].hash, stamp |-> item[j].stamp]]
        /\ row' = [row EXCEPT ![f] = [text |-> item[j].text, hash |-> item[j].hash]]
        /\ Return(j, IF mode[j] = "full" THEN {} ELSE {f})
    BY <1>17 DEF Upsert, Store, tree
  <2>3. TextOfStamp'
    BY <1>5, <2>2 DEF TInv, TextOfStamp, Readings
  <2>4. \A g \in Files :
            /\ row'[g] = IF g = f THEN [text |-> item[j].text, hash |-> item[j].hash] ELSE row[g]
            /\ manifest'[g] = IF g = f THEN [hash |-> item[j].hash, stamp |-> item[j].stamp] ELSE manifest[g]
    BY <2>1, <2>2 DEF IInv, TypeOK
  <2>5. disk[f] # None /\ disk[f].stamp = item[j].stamp => item[j].text \in Readings(f)
    BY <2>1 DEF TInv, TextOfStamp
  <2>6. ASSUME NEW g \in Files, disk[g] # None, manifest'[g] # None,
               manifest'[g].stamp = disk[g].stamp
        PROVE  row'[g].text \in Readings(g)
    <3>1. CASE g = f
      BY <2>4, <2>5, <2>6, <3>1
    <3>2. CASE g # f
      BY <2>4, <2>6, <3>2 DEF TInv, TextSound
    <3>. QED
      BY <3>1, <3>2
  <2>. QED
    BY <2>2, <2>3, <2>6 DEF TInv, TextSound, Readings
<1>18. ASSUME NEW j \in Jobs, Fails(j) PROVE TInv'
  BY <1>2, <1>5, <1>6, <1>18 DEF Fails, tree, tables
<1>. QED
  BY <1>1, <1>3, <1>7, <1>8, <1>9, <1>10, <1>11, <1>12, <1>13, <1>14, <1>15, <1>16, <1>17, <1>18
  DEF Next, Owner, Step

(* The early return of _upsert_file_from_scan on an equal (size, mtime)    *)
(* never skips a file whose content differs from the hash on record, nor   *)
(* one whose stored text is that of another version; it does skip one      *)
(* whose text could not be read.                                           *)
THEOREM ShortcutNeverHidesAChange == Spec => []ShortcutSound
<1>1. Init => TInv
  BY DEF Init, TInv, TextOfStamp, TextSound
<1>2. IInv /\ TInv => ShortcutSound
  BY DEF IInv, HashSound, TInv, TextSound, Readings, ShortcutSound
<1>. QED
  BY <1>1, <1>2, StepKeepsTexts, Invariance, PTL DEF Spec

-----------------------------------------------------------------------------
(* An undisturbed call.  Its progress is measured by what it owes: the files *)
(* it must leave current, less those still to be visited.                    *)
Owed(j) == IF mode[j] = "incremental" THEN Listed \cap OnDisk ELSE OnDisk

Settled(j, f) == /\ f \in passed \/ Current(f)
                 /\ mode[j] = "incremental" => f \in changed[j]

(* The two tables are written together. *)
Agree == \A f \in Files : manifest[f] # None =>
                             row[f] # None /\ row[f].hash = manifest[f].hash

Undisturbed(j) ==
    /\ Jobs \ {j} \subseteq Resting
    /\ pc[j] \in Statted => /\ disk[item[j].file] # None
                            /\ disk[item[j].file].stamp = item[j].stamp
    /\ (pc[j] = "hash" /\ item[j].known # None) =>
            /\ manifest[item[j].file] # None
            /\ manifest[item[j].file].hash = item[j].known
    /\ pc[j] \in InLoop \cup {"next", "done"} =>
            \A f \in Owed(j) \ todo[j] : Settled(j, f)
    /\ pc[j] = "done" => todo[j] = {}

(* Torn texts are on record, but for the one about to be replaced. *)
InFlight(j) == IF pc[j] = "upsert" THEN {item[j].file} ELSE {}

TornKnown(j) ==
    /\ \A f \in Files : Torn(f) => f \in torn \cup passed \cup InFlight(j)
    /\ pc[j] = "upsert" =>
            item[j].file \in torn \/ item[j].text = Text(item[j].file, item[j].hash)

QInv == Agree /\ \A j \in Jobs : quiet[j] => Undisturbed(j) /\ TornKnown(j)

\* The invariant of undisturbed calls holds initially.
LEMMA QuietInit == Init => QInv
BY DEF Init, QInv, Agree

\* Row and manifest entry of a file keep the same hash.
LEMMA AgreeStep == IInv /\ Agree /\ [Next]_vars => Agree'
<1>. SUFFICES ASSUME IInv, Agree, [Next]_vars PROVE Agree'
  OBVIOUS
<1>1. ASSUME NEW j \in Jobs, Upsert(j) PROVE Agree'
  <2>. DEFINE f == item[j].file
  <2>1. f \in Files /\ item[j].hash \in Contents /\ item[j].text \in Contents \cup {None}
    BY <1>1 DEF Upsert, Store, IInv, TypeOK, ItemType, InHand, InLoop, Hashed
  <2>2. [text |-> item[j].text, hash |-> item[j].hash] # None
    BY <2>1, RepoSyncAssumption
  <2>. QED
    BY <1>1, <2>1, <2>2 DEF Upsert, Store, Agree, IInv, TypeOK
<1>2. CASE UNCHANGED <<manifest, row>>
  BY <1>2 DEF Agree
<1>3. UNCHANGED <<manifest, row>> \/ \E j \in Jobs : Upsert(j)
  BY DEF Next, Owner, Step, Write, Delete, Edit, Commit, BeginFull, BeginIncremental,
     BeginChanges, Begin, Select, Size, Stat, Compare, Hash, Read, Fails, Finish, Crash, vars,
     tables
<1>. QED
  BY <1>1, <1>2, <1>3

(* The job leaves the file in hand, which it does not owe or has settled. *)
LEMMA QuietReturn ==
    ASSUME IInv, TypeOK', NEW j \in Jobs, Undisturbed(j), pc[j] \in InLoop,
           UNCHANGED <<disk, head, mode>>, passed \subseteq passed',
           NEW r, Return(j, r), NEW g \in Files, g = item[j].file,
           \A f \in Files : Current(f) => Current(f)',
           g \in Owed(j) => g \in passed' \/ Current(g)',
           (g \in Owed(j) /\ mode[j] = "incremental") => g \in r
    PROVE  Undisturbed(j)'
<1>1. /\ pc' = [pc EXCEPT ![j] = "next"]
      /\ todo'[j] = todo[j] \ {g}
      /\ changed'[j] = changed[j] \cup r
  BY DEF Return, IInv, TypeOK
<1>2. pc'[j] = "next" /\ Jobs \ {j} \subseteq Resting'
  BY <1>1 DEF Undisturbed, Resting, IInv, TypeOK
<1>3. Owed(j)' = Owed(j) /\ Owed(j) \subseteq Files
  BY DEF Owed, OnDisk, Listed
<1>4. ASSUME NEW f \in Owed(j) \ todo'[j] PROVE Settled(j, f)'
  <2>1. CASE f = g
    <3>1. /\ g \in passed' \/ Current(g)'
          /\ mode[j] = "incremental" => g \in r
      BY <2>1
    <3>. QED
      BY <1>1, <2>1, <3>1 DEF Settled
  <2>2. CASE f \notin todo[j]
    <3>1. Settled(j, f)
      BY <2>2 DEF Undisturbed
    <3>2. f \in passed' \/ Current(f)'
      BY <1>3, <3>1 DEF Settled
    <3>. QED
      BY <1>1, <3>1, <3>2 DEF Settled
  <2>. QED
    BY <1>1, <2>1, <2>2
<1>. QED
  BY <1>2, <1>3, <1>4 DEF Undisturbed, Statted

(* The job moves on with the file in hand. *)
LEMMA QuietMove ==
    ASSUME IInv, TypeOK', NEW j \in Jobs, Undisturbed(j), pc[j] \in InLoop \cup {"next"},
           UNCHANGED <<disk, head, manifest, row, mode, passed>>,
           NEW l \in InLoop, NEW it \in ItemType, Goto(j, l, it),
           l \in Statted => disk[it.file] # None /\ disk[it.file].stamp = it.stamp,
           (l = "hash" /\ it.known # None) =>
                manifest[it.file] # None /\ manifest[it.file].hash = it.known
    PROVE  Undisturbed(j)'
<1>1. /\ pc' = [pc EXCEPT ![j] = l] /\ pc'[j] = l /\ item'[j] = it
      /\ todo' = todo /\ changed' = changed
  BY DEF Goto, IInv, TypeOK
<1>2. Jobs \ {j} \subseteq Resting'
  BY <1>1 DEF Undisturbed, Resting, IInv, TypeOK
<1>3. Owed(j)' = Owed(j) /\ \A f : Settled(j, f)' = Settled(j, f)
  BY <1>1 DEF Owed, OnDisk, Listed, Settled, Current
<1>. QED
  BY <1>1, <1>2, <1>3 DEF Undisturbed, InLoop, Statted

\* Every step keeps the invariant of undisturbed calls.
LEMMA QuietStep ==
    ASSUME IInv, QInv, [Next]_vars, TypeOK', NEW j \in Jobs, quiet'[j]
    PROVE  Undisturbed(j)'
<1>. USE RepoSyncAssumption
<1>0. TypeOK
  BY DEF IInv
<1>1. ASSUME NEW m \in Modes, NEW k \in Jobs, NEW fs, Begin(k, m, fs),
             fs = IF m = "incremental" THEN Listed ELSE OnDisk
      PROVE  Undisturbed(j)'
  <2>1. k = j /\ Jobs \ {j} \subseteq Resting /\ pc' = [pc EXCEPT ![j] = "next"]
    BY <1>1 DEF Begin
  <2>2. mode'[j] = m /\ todo'[j] = fs /\ UNCHANGED <<disk, head>>
    BY <1>0, <1>1, <2>1 DEF Begin, tree, TypeOK
  <2>3. pc'[j] = "next" /\ Jobs \ {j} \subseteq Resting'
    BY <1>0, <2>1 DEF Resting, TypeOK
  <2>4. Owed(j)' \subseteq todo'[j]
    BY <1>1, <2>2 DEF Owed, Listed, OnDisk
  <2>. QED
    BY <2>3, <2>4 DEF Undisturbed, Statted
<1>2. ASSUME NEW k \in Jobs, BeginFull(k) \/ BeginIncremental(k) \/ BeginChanges(k)
      PROVE  Undisturbed(j)'
  BY <1>1, <1>2 DEF BeginFull, BeginIncremental, BeginChanges, Modes
<1>3. ASSUME Owner \/ Crash \/ (\E k \in Jobs : Abort(k)) PROVE FALSE
  BY <1>3 DEF Owner, Write, Delete, Edit, Commit, Crash, Abort, Disturb
<1>4. ASSUME UNCHANGED quiet PROVE quiet[j] /\ Undisturbed(j)
  BY <1>4 DEF QInv
<1>5. ASSUME NEW k \in Jobs, UNCHANGED quiet, pc[k] \in InLoop \cup {"next"}
      PROVE  k = j
  BY <1>4, <1>5 DEF Undisturbed, Resting, InLoop
<1>6. ASSUME UNCHANGED <<disk, manifest, row>>
      PROVE  \A f \in Files : Current(f) => Current(f)'
  BY <1>6 DEF Current
<1>7. ASSUME NEW k \in Jobs, NEW f \in Files, Select(k, f) PROVE Undisturbed(j)'
  <2>1. /\ UNCHANGED <<disk, head, manifest, row, mode, quiet, passed>>
        /\ pc[j] = "next" /\ k = j
    BY <1>5, <1>7 DEF Select, tree, tables, past
  <2>2. CASE mode[j] = "incremental" /\ disk[f] = None
    <3>1. /\ todo'[j] = todo[j] \ {f}
          /\ UNCHANGED <<pc, item, changed>>
      BY <1>0, <1>7, <2>1, <2>2 DEF Select, TypeOK
    <3>2. Owed(j)' = Owed(j) /\ f \notin Owed(j) /\ Resting' = Resting
      BY <2>1, <2>2, <3>1 DEF Owed, OnDisk, Listed, Resting
    <3>3. \A g : Settled(j, g)' = Settled(j, g)
      BY <2>1, <3>1 DEF Settled, Current
    <3>. QED
      BY <1>4, <2>1, <3>1, <3>2, <3>3 DEF Undisturbed, Statted
  <2>3. CASE \E l \in {"stat", "size"} : Goto(j, l, Item(f))
    <3>1. Item(f) \in ItemType
      BY DEF Item, ItemType
    <3>. QED
      BY <1>4, <2>1, <2>3, <3>1, QuietMove DEF InLoop, Statted
  <2>. QED
    BY <1>7, <2>1, <2>2, <2>3 DEF Select
<1>8. ASSUME NEW k \in Jobs, Fails(k) PROVE Undisturbed(j)'
  <2>1. /\ pc[k] \in Looks /\ Return(k, Visited(k)) /\ UNCHANGED quiet
        /\ passed' = IF quiet[k] THEN passed \cup {item[k].file} ELSE {}
    BY <1>3, <1>8 DEF Fails
  <2>2. k = j /\ pc[j] \in InLoop /\ UNCHANGED <<disk, head, manifest, row, mode>>
    BY <1>5, <1>8, <2>1 DEF Fails, Looks, InLoop, tree, tables
  <2>3. quiet[j] /\ item[j].file \in Files
    BY <1>0, <1>4, <2>1, <2>2 DEF IInv, InHand, TypeOK
  <2>4. mode[j] = "incremental" => item[j].file \in Visited(j)
    BY DEF Visited
  <2>. QED
    BY <1>4, <1>6, <2>1, <2>2, <2>3, <2>4, QuietReturn
<1>9. ASSUME NEW k \in Jobs, Size(k) PROVE Undisturbed(j)'
  <2>1. /\ UNCHANGED <<disk, head, manifest, row, mode, quiet, passed>>
        /\ pc[j] \in InLoop /\ k = j
    BY <1>5, <1>9 DEF Size, tree, tables, past, InLoop
  <2>2. Goto(j, "stat", item[j])
    BY <1>9, <2>1 DEF Size
  <2>. QED
    BY <1>0, <1>4, <2>1, <2>2, QuietMove DEF InLoop, Statted, TypeOK
<1>10. ASSUME NEW k \in Jobs, Stat(k) PROVE Undisturbed(j)'
  <2>. DEFINE f == item[j].file
              next == [item[j] EXCEPT !.stamp = disk[f].stamp]
  <2>1. /\ UNCHANGED <<disk, head, manifest, row, mode, quiet, passed>>
        /\ pc[j] \in InLoop /\ k = j
    BY <1>5, <1>10 DEF Stat, tree, tables, past, InLoop
  <2>2. item[j] \in ItemType /\ f \in Files
    BY <1>0, <2>1 DEF IInv, InHand, TypeOK
  <2>3. disk[f] # None /\ disk[f].stamp \in 0..MaxEdits
    BY <1>0, <1>10, <2>1, <2>2 DEF Stat, TypeOK
  <2>4. next \in ItemType /\ next.file = f /\ next.stamp = disk[f].stamp
    BY <2>2, <2>3 DEF ItemType
  <2>5. Goto(j, "compare", next)
    BY <1>10, <2>1 DEF Stat
  <2>. HIDE DEF next
  <2>. QED
    BY <1>4, <2>1, <2>3, <2>4, <2>5, QuietMove DEF InLoop, Statted
<1>11. ASSUME NEW k \in Jobs, Compare(k) PROVE Undisturbed(j)'
  <2>. DEFINE entry == manifest[item[j].file]
              h == IF entry = None THEN None ELSE entry.hash
              next == [item[j] EXCEPT !.known = h]
  <2>1. /\ UNCHANGED <<disk, head, manifest, row, mode, quiet, passed>>
        /\ pc[j] \in InLoop \cap Statted /\ k = j
    BY <1>5, <1>11 DEF Compare, tree, tables, past, InLoop, Statted
  <2>2. item[j] \in ItemType /\ item[j].file \in Files
    BY <1>0, <2>1 DEF IInv, InHand, TypeOK
  <2>. PICK f \in Files : f = item[j].file
    BY <2>2
  <2>3. disk[f] # None /\ disk[f].stamp = item[j].stamp
    BY <1>4, <2>1 DEF Undisturbed
  <2>4. CASE entry # None /\ entry.stamp = item[j].stamp
    <3>1. Current(f)
      BY <2>2, <2>3, <2>4 DEF Current, IInv, HashSound, QInv, Agree
    <3>2. Return(j, Visited(j))
      BY <1>11, <2>1, <2>4 DEF Compare
    <3>3. mode[j] = "incremental" => f \in Visited(j)
      BY DEF Visited
    <3>4. Current(f)'
      BY <1>6, <2>1, <2>2, <3>1
    <3>. QED
      BY <1>4, <1>6, <2>1, <2>2, <3>2, <3>3, <3>4, QuietReturn
  <2>5. CASE ~(entry # None /\ entry.stamp = item[j].stamp)
    <3>1. h \in Contents \cup {None}
      BY <1>0, <2>2 DEF TypeOK
    <3>2. next \in ItemType /\ next.file = f /\ next.stamp = item[j].stamp /\ next.known = h
      BY <2>2, <3>1 DEF ItemType
    <3>3. Goto(j, "hash", next)
      BY <1>11, <2>1, <2>5 DEF Compare
    <3>. HIDE DEF next
    <3>. QED
      BY <1>4, <2>1, <2>3, <3>2, <3>3, QuietMove DEF InLoop, Statted
  <2>. QED
    BY <2>4, <2>5
<1>12. ASSUME NEW k \in Jobs, Hash(k) PROVE Undisturbed(j)'
  <2>. DEFINE next == [item[j] EXCEPT !.hash = disk[item[j].file].content]
  <2>1. /\ UNCHANGED <<disk, head, manifest, row, mode, quiet, passed>>
        /\ pc[j] \in InLoop \cap Statted /\ pc[j] = "hash" /\ k = j
    BY <1>5, <1>12 DEF Hash, tree, tables, past, InLoop, Statted
  <2>2. item[j] \in ItemType /\ item[j].file \in Files
    BY <1>0, <2>1 DEF IInv, InHand, TypeOK
  <2>. PICK f \in Files : f = item[j].file
    BY <2>2
  <2>3. disk[f] # None /\ disk[f].stamp = item[j].stamp /\ disk[f].content \in Contents
    BY <1>0, <1>4, <2>1, <2>2 DEF Undisturbed, TypeOK
  <2>4. CASE disk[f].content = item[j].known
    <3>1. manifest[f] # None /\ manifest[f].hash = disk[f].content
      BY <1>4, <2>1, <2>3, <2>4 DEF Undisturbed
    <3>2. Current(f)
      BY <2>2, <3>1 DEF Current, QInv, Agree
    <3>3. Return(j, Visited(j))
      BY <1>12, <2>1, <2>3, <2>4 DEF Hash
    <3>4. mode[j] = "incremental" => f \in Visited(j)
      BY DEF Visited
    <3>5. Current(f)'
      BY <1>6, <2>1, <2>2, <3>2
    <3>. QED
      BY <1>4, <1>6, <2>1, <2>2, <3>3, <3>4, <3>5, QuietReturn
  <2>5. CASE disk[f].content # item[j].known
    <3>1. next \in ItemType /\ next.file = f /\ next.stamp = item[j].stamp
      BY <2>2, <2>3 DEF ItemType
    <3>2. Goto(j, "read", next)
      BY <1>12, <2>1, <2>3, <2>5 DEF Hash
    <3>. HIDE DEF next
    <3>. QED
      BY <1>4, <2>1, <2>3, <3>1, <3>2, QuietMove DEF InLoop, Statted
  <2>. QED
    BY <2>4, <2>5
<1>13. ASSUME NEW k \in Jobs, Read(k) PROVE Undisturbed(j)'
  <2>. DEFINE f == item[j].file
  <2>1. /\ UNCHANGED <<disk, head, manifest, row, mode, quiet, passed>>
        /\ pc[j] \in InLoop \cap Statted /\ k = j
    BY <1>5, <1>13 DEF Read, tree, tables, past, InLoop, Statted
  <2>2. item[j] \in ItemType /\ f \in Files
    BY <1>0, <2>1 DEF IInv, InHand, TypeOK
  <2>3. disk[f] # None /\ disk[f].stamp = item[j].stamp /\ disk[f].content \in Contents
    BY <1>0, <1>4, <2>1, <2>2 DEF Undisturbed, TypeOK
  <2>. PICK text \in Contents \cup {None} : Goto(j, "upsert", [item[j] EXCEPT !.text = text])
    BY <1>13, <2>1, <2>2, <2>3 DEF Read, Readings, Text
  <2>. DEFINE next == [item[j] EXCEPT !.text = text]
  <2>4. next \in ItemType /\ next.file = f /\ next.stamp = item[j].stamp
    BY <2>2 DEF ItemType
  <2>5. Goto(j, "upsert", next)
    OBVIOUS
  <2>. HIDE DEF next
  <2>. QED
    BY <1>4, <2>1, <2>3, <2>4, <2>5, QuietMove DEF InLoop, Statted
<1>14. ASSUME NEW k \in Jobs, Upsert(k) PROVE Undisturbed(j)'
  <2>1. /\ UNCHANGED <<disk, head, mode, quiet, passed>>
        /\ pc[j] \in InLoop \cap Statted \cap Hashed /\ k = j
    BY <1>5, <1>14 DEF Upsert, Store, tree, past, InLoop, Statted, Hashed
  <2>. PICK f \in Files, h \in Contents, c \in Contents \cup {None}, s \in Nat :
            f = item[j].file /\ h = item[j].hash /\ c = item[j].text /\ s = item[j].stamp
    BY <1>0, <2>1 DEF IInv, InHand, TypeOK, ItemType
  <2>3. disk[f] # None /\ h = disk[f].content
    BY <1>4, <2>1 DEF Undisturbed, IInv, HashOfStamp
  <2>4. /\ row' = [row EXCEPT ![f] = [text |-> c, hash |-> h]]
        /\ manifest' = [manifest EXCEPT ![f] = [hash |-> h, stamp |-> s]]
        /\ Return(j, IF mode[j] = "full" THEN {} ELSE {f})
    BY <1>14, <2>1 DEF Upsert, Store
  <2>5. /\ [text |-> c, hash |-> h] # None
        /\ [hash |-> h, stamp |-> s] # None
    OBVIOUS
  <2>6. \A g \in Files :
            /\ row'[g] = IF g = f THEN [text |-> c, hash |-> h] ELSE row[g]
            /\ manifest'[g] = IF g = f THEN [hash |-> h, stamp |-> s] ELSE manifest[g]
    BY <1>0, <2>4 DEF TypeOK
  <2>7. Current(f)' /\ \A g \in Files : Current(g) => Current(g)'
    BY <2>1, <2>3, <2>5, <2>6 DEF Current
  <2>8. mode[j] = "incremental" => f \in (IF mode[j] = "full" THEN {} ELSE {f})
    OBVIOUS
  <2>. QED
    BY <1>4, <2>1, <2>4, <2>7, <2>8, QuietReturn
<1>15. ASSUME NEW k \in Jobs, Finish(k) PROVE Undisturbed(j)'
  <2>1. /\ UNCHANGED <<disk, head, manifest, row, mode, quiet, passed, todo, changed>>
        /\ pc[j] = "next" /\ k = j /\ todo[j] = {} /\ pc' = [pc EXCEPT ![j] = "done"]
    BY <1>5, <1>15 DEF Finish, Goto, tree, tables, past
  <2>2. pc'[j] = "done" /\ Jobs \ {j} \subseteq Resting'
    BY <1>0, <1>4, <2>1 DEF Undisturbed, Resting, TypeOK
  <2>3. Owed(j)' = Owed(j) /\ \A f : Settled(j, f)' = Settled(j, f)
    BY <2>1 DEF Owed, OnDisk, Listed, Settled, Current
  <2>. QED
    BY <1>4, <2>1, <2>2, <2>3 DEF Undisturbed, Statted
<1>16. CASE UNCHANGED vars
  <2>1. UNCHANGED <<disk, head, manifest, row, pc, mode, todo, item, changed, passed>>
    BY <1>16 DEF vars, tree, tables, past
  <2>2. Owed(j)' = Owed(j) /\ Resting' = Resting /\ \A f : Settled(j, f)' = Settled(j, f)
    BY <2>1 DEF Owed, OnDisk, Listed, Resting, Settled, Current
  <2>3. quiet[j]
    BY <1>16 DEF vars, past
  <2>. QED
    BY <2>1, <2>2, <2>3 DEF QInv, Undisturbed, Statted
<1>. QED
  BY <1>2, <1>3, <1>7, <1>8, <1>9, <1>10, <1>11, <1>12, <1>13, <1>14, <1>15, <1>16 DEF Next, Step

(* A step of another kind than Read, Upsert and Fails keeps the texts and  *)
(* what is known of them.                                                  *)
LEMMA TornStep ==
    ASSUME IInv, QInv, [Next]_vars, NEW j \in Jobs, quiet'[j]
    PROVE  TornKnown(j)'
<1>. USE RepoSyncAssumption
<1>0. TypeOK
  BY DEF IInv
<1>1. ASSUME UNCHANGED <<row, torn>>, passed \subseteq passed', quiet[j],
             pc'[j] = "upsert" => pc[j] = "upsert" /\ item'[j] = item[j],
             pc[j] = "upsert" => pc'[j] = "upsert" \/ item[j].file \in passed'
      PROVE  TornKnown(j)'
  BY <1>1 DEF QInv, TornKnown, InFlight, Torn
<1>2. ASSUME NEW k \in Jobs, NEW m, NEW fs, Begin(k, m, fs) PROVE TornKnown(j)'
  <2>1. /\ UNCHANGED row
        /\ torn' = {f \in Files : Torn(f)}
        /\ pc'[j] = "next"
    BY <1>0, <1>2 DEF Begin, tables, TypeOK
  <2>. QED
    BY <2>1 DEF TornKnown, Torn
<1>3. ASSUME Owner \/ Crash \/ (\E k \in Jobs : Abort(k)) PROVE FALSE
  BY <1>3 DEF Owner, Write, Delete, Edit, Commit, Crash, Abort, Disturb
<1>4. ASSUME NEW k \in Jobs, UNCHANGED quiet, pc[k] \in InLoop \cup {"next"}
      PROVE  k = j /\ quiet[j] /\ TornKnown(j)
  BY <1>4 DEF QInv, Undisturbed, Resting, InLoop
<1>5. ASSUME NEW k \in Jobs, NEW l \in Points \ {"upsert"}, NEW it, Goto(k, l, it),
             pc[k] # "upsert"
      PROVE  /\ pc'[j] = "upsert" => pc[j] = "upsert" /\ item'[j] = item[j]
             /\ pc[j] = "upsert" => pc'[j] = "upsert"
  BY <1>0, <1>5 DEF Goto, TypeOK
<1>6. ASSUME NEW k \in Jobs, NEW r, Return(k, r), pc[k] # "upsert"
      PROVE  /\ pc'[j] = "upsert" => pc[j] = "upsert" /\ item'[j] = item[j]
             /\ pc[j] = "upsert" => pc'[j] = "upsert"
  BY <1>0, <1>6 DEF Return, TypeOK
<1>7. ASSUME NEW k \in Jobs, NEW f \in Files, Select(k, f) PROVE TornKnown(j)'
  <2>1. /\ pc'[j] = "upsert" => pc[j] = "upsert" /\ item'[j] = item[j]
        /\ pc[j] = "upsert" => pc'[j] = "upsert"
    BY <1>5, <1>7 DEF Select, Points
  <2>2. UNCHANGED <<row, torn, passed, quiet>>
    BY <1>7 DEF Select, tables, past
  <2>. QED
    BY <1>1, <2>1, <2>2
<1>8. ASSUME NEW k \in Jobs, Size(k) \/ Stat(k) \/ Compare(k) \/ Hash(k) \/ Finish(k)
      PROVE  TornKnown(j)'
  <2>1. /\ UNCHANGED <<row, torn, passed, quiet>>
        /\ pc[k] # "upsert"
    BY <1>8 DEF Size, Stat, Compare, Hash, Finish, tables, past
  <2>2. \/ \E l \in Points \ {"upsert"} : \E it : Goto(k, l, it)
        \/ \E r : Return(k, r)
    BY <1>8 DEF Size, Stat, Compare, Hash, Finish, Points
  <2>. QED
    BY <1>1, <1>5, <1>6, <2>1, <2>2
<1>9. ASSUME NEW k \in Jobs, Read(k) PROVE TornKnown(j)'
  <2>1. /\ UNCHANGED <<row, passed, quiet>>
        /\ pc[j] = "read" /\ k = j /\ TornKnown(j) /\ quiet[j]
    BY <1>4, <1>9 DEF Read, tables, InLoop
  <2>2. item[j] \in ItemType /\ item[j].file \in Files
    BY <1>0, <2>1 DEF IInv, InHand, InLoop, TypeOK
  <2>. PICK text :
         /\ Goto(j, "upsert", [item[j] EXCEPT !.text = text])
         /\ torn' = IF text = Text(item[j].file, item[j].hash) THEN torn \ {item[j].file}
                    ELSE torn \cup {item[j].file}
    BY <1>9, <2>1 DEF Read
  <2>3. /\ pc'[j] = "upsert"
        /\ item'[j].file = item[j].file /\ item'[j].text = text
        /\ item'[j].hash = item[j].hash
    BY <1>0, <2>2 DEF Goto, TypeOK, ItemType
  <2>. QED
    BY <2>1, <2>3 DEF TornKnown, InFlight, Torn, Text
<1>10. ASSUME NEW k \in Jobs, Upsert(k) PROVE TornKnown(j)'
  <2>. DEFINE f == item[j].file
              new == [text |-> item[j].text, hash |-> item[j].hash]
  <2>1. /\ UNCHANGED <<torn, passed, quiet>>
        /\ pc[j] = "upsert" /\ k = j /\ TornKnown(j)
        /\ row' = [row EXCEPT ![f] = new]
        /\ pc'[j] = "next"
    BY <1>0, <1>4, <1>10 DEF Upsert, Store, Return, past, InLoop, TypeOK
  <2>2. \A g \in Files : row'[g] = IF g = f THEN new ELSE row[g]
    BY <1>0, <2>1 DEF TypeOK
  <2>3. new.text = item[j].text /\ new.hash = item[j].hash
    OBVIOUS
  <2>. HIDE DEF new
  <2>4. ASSUME NEW g \in Files, Torn(g)' PROVE g \in torn \cup passed
    <3>1. CASE g = f
      BY <2>1, <2>2, <2>3, <2>4, <3>1 DEF Torn, TornKnown, Text
    <3>2. CASE g # f
      <4>1. Torn(g)
        BY <2>2, <2>4, <3>2 DEF Torn, Text
      <4>. QED
        BY <2>1, <3>2, <4>1 DEF TornKnown, InFlight
    <3>. QED
      BY <3>1, <3>2
  <2>. QED
    BY <2>1, <2>4 DEF TornKnown
<1>11. ASSUME NEW k \in Jobs, Fails(k) PROVE TornKnown(j)'
  <2>1. /\ pc[k] \in Looks /\ Return(k, Visited(k)) /\ UNCHANGED <<quiet, row, torn>>
        /\ passed' = IF quiet[k] THEN passed \cup {item[k].file} ELSE {}
    BY <1>3, <1>11 DEF Fails, tables
  <2>2. k = j /\ quiet[j]
    BY <1>4, <2>1 DEF Looks, InLoop
  <2>3. pc'[j] = "next" /\ passed' = passed \cup {item[j].file}
    BY <1>0, <2>1, <2>2 DEF Return, TypeOK
  <2>. QED
    BY <1>1, <2>1, <2>2, <2>3
<1>12. CASE UNCHANGED vars
  BY <1>1, <1>12 DEF vars, tables, past
<1>13. ASSUME NEW k \in Jobs, BeginFull(k) \/ BeginIncremental(k) \/ BeginChanges(k)
       PROVE  TornKnown(j)'
  BY <1>2, <1>13 DEF BeginFull, BeginIncremental, BeginChanges
<1>. QED
  BY <1>3, <1>7, <1>8, <1>9, <1>10, <1>11, <1>12, <1>13 DEF Next, Step

\* The invariant of undisturbed calls holds always.
LEMMA QuietInvariance == Spec => []QInv
<1>1. IInv /\ QInv /\ [Next]_vars => QInv'
  <2>. SUFFICES ASSUME IInv, QInv, [Next]_vars PROVE QInv'
    OBVIOUS
  <2>1. Agree'
    BY AgreeStep DEF QInv
  <2>2. ASSUME NEW j \in Jobs, quiet'[j] PROVE Undisturbed(j)' /\ TornKnown(j)'
    BY <2>2, QuietStep, TornStep, TypeStep
  <2>. QED
    BY <2>1, <2>2 DEF QInv
<1>. QED
  BY <1>1, QuietInit, Invariance, PTL DEF Spec

(* sync_repository, left alone, leaves both hashes of every file on disk   *)
(* current, but for the files whose stat failed, and tears no text it      *)
(* could read, whatever state crashed, aborted and overlapping calls left  *)
(* the tables in.                                                          *)
THEOREM FullSyncIsCurrent == Spec => []QuietSyncCurrent
<1>1. QInv => QuietSyncCurrent
  <2>. SUFFICES ASSUME QInv, NEW j \in Jobs, quiet[j], pc[j] = "done",
                       mode[j] # "incremental", NEW f \in OnDisk \ passed
                PROVE  Current(f) /\ (f \notin torn => row[f].text = Text(f, disk[f].content))
    BY DEF QuietSyncCurrent
  <2>1. Current(f)
    BY DEF QInv, Undisturbed, Owed, Settled, InLoop
  <2>2. f \notin torn => ~Torn(f)
    BY DEF QInv, TornKnown, InFlight, OnDisk
  <2>. QED
    BY <2>1, <2>2 DEF Torn, Current
<1>. QED
  BY <1>1, QuietInvariance, PTL

(* sync_repository_incremental, left alone, leaves both hashes of every    *)
(* file that differs from HEAD current, unless its stat failed, and        *)
(* reports it.                                                             *)
THEOREM IncrementalSyncIsCurrent == Spec => []QuietIncrementalCurrent
<1>1. QInv => QuietIncrementalCurrent
  BY DEF QInv, QuietIncrementalCurrent, Undisturbed, Owed, Settled, InLoop
<1>. QED
  BY <1>1, QuietInvariance, PTL
=============================================================================
