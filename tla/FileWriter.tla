----------------------------- MODULE FileWriter ------------------------------
(***************************************************************************)
(* filesystem/adapters/writer.py: DiskWriter._write_file with              *)
(* atomic_write, called by several threads and processes for one path.     *)
(*                                                                         *)
(* The content of a file is a pair, since a write reaches the disk in      *)
(* pieces: who wrote its first and who its second part.  The temporary     *)
(* file is named after the process, so its threads share it.               *)
(***************************************************************************)
CONSTANTS
    Writes,         \* calls of _write_file
    Creates,        \* ... of them with write_mode "create"
    Processes,      \* server and CLI processes
    NoWrite

ASSUME FileWriterAssumption == Creates \subseteq Writes /\ NoWrite \notin Writes

VARIABLES
    process,        \* the process of each call
    wpc,            \* program point of each call
    target,         \* content of the file, Missing without a file
    temp,           \* content of each process's temporary file
    open,           \* calls whose open file is the temporary file of their process
    loose           \* ... and calls whose open file has become the target

writerVars == <<process, wpc, target, temp, open, loose>>

Empty == <<NoWrite, NoWrite>>
Missing == <<>>
Whole(w) == <<w, w>>
Content == (Writes \cup {NoWrite}) \X (Writes \cup {NoWrite})

WriterInit ==
    /\ process \in [Writes -> Processes]
    /\ wpc = [w \in Writes |-> "idle"]
    /\ target = Missing
    /\ temp = [p \in Processes |-> Missing]
    /\ open = {}
    /\ loose = {}

WriterGoto(w, from, to) == wpc[w] = from /\ wpc' = [wpc EXCEPT ![w] = to]
TempOf(w) == temp[process[w]]

-----------------------------------------------------------------------------
(* The checks: in create mode an existing file is a 409. *)
CheckTarget(w) ==
    /\ WriterGoto(w, "idle", IF w \in Creates /\ target # Missing THEN "refused" ELSE "open")
    /\ UNCHANGED <<process, target, temp, open, loose>>

\* Mutant: the file itself is opened and truncated.
OpenTarget(w) ==
    /\ WriterGoto(w, "open", "first")
    /\ target' = Empty
    /\ loose' = loose \cup {w}
    /\ UNCHANGED <<process, temp, open>>

(* open(temp, "w"): created or truncated. *)
OpenTemp(w) ==
    /\ WriterGoto(w, "open", "first")
    /\ temp' = [temp EXCEPT ![process[w]] = Empty]
    /\ open' = open \cup {w}
    /\ UNCHANGED <<process, target, loose>>

(* A piece goes where the open file is by now. *)
Put(w, i) ==
    /\ temp' = IF w \in open THEN [temp EXCEPT ![process[w]] = [@ EXCEPT ![i] = w]] ELSE temp
    /\ target' = IF w \in loose THEN [target EXCEPT ![i] = w] ELSE target

WriteFirst(w) ==
    /\ WriterGoto(w, "first", "second")
    /\ Put(w, 1)
    /\ UNCHANGED <<process, open, loose>>

(* The last piece, and close. *)
WriteSecond(w) ==
    /\ WriterGoto(w, "second", "move")
    /\ Put(w, 2)
    /\ open' = open \ {w}
    /\ loose' = loose \ {w}
    /\ UNCHANGED process

Rename(w) ==
    /\ target' = TempOf(w)
    /\ temp' = [temp EXCEPT ![process[w]] = Missing]
    \* Whoever has the temporary file open goes on writing, into the target;
    \* those who had the old target open write into a file without a name.
    /\ LET movers == {x \in open : process[x] = process[w]}
       IN  open' = open \ movers /\ loose' = movers

\* Mutant: the file is moved before the last piece is flushed to it.
MoveUnflushed(w) ==
    /\ TempOf(w) # Missing
    /\ WriterGoto(w, "second", "replaced")
    /\ Rename(w)
    /\ UNCHANGED process

(* shutil.move: a rename onto the file.  A temporary file that another     *)
(* thread has moved is an error.                                           *)
Move(w) ==
    /\ TempOf(w) # Missing
    /\ WriterGoto(w, "move", "replaced")
    /\ Rename(w)
    /\ UNCHANGED process

(* chmod, stat and the answer. *)
ReturnWritten(w) ==
    /\ WriterGoto(w, "replaced", "ok")
    /\ UNCHANGED <<process, target, temp, open, loose>>

(* Any of these steps raises: the temporary file is removed, be it another *)
(* thread's; an error after the move is reported like one before it.       *)
WriteFails(w) ==
    /\ \/ WriterGoto(w, "open", "error") \/ WriterGoto(w, "first", "error")
       \/ WriterGoto(w, "second", "error") \/ WriterGoto(w, "move", "error")
    /\ temp' = [temp EXCEPT ![process[w]] = Missing]
    /\ open' = {x \in open : process[x] # process[w]}
    /\ loose' = loose \ {w}
    /\ UNCHANGED <<process, target>>

ReturnFails(w) ==
    /\ WriterGoto(w, "replaced", "error")
    /\ UNCHANGED <<process, target, temp, open, loose>>

(* A process is killed; its temporary file stays. *)
KillProcess(p) ==
    LET dead == {w \in Writes : process[w] = p /\ wpc[w] \in {"open", "first", "second", "move", "replaced"}}
    IN  /\ dead # {}
        /\ wpc' = [w \in Writes |-> IF w \in dead THEN "error" ELSE wpc[w]]
        /\ open' = open \ dead
        /\ loose' = loose \ dead
        /\ UNCHANGED <<process, target, temp>>

WriterNext ==
    \/ \E w \in Writes : \/ CheckTarget(w) \/ OpenTemp(w) \/ WriteFirst(w) \/ WriteSecond(w)
                         \/ Move(w) \/ ReturnWritten(w) \/ WriteFails(w) \/ ReturnFails(w)
    \/ \E p \in Processes : KillProcess(p)

WriterSpec == WriterInit /\ [][WriterNext]_writerVars

-----------------------------------------------------------------------------
(* Type correctness. *)
WriterTypeOK ==
    /\ process \in [Writes -> Processes]
    /\ wpc \in [Writes -> {"idle", "refused", "open", "first", "second", "move", "replaced", "ok", "error"}]
    /\ target \in Content \cup {Missing}
    /\ temp \in [Processes -> Content \cup {Missing}]
    /\ open \subseteq Writes
    /\ loose \subseteq Writes

\* No two calls of one process are for the same path.
ProcessesApart == \A w, x \in Writes : process[w] = process[x] => w = x

(* Writers in different processes never see or leave a torn file, however  *)
(* their steps mix, fail or end with a kill.                               *)
TargetIsWhole ==
    ProcessesApart => target \in {Missing} \cup {Whole(w) : w \in Writes}

\* A kill takes several calls at once; apart, it takes one.
File == INSTANCE AtomicFile WITH
    held <- IF target = Missing THEN NoWrite ELSE target[1],
    progress <- [w \in Writes |->
        IF wpc[w] \in {"open", "first", "second", "move"} THEN "begun"
        ELSE IF wpc[w] = "refused" THEN "idle" ELSE wpc[w]]

(* Among such writers an atomic write is one: each step is one of the      *)
(* abstract file, which changes by whole, running writes only.             *)
ImplementsAtomicFile ==
    [][ProcessesApart => File!Step]_writerVars
=============================================================================
