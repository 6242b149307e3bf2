----------------------------- MODULE AtomicFile ------------------------------
(***************************************************************************)
(* What an atomic write promises: a file holds the whole content of one    *)
(* write, or nothing; every change of it is one write that has begun and   *)
(* has not ended, and a write that succeeds changed the file once.         *)
(***************************************************************************)
CONSTANTS Writes, NoWrite

VARIABLES
    held,        \* the write whose content the file holds, or NoWrite
    progress     \* of each write: "idle", "begun", "replaced", "ok", "error"

Init == held = NoWrite /\ progress = [w \in Writes |-> "idle"]

Advance(w, from, to) ==
    /\ progress[w] = from
    /\ progress' = [progress EXCEPT ![w] = to]

Begin(w) == Advance(w, "idle", "begun") /\ UNCHANGED held
Replace(w) == Advance(w, "begun", "replaced") /\ held' = w
Return(w) == Advance(w, "replaced", "ok") /\ UNCHANGED held
Fail(w) == (Advance(w, "begun", "error") \/ Advance(w, "replaced", "error")) /\ UNCHANGED held

Next == \E w \in Writes : Begin(w) \/ Replace(w) \/ Return(w) \/ Fail(w)

Step == Next \/ UNCHANGED <<held, progress>>

Spec == Init /\ [][Step]_<<held, progress>>
=============================================================================
