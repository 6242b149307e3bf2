--------------------------- MODULE TaskLifecycle ---------------------------
(***************************************************************************)
(* What TaskQueue promises to the holder of a task id, independently of    *)
(* its threads: the answers of status(id) over time.  A task is unknown    *)
(* until it is enqueued, then pending, then running, then done or failed;  *)
(* an answer never disappears, never goes back, and a task runs once.      *)
(***************************************************************************)
CONSTANT Tasks

VARIABLE view      \* view[t]: what status(t) answers

Unknown  == "unknown"
Terminal == {"done", "failed"}
Views    == {Unknown, "pending", "running"} \cup Terminal

Init == view = [t \in Tasks |-> Unknown]

Become(t, from, to) ==
    /\ view[t] = from
    /\ view' = [view EXCEPT ![t] = to]

Submit(t) == Become(t, Unknown, "pending")
Begin(t)  == Become(t, "pending", "running")
End(t)    == \E v \in Terminal : Become(t, "running", v)

Next == \E t \in Tasks : Submit(t) \/ Begin(t) \/ End(t)

Spec == Init /\ [][Next]_view
=============================================================================
