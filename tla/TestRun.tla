------------------------------- MODULE TestRun -------------------------------
(***************************************************************************)
(* What qa_status promises of a background test run to whoever polls for   *)
(* it: the answer goes from "pending" to "running" to its end and never    *)
(* back, the result comes with the end and stays, a run that broke down is *)
(* "failed", and the webhook hears the final answer, once.                 *)
(***************************************************************************)
CONSTANT Tasks

VARIABLES
    answer,      \* of each task: "none", "pending", "running", "completed", "failed"
    result,      \* "none", "value" or "error"
    heard        \* the answer the webhook got, or "none"

Init ==
    /\ answer = [t \in Tasks |-> "none"]
    /\ result = [t \in Tasks |-> "none"]
    /\ heard = [t \in Tasks |-> "none"]

Advance(t, from, to) == answer[t] = from /\ answer' = [answer EXCEPT ![t] = to]

Submit(t) == Advance(t, "none", "pending") /\ UNCHANGED <<result, heard>>
Begin(t) == Advance(t, "pending", "running") /\ UNCHANGED <<result, heard>>

Finish(t) ==
    /\ Advance(t, "running", "completed") \/ Advance(t, "running", "failed")
    /\ result' = [result EXCEPT ![t] = "value"]
    /\ UNCHANGED heard

Break(t) ==
    /\ Advance(t, "pending", "failed") \/ Advance(t, "running", "failed")
    /\ result' = [result EXCEPT ![t] = "error"]
    /\ UNCHANGED heard

Tell(t) ==
    /\ result[t] = "value" /\ heard[t] = "none"
    /\ heard' = [heard EXCEPT ![t] = answer[t]]
    /\ UNCHANGED <<answer, result>>

Next == \E t \in Tasks : Submit(t) \/ Begin(t) \/ Finish(t) \/ Break(t) \/ Tell(t)

Spec == Init /\ [][Next]_<<answer, result, heard>>

(* An answer that says how the run ended comes with a result, and no other *)
(* does; what the webhook heard is the answer.                             *)
AnswersAgree ==
    \A t \in Tasks :
        /\ answer[t] \in {"completed", "failed"} <=> result[t] # "none"
        /\ heard[t] # "none" => heard[t] = answer[t]
=============================================================================
