----------------------------- MODULE AtLeastOnce -----------------------------
(***************************************************************************)
(* What the relay promises of a request: it is sent to one tunnel and      *)
(* stays there; the device behind that tunnel executes it, maybe several   *)
(* times, or fails to, maybe after it was executed; a result is answered   *)
(* only after an execution and a failure only after one; and what is       *)
(* answered stays so, though a later answer may replace an earlier one.    *)
(***************************************************************************)
CONSTANTS Requests, Receivers

VARIABLES
    to,          \* the receiver of each request, {} until it is sent
    done,        \* requests that were executed, once or more
    failed,      \* requests an attempt at which failed
    answered,    \* requests with an answer
    results      \* ... that is a result, not a failure

Init ==
    /\ to = [r \in Requests |-> {}]
    /\ done = {}
    /\ failed = {}
    /\ answered = {}
    /\ results = {}

Send(r) ==
    /\ to[r] = {}
    /\ \E t \in Receivers : to' = [to EXCEPT ![r] = {t}]
    /\ UNCHANGED <<done, failed, answered, results>>

Do(r) ==
    /\ to[r] # {}
    /\ done' = done \cup {r}
    /\ UNCHANGED <<to, failed, answered, results>>

Fail(r) ==
    /\ to[r] # {}
    /\ failed' = failed \cup {r}
    /\ done' \in {done, done \cup {r}}
    /\ UNCHANGED <<to, answered, results>>

Answer(r) ==
    /\ answered' = answered \cup {r}
    /\ \/ r \in done /\ results' = results \cup {r}
       \/ r \in failed /\ results' = results \ {r}
    /\ UNCHANGED <<to, done, failed>>

Next == \E r \in Requests : Send(r) \/ Do(r) \/ Fail(r) \/ Answer(r)

Spec == Init /\ [][Next]_<<to, done, failed, answered, results>>
=============================================================================
