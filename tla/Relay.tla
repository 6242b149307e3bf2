-------------------------------- MODULE Relay --------------------------------
(***************************************************************************)
(* relay/main.py and relay/storage.py, the server through which a device   *)
(* exposes its local HTTP server, and scripts/server/tunnel.py, the client *)
(* on the device: it registers a tunnel, polls it for requests, executes   *)
(* each in a task of its own and posts the answer.                         *)
(*                                                                         *)
(* The two ends of the repository do not meet: the relay wraps the id of a *)
(* tunnel in "data" and TunnelClient looks for it beside that, so that it  *)
(* polls a tunnel "" for ever.  Aware are the tunnels whose client finds   *)
(* the id, one that is otherwise TunnelClient; the other tunnels are those *)
(* of TunnelClient as it is, which nobody polls.                           *)
(*                                                                         *)
(* No handler of the server awaits anything, and each commits once: a      *)
(* handler is one step, and a restart of the server loses nothing.         *)
(***************************************************************************)
EXTENDS Naturals, FiniteSets

CONSTANTS
    Tunnels,      \* ids of tunnels
    Aware,        \* those whose client knows the id
    MaxRequest,   \* bound on the requests sent
    PollLimit,    \* parameter `limit` of the poll
    MaxCopies     \* bound on the tasks of one request in each stage

ASSUME RelayAssumption ==
    /\ Aware \subseteq Tunnels
    /\ {PollLimit, MaxCopies} \subseteq Nat \ {0}
    /\ MaxRequest \in Nat

\* Requests are numbered in the order of created_at.
Asked == 1..MaxRequest

VARIABLES
    tunnel,       \* "none", "live", "over": deleted or expired
    device,       \* the client's program: "none", "polling", "stopped"
    sentTo,       \* the tunnel of each request, {} until it is sent
    responded,    \* requests with a response and responded = 1
    results,      \* ... whose response is not a 502 of the client
    fetched,      \* tasks of each request that have still to execute it
    executed,     \* ... that have still to post what the local server said
    failed,       \* ... that have still to post a 502
    ran,          \* history: requests the local server executed
    refused       \* history: requests at which a task failed

relayAnswers == <<responded, results>>
relayTasks   == <<fetched, executed, failed>>
relayHistory == <<ran, refused>>
relayVars    == <<tunnel, device, sentTo, relayAnswers, relayTasks, relayHistory>>

SentTo(t) == {r \in Asked : sentTo[r] = {t}}
Unresponded(t) == SentTo(t) \ responded

RelayInit ==
    /\ tunnel = [t \in Tunnels |-> "none"]
    /\ device = [t \in Tunnels |-> "none"]
    /\ sentTo = [r \in Asked |-> {}]
    /\ responded = {}
    /\ results = {}
    /\ fetched = [r \in Asked |-> 0]
    /\ executed = [r \in Asked |-> 0]
    /\ failed = [r \in Asked |-> 0]
    /\ ran = {}
    /\ refused = {}

-----------------------------------------------------------------------------
(* tunnel_register. *)
RegisterTunnel(t) ==
    /\ tunnel[t] = "none"
    /\ tunnel' = [tunnel EXCEPT ![t] = "live"]
    /\ device' = [device EXCEPT ![t] = "polling"]
    /\ UNCHANGED <<sentTo, relayAnswers, relayTasks, relayHistory>>

(* DELETE, or expires_at is reached; cleanup_expired only notes the latter.*)
EndTunnel(t) ==
    /\ tunnel[t] = "live"
    /\ tunnel' = [tunnel EXCEPT ![t] = "over"]
    /\ UNCHANGED <<device, sentTo, relayAnswers, relayTasks, relayHistory>>

(* tunnel_send. *)
SendRequest(t) ==
    /\ tunnel[t] = "live"
    /\ \E r \in Asked :
          /\ \A q \in Asked : sentTo[q] = {} <=> q >= r
          /\ sentTo' = [sentTo EXCEPT ![r] = {t}]
    /\ UNCHANGED <<tunnel, device, relayAnswers, relayTasks, relayHistory>>

\* The oldest PollLimit requests without an answer, fetched before or not.
Batch(t) ==
    {r \in Unresponded(t) : Cardinality({q \in Unresponded(t) : q < r}) < PollLimit}

AddTasks(batch) ==
    [r \in Asked |-> IF r \in batch /\ fetched[r] < MaxCopies THEN fetched[r] + 1 ELSE fetched[r]]

\* Mutant: a request that was handed out is done with.
PollAndForget(t) ==
    /\ device[t] = "polling" /\ t \in Aware
    /\ tunnel[t] = "live"
    /\ fetched' = AddTasks(Batch(t))
    /\ responded' = responded \cup Batch(t)
    /\ UNCHANGED <<tunnel, device, sentTo, results, executed, failed, relayHistory>>

(* tunnel_poll, and a task for each request of the batch.  A request goes  *)
(* out with every poll until it is answered.                               *)
Poll(t) ==
    /\ device[t] = "polling" /\ t \in Aware
    /\ tunnel[t] = "live"
    /\ fetched' = AddTasks(Batch(t))
    /\ UNCHANGED <<tunnel, device, sentTo, relayAnswers, executed, failed, relayHistory>>

-----------------------------------------------------------------------------
\* Mutant: a task runs on after its answer.
ExecuteOn(r) ==
    /\ fetched[r] > 0
    /\ executed' = [executed EXCEPT ![r] = @ + 1]
    /\ ran' = ran \cup {r}
    /\ UNCHANGED <<tunnel, device, sentTo, relayAnswers, fetched, failed, refused>>

(* _handle_request asks the local server and gets its answer. *)
Execute(r) ==
    /\ fetched[r] > 0
    /\ executed[r] < MaxCopies
    /\ fetched' = [fetched EXCEPT ![r] = @ - 1]
    /\ executed' = [executed EXCEPT ![r] = @ + 1]
    /\ ran' = ran \cup {r}
    /\ UNCHANGED <<tunnel, device, sentTo, relayAnswers, failed, refused>>

(* The local server cannot be reached, or does not answer in time though   *)
(* it may have executed the request: the answer will be a 502.             *)
ExecuteFails(r) ==
    /\ fetched[r] > 0
    /\ failed[r] < MaxCopies
    /\ fetched' = [fetched EXCEPT ![r] = @ - 1]
    /\ failed' = [failed EXCEPT ![r] = @ + 1]
    /\ ran' \in {ran, ran \cup {r}}
    /\ refused' = refused \cup {r}
    /\ UNCHANGED <<tunnel, device, sentTo, relayAnswers, executed>>

\* A task posts what it has, and is over.
PostResult(r) ==
    /\ executed[r] > 0
    /\ executed' = [executed EXCEPT ![r] = @ - 1]
    /\ UNCHANGED <<tunnel, device, sentTo, fetched, failed, relayHistory>>

Post502(r) ==
    /\ failed[r] > 0
    /\ failed' = [failed EXCEPT ![r] = @ - 1]
    /\ UNCHANGED <<tunnel, device, sentTo, fetched, executed, relayHistory>>

(* tunnel_respond: the response replaces an earlier one, be it a 502 that  *)
(* replaces a result.                                                      *)
Respond(r) ==
    /\ \A t \in sentTo[r] : tunnel[t] = "live"
    /\ \/ PostResult(r) /\ results' = results \cup {r}
       \/ Post502(r) /\ results' = results \ {r}
    /\ responded' = responded \cup {r}

(* The answer is refused by a tunnel that is over, or lost on its way:     *)
(* _send_response drops every exception.                                   *)
LoseAnswer(r) == (PostResult(r) \/ Post502(r)) /\ UNCHANGED relayAnswers

(* The client is stopped or killed with all its tasks. *)
StopClient(t) ==
    LET Without(n) == [r \in Asked |-> IF r \in SentTo(t) THEN 0 ELSE n[r]]
    IN  /\ device[t] = "polling"
        /\ device' = [device EXCEPT ![t] = "stopped"]
        /\ fetched' = Without(fetched)
        /\ executed' = Without(executed)
        /\ failed' = Without(failed)
        /\ UNCHANGED <<tunnel, sentTo, relayAnswers, relayHistory>>

RelayNext ==
    \/ \E t \in Tunnels : \/ RegisterTunnel(t) \/ EndTunnel(t) \/ SendRequest(t)
                          \/ Poll(t) \/ StopClient(t)
    \/ \E r \in Asked : Execute(r) \/ ExecuteFails(r) \/ Respond(r) \/ LoseAnswer(r)

RelaySpec == RelayInit /\ [][RelayNext]_relayVars

-----------------------------------------------------------------------------
(* Type correctness. *)
RelayTypeOK ==
    /\ tunnel \in [Tunnels -> {"none", "live", "over"}]
    /\ device \in [Tunnels -> {"none", "polling", "stopped"}]
    /\ sentTo \in [Asked -> {{}} \cup {{t} : t \in Tunnels}]
    /\ {responded, results, ran, refused} \subseteq SUBSET Asked
    /\ {fetched, executed, failed} \subseteq [Asked -> 0..MaxCopies]

Promised == INSTANCE AtLeastOnce WITH
    Requests <- Asked, Receivers <- Tunnels, to <- sentTo, done <- ran, failed <- refused,
    answered <- responded

(* Polls that overlap answers, lost answers, failing local servers and     *)
(* killed clients do not show: a request goes to one tunnel, the local     *)
(* server has executed it before a result is stored as its answer, the     *)
(* client has failed at it before a 502 is, and what was answered stays so.*)
ImplementsAtLeastOnce == Promised!Spec
=============================================================================
