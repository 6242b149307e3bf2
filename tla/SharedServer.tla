---------------------------- MODULE SharedServer ----------------------------
(***************************************************************************)
(* scripts/server/js/sse.cjs: the Node launchers of several IDEs share one *)
(* Python server.  They agree through two files, a lock file and a state   *)
(* file with a reference count, and through the port of the server.        *)
(*                                                                         *)
(* A client is one launcher process, which lives once; server[p] is the    *)
(* Python process that client p may spawn.  Synchronous code between two   *)
(* awaits is one step, except the spinning on the lock file, where stat    *)
(* and unlink are system calls that other processes come between.          *)
(***************************************************************************)
EXTENDS Naturals, FiniteSets

CONSTANTS
    Clients,     \* launcher processes
    NoClient     \* owner of no lock file

ASSUME SharedServerAssumption == IsFiniteSet(Clients) /\ NoClient \notin Clients

VARIABLES
    pc,          \* program point of each client
    lock,        \* who created the lock file
    lockOld,     \* the lock file's mtime is more than 10 s ago
    refs,        \* refCount of the state file, 0 without a file
    existing,    \* the refCount ensureServer has read
    server,      \* the Python process each client spawned
    troubles     \* history: "stale" lock broken; "server" failed, unheard, or
                 \* joined when it had been told to stop

sharedServerVars == <<pc, lock, lockOld, refs, existing, server, troubles>>

\* Between tryAcquireLock() and releaseLock(); "leaving" with one's own lock is
\* a client whom a signal took out of ensureServer.
Ensuring == {"held", "probe", "port", "await"}
Waiting  == {"acquire", "break", "leaving", "breakLeaving"}
Alive(p) == pc[p] \notin {"off", "gone"}
Holders  == {p \in Clients : pc[p] \in Ensuring \cup {"leave"}}
Attached == {p \in Clients : pc[p] = "attached"}
Up       == \E s \in Clients : server[s] = "up"

\* A server that was told to stop answers until uvicorn has closed the port.
Answering == \E s \in Clients : server[s] \in {"up", "stopping"}

SharedServerInit ==
    /\ pc = [p \in Clients |-> "off"]
    /\ lock = NoClient
    /\ lockOld = FALSE
    /\ refs = 0
    /\ existing = [p \in Clients |-> 0]
    /\ server = [p \in Clients |-> "none"]
    /\ troubles = {}

\* The snapshot is dead once its probe is over.
Goto(p, l) == /\ pc' = [pc EXCEPT ![p] = l]
              /\ existing' = [existing EXCEPT ![p] = IF l = "probe" THEN refs ELSE 0]

-----------------------------------------------------------------------------
(* tryAcquireLock, called by ensureServer and by terminate. *)
Launch(p) ==
    /\ pc[p] = "off"
    /\ Goto(p, "acquire")
    /\ UNCHANGED <<lock, lockOld, refs, server, troubles>>

\* Mutant: the file is opened without the exclusive flag.
AcquireAnyway(p) ==
    /\ \/ pc[p] = "acquire" /\ Goto(p, "held")
       \/ pc[p] = "leaving" /\ Goto(p, "leave")
    /\ lock' = p
    /\ lockOld' = FALSE
    /\ UNCHANGED <<refs, server, troubles>>

(* openSync(LOCK_PATH, "wx"). *)
Acquire(p) ==
    /\ lock = NoClient
    /\ \/ pc[p] = "acquire" /\ Goto(p, "held")
       \/ pc[p] = "leaving" /\ Goto(p, "leave")
    /\ lock' = p
    /\ lockOld' = FALSE
    /\ UNCHANGED <<refs, server, troubles>>

(* EEXIST, and statSync finds a file older than 10 s. *)
FindStale(p) ==
    /\ lock # NoClient /\ lockOld
    /\ \/ pc[p] = "acquire" /\ Goto(p, "break")
       \/ pc[p] = "leaving" /\ Goto(p, "breakLeaving")
    /\ UNCHANGED <<lock, lockOld, refs, server, troubles>>

\* Mutant: the stale file is not removed.
BreakNothing(p) ==
    /\ \/ pc[p] = "break" /\ Goto(p, "acquire")
       \/ pc[p] = "breakLeaving" /\ Goto(p, "leaving")
    /\ UNCHANGED <<lock, lockOld, refs, server, troubles>>

(* unlinkSync of whatever file is there by now. *)
Break(p) ==
    /\ \/ pc[p] = "break" /\ Goto(p, "acquire")
       \/ pc[p] = "breakLeaving" /\ Goto(p, "leaving")
    /\ lock' = NoClient
    /\ lockOld' = FALSE
    /\ troubles' = troubles \cup {"stale"}
    /\ UNCHANGED <<refs, server>>

(* "Lock timeout": the process exits with the state file as it is. *)
GiveUp(p) ==
    /\ pc[p] \in {"acquire", "leaving"}
    /\ lock # NoClient /\ ~lockOld
    /\ Goto(p, "gone")
    /\ UNCHANGED <<lock, lockOld, refs, server, troubles>>

\* releaseLock: unlinkSync, whoever created the file.
Release == lock' = NoClient /\ lockOld' = FALSE

-----------------------------------------------------------------------------
(* ensureServer. *)
ReadState(p) ==
    /\ pc[p] = "held"
    /\ Goto(p, IF refs = 0 THEN "port" ELSE "probe")
    /\ UNCHANGED <<lock, lockOld, refs, server, troubles>>

Join(p, count) ==
    /\ refs' = count
    /\ Goto(p, "attached")
    /\ Release
    /\ troubles' = IF Up THEN troubles ELSE troubles \cup {"server"}
    /\ UNCHANGED server

\* Mutant: the count is written as it was read.
JoinExistingUncounted(p) == pc[p] = "probe" /\ Answering /\ Join(p, existing[p])

(* The server of the state file answers: one more reference. *)
JoinExisting(p) == pc[p] = "probe" /\ Answering /\ Join(p, existing[p] + 1)

(* No state file, but a server on the port: a new state file. *)
JoinPort(p) == pc[p] = "port" /\ Answering /\ Join(p, 1)

(* The server is down or does not answer within the probe's timeouts. *)
Unheard == troubles' = IF Up THEN troubles \cup {"server"} ELSE troubles

ProbeFails(p) ==
    /\ pc[p] = "probe"
    /\ Goto(p, "port")
    /\ Unheard
    /\ UNCHANGED <<lock, lockOld, refs, server>>

Spawn(p) ==
    /\ pc[p] = "port"
    /\ Goto(p, "await")
    /\ server' = [server EXCEPT ![p] = "starting"]
    /\ refs' = 1
    /\ Unheard
    /\ UNCHANGED <<lock, lockOld>>

(* A server answers on the port, be it the spawned one or another. *)
Ready(p) == pc[p] = "await" /\ server[p] # "exited" /\ Answering /\ Join(p, refs)

(* The child has exited, or sixty probes were in vain: ensureServer throws *)
(* and the launcher exits; child and state file stay.                      *)
NotReady(p) ==
    /\ pc[p] = "await"
    /\ Goto(p, "gone")
    /\ Release
    /\ UNCHANGED <<refs, server, troubles>>

-----------------------------------------------------------------------------
(* terminate: the end of stdin or a signal, also amid ensureServer. *)
Terminate(p) ==
    /\ pc[p] \in {"attached", "probe", "port", "await"}
    /\ Goto(p, "leaving")
    /\ UNCHANGED <<lock, lockOld, refs, server, troubles>>

\* Mutant: the count is not kept above zero.
DecrementedFreely == refs - 1

Decremented == IF refs > 0 THEN refs - 1 ELSE 0

(* One reference less; the last one removes the file and signals its       *)
(* child, if it has one.  A child that serves shuts down at its leisure,   *)
(* and the lock is released before that.                                   *)
Leave(p) ==
    /\ pc[p] = "leave"
    /\ refs' = Decremented
    /\ server' = IF refs = 1 /\ server[p] \in {"starting", "up"}
                 THEN [server EXCEPT ![p] = IF @ = "up" THEN "stopping" ELSE "exited"]
                 ELSE server
    /\ Goto(p, "gone")
    /\ Release
    /\ UNCHANGED troubles

-----------------------------------------------------------------------------
(* The environment. *)
Kill(p) ==
    /\ Alive(p)
    /\ Goto(p, "gone")
    /\ UNCHANGED <<lock, lockOld, refs, server, troubles>>

LockAges ==
    /\ lock # NoClient /\ ~lockOld
    /\ lockOld' = TRUE
    /\ UNCHANGED <<pc, lock, refs, existing, server, troubles>>

(* The Python process binds the port, or exits when it is taken. *)
Bind(s) ==
    /\ server[s] = "starting"
    /\ server' = [server EXCEPT ![s] = IF Answering THEN "exited" ELSE "up"]
    /\ UNCHANGED <<pc, lock, lockOld, refs, existing, troubles>>

(* uvicorn closes the port, and the process ends.                          *)
Stopped(s) ==
    /\ server[s] = "stopping"
    /\ server' = [server EXCEPT ![s] = "exited"]
    /\ UNCHANGED <<pc, lock, lockOld, refs, existing, troubles>>

ServerFails(s) ==
    /\ server[s] \in {"starting", "up"}
    /\ server' = [server EXCEPT ![s] = "exited"]
    /\ troubles' = troubles \cup {"server"}
    /\ UNCHANGED <<pc, lock, lockOld, refs, existing>>

ClientStep(p) ==
    \/ Acquire(p) \/ FindStale(p) \/ Break(p) \/ GiveUp(p)
    \/ ReadState(p) \/ JoinExisting(p) \/ JoinPort(p) \/ ProbeFails(p)
    \/ Spawn(p) \/ Ready(p) \/ NotReady(p) \/ Leave(p)

SharedServerNext ==
    \/ \E p \in Clients : \/ Launch(p) \/ ClientStep(p) \/ Terminate(p)
                          \/ Kill(p) \/ Bind(p) \/ Stopped(p) \/ ServerFails(p)
    \/ LockAges

SharedServerFairness ==
    /\ \A p \in Clients : WF_sharedServerVars(ClientStep(p))
    /\ WF_sharedServerVars(LockAges)
SharedServerSpec ==
    SharedServerInit /\ [][SharedServerNext]_sharedServerVars /\ SharedServerFairness

-----------------------------------------------------------------------------
(* Type correctness. *)
SharedServerTypeOK ==
    /\ pc \in [Clients -> {"off", "attached", "leave", "gone"} \cup Ensuring \cup Waiting]
    /\ lock \in Clients \cup {NoClient}
    /\ lockOld \in BOOLEAN
    /\ refs \in Nat
    /\ existing \in [Clients -> Nat]
    /\ server \in [Clients -> {"none", "starting", "up", "stopping", "exited"}]
    /\ troubles \subseteq {"stale", "server"}

(* The lock file excludes: while no lock was broken as stale, no two       *)
(* launchers are between tryAcquireLock and releaseLock, and the file that *)
(* a launcher removes there is its own, whoever was killed and wherever.   *)
LockExcludes ==
    "stale" \notin troubles =>
        \A p \in Holders : lock = p

(* While no lock was broken, the server neither failed nor missed a probe, *)
(* and nobody joined one that the last user had told to stop, the count    *)
(* covers everyone attached, launchers killed or timed out included.       *)
CountCoversAttached ==
    (troubles = {} /\ Attached # {}) => Up /\ refs >= Cardinality(Attached)

\* The session as the attached launchers have it.
Session == INSTANCE ServerSession WITH
    Users <- Clients,
    NoServer <- NoClient,
    users <- Attached,
    host <- IF Up THEN CHOOSE s \in Clients : server[s] = "up" ELSE NoClient

(* Until a lock was broken, the server failed or missed a probe, or a      *)
(* launcher came in the moment in which a server told to stop still        *)
(* answers, the launchers keep a session: a launcher attaches to a server  *)
(* that answers, everyone keeps that one, and no launcher stops a server   *)
(* that others still use, however launchers are killed or interrupted by a *)
(* signal.                                                                 *)
ImplementsSession ==
    [][troubles' = {} => Session!Step]_sharedServerVars

(* A launcher that waits for the lock gets on or exits, also when the      *)
(* lock's owner was killed.                                                *)
LaunchersSettle ==
    \A p \in Clients : pc[p] \in Waiting ~> pc[p] \in {"attached", "gone"}
=============================================================================
