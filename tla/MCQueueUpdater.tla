--------------------------- MODULE MCQueueUpdater ---------------------------
(***************************************************************************)
(* Model-checking instance of the task queue and of the updater under      *)
(* fairness, the two services of a server whose threads run for ever.      *)
(* They share no state: a behaviour is one of a single component, while    *)
(* the threads of the other have not started or are gone.                  *)
(***************************************************************************)
EXTENDS TaskQueue, Updater, TLC

CONSTANTS t1, t2, t3, w1, w2, w3, w4, c1, u1, u2, none

ThreeTasks    == {t1, t2, t3}
FourThreads   == {w1, w2, w3, w4}
OneController == {c1}
OneEscaping   == {t1}
TwoUpdaters   == {u1, u2}

VARIABLE part       \* the component that runs

liveVars == <<part, vars, updaterVars>>

LiveInit ==
    /\ Init /\ UpdaterInit
    /\ part \in {"queue", "updater"}
    /\ \A a \in Actors : upc[a] = IF part = "updater" THEN "idle" ELSE "dead"

\* The agent of the second server does not use the tool.
OneToolUser == upc'[Tool(u2)] \in {"idle", "dead"}

LiveNext ==
    \/ part = "queue"   /\ Next /\ UNCHANGED <<part, updaterVars>>
    \/ part = "updater" /\ UpdaterNext /\ OneToolUser /\ UNCHANGED <<part, vars>>

LiveSpec == LiveInit /\ [][LiveNext]_liveVars /\ Fairness /\ UpdaterFairness
=============================================================================
