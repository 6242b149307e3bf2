------------------------------- MODULE Updater -------------------------------
(***************************************************************************)
(* core/update/updater.py: CodeCortexUpdater and its signal file.  Every   *)
(* orchestrator has an updater; its background thread checks for a release *)
(* for ever, while the tool `update` checks, downloads and applies, one    *)
(* call after the other.  The two share status and latest check without a  *)
(* lock; all updaters share the signal file, the git tree and the packages.*)
(***************************************************************************)
EXTENDS Naturals

CONSTANTS
    Updaters,       \* CodeCortexUpdater objects, each of another process
    MaxRelease      \* bound on the releases

ASSUME UpdaterAssumption == MaxRelease \in Nat

Actors == Updaters \X {"tool", "thread"}
Tool(u) == <<u, "tool">>
Thread(u) == <<u, "thread">>

VARIABLES
    released,       \* version of the latest release
    downloaded,     \* version git fetch has brought
    installed,      \* version of the tree, as .version says
    signal,         \* what the signal file says, and whether it is dismissed
    updateStatus,   \* _status of each updater
    offered,        \* whether _latest_check of each updater found a newer release
    upc,            \* program point of each actor
    seen,           \* of a check: local and latest version it has read
    copy            \* of a dismissal: what the signal it has read offers

updaterVars ==
    <<released, downloaded, installed, signal, updateStatus, offered, upc, seen, copy>>
trees == <<released, downloaded, installed>>

NoSignal == [available |-> FALSE, dismissed |-> TRUE]

UpdaterInit ==
    /\ released = 0 /\ downloaded = 0 /\ installed = 0
    /\ signal = NoSignal
    /\ updateStatus = [u \in Updaters |-> "idle"]
    /\ offered = [u \in Updaters |-> FALSE]
    /\ \E alive \in SUBSET Updaters :
            upc = [a \in Actors |-> IF a[1] \in alive THEN "idle" ELSE "dead"]
    /\ seen = [a \in Actors |-> <<0, 0>>]
    /\ copy = [u \in Updaters |-> FALSE]

-----------------------------------------------------------------------------
(* The environment: releases, and processes that end with all they know. *)
Publish ==
    /\ released < MaxRelease
    /\ released' = released + 1
    /\ UNCHANGED <<downloaded, installed, signal, updateStatus, offered, upc, seen, copy>>

ServerEnds(u) ==
    /\ upc[Tool(u)] # "dead"
    /\ upc' = [upc EXCEPT ![Tool(u)] = "dead", ![Thread(u)] = "dead"]
    /\ updateStatus' = [updateStatus EXCEPT ![u] = "idle"]
    /\ offered' = [offered EXCEPT ![u] = FALSE]
    /\ seen' = [seen EXCEPT ![Tool(u)] = <<0, 0>>, ![Thread(u)] = <<0, 0>>]
    /\ copy' = [copy EXCEPT ![u] = FALSE]
    /\ UNCHANGED <<trees, signal>>

Walk(a, from, to) == upc[a] = from /\ upc' = [upc EXCEPT ![a] = to]
Became(u, s) == updateStatus' = [updateStatus EXCEPT ![u] = s]

-----------------------------------------------------------------------------
(* check(), by the thread every hour and by the tool on demand. *)
BeginCheck(a) ==
    /\ Walk(a, "idle", "ask")
    /\ Became(a[1], "checking")
    /\ seen' = [seen EXCEPT ![a] = <<installed, 0>>]
    /\ UNCHANGED <<trees, signal, offered, copy>>

(* GitHub cannot be reached or answers with an error. *)
CheckFails(a) ==
    /\ Walk(a, "ask", "idle")
    /\ Became(a[1], "error")
    /\ offered' = [offered EXCEPT ![a[1]] = FALSE]
    /\ seen' = [seen EXCEPT ![a] = <<0, 0>>]
    /\ UNCHANGED <<trees, signal, copy>>

\* What the check of a found: whether the release is newer than the tree was.
Offer(a) == seen[a][2] > seen[a][1]

CheckAnswers(a) ==
    /\ Walk(a, "ask", "signal")
    /\ seen' = [seen EXCEPT ![a] = <<@[1], released>>]
    /\ offered' = [offered EXCEPT ![a[1]] = Offer(a)']
    /\ Became(a[1], IF Offer(a)' THEN "update_available" ELSE "up_to_date")
    /\ UNCHANGED <<trees, signal, copy>>

\* Mutant: a signal that was dismissed is left alone.
WriteUndismissed(a) ==
    /\ Walk(a, "signal", "idle")
    /\ signal' = IF signal.dismissed THEN signal ELSE [available |-> Offer(a), dismissed |-> FALSE]
    /\ seen' = [seen EXCEPT ![a] = <<0, 0>>]
    /\ UNCHANGED <<trees, updateStatus, offered, copy>>

(* _write_signal, whose dismissed is FALSE again. *)
WriteSignal(a) ==
    /\ Walk(a, "signal", "idle")
    /\ signal' = [available |-> Offer(a), dismissed |-> FALSE]
    /\ seen' = [seen EXCEPT ![a] = <<0, 0>>]
    /\ UNCHANGED <<trees, updateStatus, offered, copy>>

(* The file cannot be written: the check raises, the status stays. *)
WriteSignalFails(a) ==
    /\ Walk(a, "signal", "idle")
    /\ seen' = [seen EXCEPT ![a] = <<0, 0>>]
    /\ UNCHANGED <<trees, signal, updateStatus, offered, copy>>

-----------------------------------------------------------------------------
(* download(): refused without a check that found a release. *)
Download(u) ==
    /\ offered[u]
    /\ Walk(Tool(u), "idle", "fetch")
    /\ Became(u, "downloading")
    /\ UNCHANGED <<trees, signal, offered, seen, copy>>

FetchOK(u) ==
    /\ Walk(Tool(u), "fetch", "idle")
    /\ downloaded' = released
    /\ Became(u, "update_available")
    /\ UNCHANGED <<released, installed, signal, offered, seen, copy>>

\* Mutant: a timeout returns without a new status.
FetchTimesOut(u) ==
    /\ Walk(Tool(u), "fetch", "idle")
    /\ downloaded' \in {downloaded, released}
    /\ UNCHANGED <<released, installed, signal, updateStatus, offered, seen, copy>>

(* git fetch fails or times out, or the count of commits behind does.      *)
FetchFails(u) ==
    /\ Walk(Tool(u), "fetch", "idle")
    /\ downloaded' \in {downloaded, released}
    /\ Became(u, "error")
    /\ UNCHANGED <<released, installed, signal, offered, seen, copy>>

(* apply(): refused in any other updateStatus, be it one that the thread's check *)
(* has just set. *)
Apply(u) ==
    /\ updateStatus[u] \in {"downloading", "update_available"}
    /\ Walk(Tool(u), "idle", "merge")
    /\ Became(u, "applying")
    /\ UNCHANGED <<trees, signal, offered, seen, copy>>

(* git merge --ff-only of what was fetched, be it nothing new.  Whether git *)
(* knows the name it is given, a URL and a branch, is left open here.      *)
MergeOK(u) ==
    /\ Walk(Tool(u), "merge", "sync")
    /\ installed' = downloaded
    /\ UNCHANGED <<released, downloaded, signal, updateStatus, offered, seen, copy>>

(* uv sync, and the signal is read to be dismissed. *)
SyncOK(u) ==
    /\ Walk(Tool(u), "sync", "dismiss")
    /\ Became(u, "up_to_date")
    /\ copy' = [copy EXCEPT ![u] = signal.available]
    /\ UNCHANGED <<released, downloaded, installed, signal, offered, seen>>

(* The merge or uv sync fails; what was merged stays. *)
ApplyFails(u) ==
    /\ Walk(Tool(u), "merge", "idle") \/ Walk(Tool(u), "sync", "idle")
    /\ Became(u, "error")
    /\ UNCHANGED <<trees, signal, offered, seen, copy>>

(* The action "dismiss" of the tool reads the signal as apply() does. *)
CallDismiss(u) ==
    /\ Walk(Tool(u), "idle", "dismiss")
    /\ copy' = [copy EXCEPT ![u] = signal.available]
    /\ UNCHANGED <<trees, signal, updateStatus, offered, seen>>

(* dismiss(): what was read is written back. *)
Dismiss(u) ==
    /\ Walk(Tool(u), "dismiss", "idle")
    /\ signal' = [available |-> copy[u], dismissed |-> TRUE]
    /\ copy' = [copy EXCEPT ![u] = FALSE]
    /\ UNCHANGED <<trees, updateStatus, offered, seen>>

-----------------------------------------------------------------------------
CheckStep(a) ==
    BeginCheck(a) \/ CheckFails(a) \/ CheckAnswers(a) \/ WriteSignal(a) \/ WriteSignalFails(a)

UpdaterNext ==
    \/ Publish
    \/ \E a \in Actors : CheckStep(a)
    \/ \E u \in Updaters : \/ Download(u) \/ FetchOK(u) \/ FetchFails(u)
                           \/ Apply(u) \/ MergeOK(u) \/ SyncOK(u) \/ ApplyFails(u)
                           \/ CallDismiss(u) \/ Dismiss(u) \/ ServerEnds(u)

\* The thread checks for ever; GitHub is not always down, the disk not always full.
UpdaterFairness ==
    \A u \in Updaters : /\ WF_updaterVars(CheckStep(Thread(u)))
                        /\ SF_updaterVars(CheckAnswers(Thread(u)))
                        /\ SF_updaterVars(WriteSignal(Thread(u)))
UpdaterSpec == UpdaterInit /\ [][UpdaterNext]_updaterVars /\ UpdaterFairness

-----------------------------------------------------------------------------
UpdaterTypeOK ==
    LET version == 0..MaxRelease
    IN  /\ {released, downloaded, installed} \subseteq version
        /\ signal \in [available : BOOLEAN, dismissed : BOOLEAN]
        /\ updateStatus \in [Updaters -> {"idle", "checking", "update_available", "up_to_date",
                                          "error", "downloading", "applying"}]
        /\ offered \in [Updaters -> BOOLEAN]
        /\ upc \in [Actors -> {"idle", "ask", "signal", "fetch", "merge", "sync", "dismiss", "dead"}]
        /\ seen \in [Actors -> version \X version]
        /\ copy \in [Updaters -> BOOLEAN]

(* The status two actors write without a lock is one of the seven and never *)
(* stays at a stage: when neither is at work, it says how something ended, *)
(* whichever of a check, a download and an apply wrote it last.            *)
StatusSettles ==
    /\ UpdaterTypeOK
    /\ \A u \in Updaters :
           {upc[Tool(u)], upc[Thread(u)]} \subseteq {"idle", "signal", "dismiss"}
               => updateStatus[u] \notin {"checking", "downloading", "applying"}

(* A signal written from what an apply has overtaken does not stay, nor one *)
(* that a dismissal has written back over a newer one: once dismissals end, *)
(* while some server runs, the file comes to say whether the release is    *)
(* newer than the tree, and goes on saying it.                             *)
SignalCatchesUp ==
    [](\E u \in Updaters : upc[Thread(u)] # "dead")
        /\ <>[](\A u \in Updaters : upc[Tool(u)] # "dismiss")
        => <>[](signal.available = (released > installed))
=============================================================================
