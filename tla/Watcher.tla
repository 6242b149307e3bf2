------------------------------- MODULE Watcher -------------------------------
(***************************************************************************)
(* filesystem/adapters/watcher.py: FilesystemWatcher and its handlers.     *)
(* The observer's thread collects events and rearms a timer; the timer's   *)
(* thread takes what was collected to the callback.  start() makes a new   *)
(* handler and a new observer, whatever became of the old ones.            *)
(***************************************************************************)
EXTENDS Naturals

CONSTANTS
    Watched,       \* files below the watched directory
    Handlers,      \* one for each start()
    MaxEdit        \* bound on the edits of a file

ASSUME WatcherAssumption == MaxEdit \in Nat

VARIABLES
    version,       \* version of each file
    unheard,       \* files of whose version no event told, no one listened, or
                   \* the callback failed
    quiet,         \* nobody edits any more
    observer,      \* "none", "live" or "stopped", for each handler
    inbox,         \* files with a modified or created event not yet handled
    changes,       \* _changes
    appended,      \* the observer's thread is between append and _debounce
    armed,         \* a timer runs
    taken,         \* files the timer's threads carry to the callback
    told           \* version of each file at its last callback

watcherVars == <<version, unheard, quiet, observer, inbox, changes, appended, armed, taken, told>>
watcherFiles == <<version, unheard, quiet>>

LiveHandlers == {h \in Handlers : observer[h] = "live"}

WatcherInit ==
    /\ version = [f \in Watched |-> 0]
    /\ unheard = {}
    /\ quiet = FALSE
    /\ observer = [h \in Handlers |-> "none"]
    /\ inbox = [h \in Handlers |-> {}]
    /\ changes = [h \in Handlers |-> {}]
    /\ appended = [h \in Handlers |-> FALSE]
    /\ armed = [h \in Handlers |-> FALSE]
    /\ taken = [h \in Handlers |-> {}]
    /\ told = [f \in Watched |-> 0]

-----------------------------------------------------------------------------
(* The environment.  A rename is a "moved" event, whose paths no callback  *)
(* gets: of a file that is saved by way of a temporary file nobody hears.  *)
EditInPlace(f) ==
    /\ ~quiet /\ version[f] < MaxEdit
    /\ version' = [version EXCEPT ![f] = @ + 1]
    /\ unheard' = IF LiveHandlers = {} THEN unheard \cup {f} ELSE unheard \ {f}
    /\ inbox' = [h \in Handlers |-> IF h \in LiveHandlers THEN inbox[h] \cup {f} ELSE inbox[h]]
    /\ UNCHANGED <<quiet, observer, changes, appended, armed, taken, told>>

RenameOnto(f) ==
    /\ ~quiet /\ version[f] < MaxEdit
    /\ version' = [version EXCEPT ![f] = @ + 1]
    /\ unheard' = unheard \cup {f}
    /\ UNCHANGED <<quiet, observer, inbox, changes, appended, armed, taken, told>>

EndEdits ==
    /\ ~quiet
    /\ quiet' = TRUE
    /\ UNCHANGED <<version, unheard, observer, inbox, changes, appended, armed, taken, told>>

-----------------------------------------------------------------------------
StartWatching(h) ==
    /\ observer[h] = "none"
    /\ observer' = [observer EXCEPT ![h] = "live"]
    /\ UNCHANGED <<watcherFiles, inbox, changes, appended, armed, taken, told>>

(* stop() waits for the observer's thread; its timer runs on. *)
StopWatching(h) ==
    /\ observer[h] = "live" /\ ~appended[h]
    /\ observer' = [observer EXCEPT ![h] = "stopped"]
    /\ inbox' = [inbox EXCEPT ![h] = {}]
    /\ unheard' = unheard \cup inbox[h]
    /\ UNCHANGED <<version, quiet, changes, appended, armed, taken, told>>

(* on_modified and on_created. *)
HandleEvent(h, f) ==
    /\ f \in inbox[h] /\ ~appended[h]
    /\ inbox' = [inbox EXCEPT ![h] = @ \ {f}]
    /\ changes' = [changes EXCEPT ![h] = @ \cup {f}]
    /\ appended' = [appended EXCEPT ![h] = TRUE]
    /\ UNCHANGED <<watcherFiles, observer, armed, taken, told>>

\* Mutant: no timer is started while a callback is on its way.
DebounceWhenIdle(h) ==
    /\ appended[h]
    /\ appended' = [appended EXCEPT ![h] = FALSE]
    /\ armed' = [armed EXCEPT ![h] = taken[h] = {}]
    /\ UNCHANGED <<watcherFiles, observer, inbox, changes, taken, told>>

(* _debounce: cancel the timer, start another. *)
Debounce(h) ==
    /\ appended[h]
    /\ appended' = [appended EXCEPT ![h] = FALSE]
    /\ armed' = [armed EXCEPT ![h] = TRUE]
    /\ UNCHANGED <<watcherFiles, observer, inbox, changes, taken, told>>

(* _flush takes the list ... *)
Flush(h) ==
    /\ armed[h]
    /\ armed' = [armed EXCEPT ![h] = FALSE]
    /\ taken' = [taken EXCEPT ![h] = @ \cup changes[h]]
    /\ changes' = [changes EXCEPT ![h] = {}]
    /\ UNCHANGED <<watcherFiles, observer, inbox, appended, told>>

\* Mutant: what was collected meanwhile is cleared with the list.
CallBackAndClear(h) ==
    /\ taken[h] # {}
    /\ told' = [f \in Watched |-> IF f \in taken[h] THEN version[f] ELSE told[f]]
    /\ taken' = [taken EXCEPT ![h] = {}]
    /\ changes' = [changes EXCEPT ![h] = {}]
    /\ UNCHANGED <<watcherFiles, observer, inbox, appended, armed>>

(* ... and calls back, without the lock and beside other timers' threads.  *)
CallBack(h) ==
    /\ taken[h] # {}
    /\ told' = [f \in Watched |-> IF f \in taken[h] THEN version[f] ELSE told[f]]
    /\ taken' = [taken EXCEPT ![h] = {}]
    /\ UNCHANGED <<watcherFiles, observer, inbox, changes, appended, armed>>

\* The files some thread other than the timers' of h has still to tell of.
OnTheirWay(h) ==
    UNION {inbox[g] \cup changes[g] \cup (IF g = h THEN {} ELSE taken[g]) : g \in Handlers}

(* The callback raises, which is logged: what it was given is lost.        *)
CallBackRaises(h) ==
    /\ taken[h] # {}
    /\ unheard' = unheard \cup (taken[h] \ OnTheirWay(h))
    /\ taken' = [taken EXCEPT ![h] = {}]
    /\ UNCHANGED <<version, quiet, observer, inbox, changes, appended, armed, told>>

CallBackOver(h) == CallBack(h) \/ CallBackRaises(h)

WatcherStep(h) ==
    (\E f \in Watched : HandleEvent(h, f)) \/ Debounce(h) \/ Flush(h) \/ CallBackOver(h)

WatcherNext ==
    \/ \E f \in Watched : EditInPlace(f) \/ RenameOnto(f)
    \/ EndEdits
    \/ \E h \in Handlers : StartWatching(h) \/ StopWatching(h) \/ WatcherStep(h)

WatcherFairness == \A h \in Handlers : /\ WF_watcherVars(\E f \in Watched : HandleEvent(h, f))
                                       /\ WF_watcherVars(Debounce(h))
                                       /\ WF_watcherVars(Flush(h))
                                       /\ WF_watcherVars(CallBackOver(h))
WatcherSpec == WatcherInit /\ [][WatcherNext]_watcherVars /\ WatcherFairness

-----------------------------------------------------------------------------
(* Type correctness. *)
WatcherTypeOK ==
    /\ version \in [Watched -> 0..MaxEdit]
    /\ unheard \subseteq Watched
    /\ quiet \in BOOLEAN
    /\ observer \in [Handlers -> {"none", "live", "stopped"}]
    /\ {inbox, changes, taken} \subseteq [Handlers -> SUBSET Watched]
    /\ {appended, armed} \subseteq [Handlers -> BOOLEAN]
    /\ told \in [Watched -> 0..MaxEdit]

(* What is collected reaches the callback: a timer runs, or the thread     *)
(* that collected it is about to start one.                                *)
CollectedIsTimed ==
    \A h \in Handlers : changes[h] # {} => armed[h] \/ appended[h]

(* A version that was not told is on its way to the callback, was never    *)
(* heard of or was lost in a callback that raised: no interleaving of      *)
(* events, timers and callbacks forgets one.                               *)
NothingForgotten ==
    \A f \in Watched : told[f] # version[f] =>
        f \in unheard \cup UNION {inbox[h] \cup changes[h] \cup taken[h] : h \in Handlers}

(* When the edits end, the callback gets every file in its last version,   *)
(* those never heard of, or lost in a callback that raised, excepted.      *)
LastEditsAreTold ==
    quiet ~> \A f \in Watched : told[f] = version[f] \/ f \in unheard
=============================================================================
