---------------------------- MODULE MCTaskQueue ----------------------------
(* Model-checking instance of TaskQueue. *)
EXTENDS TaskQueue, TLC

CONSTANTS t1, t2, w1, w2, w3, w4, c1, c2, none

TwoTasks   == {t1, t2}
OneTask    == {t1}
FourThreads == {w1, w2, w3, w4}
TwoControllers == {c1, c2}
NoTask == {}

\* Threads and controllers are interchangeable; so would the tasks be, did
\* Escaping not single out t1.
Symmetry == Permutations(FourThreads) \cup Permutations(TwoControllers)
=============================================================================
