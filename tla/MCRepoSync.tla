----------------------------- MODULE MCRepoSync -----------------------------
(* Model-checking instance of RepoSync. *)
EXTENDS RepoSync, TLC

CONSTANTS f1, f2, c1, c2, j1, j2, none

OneFile  == {f1}
TwoFiles == {f1, f2}
TwoContents == {c1, c2}
OneJob   == {j1}
TwoJobs  == {j1, j2}

\* Files, contents and jobs are interchangeable.
Symmetry == Permutations(TwoFiles) \cup Permutations(TwoContents) \cup Permutations(TwoJobs)
=============================================================================
