----------------------------- MODULE MCCodeIndex -----------------------------
(* Model-checking instance of CodeIndex. *)
EXTENDS CodeIndex, TLC

CONSTANTS f1, f2, j1, j2, none, caller, callee, bad

TwoFiles   == {f1, f2}
OneJob     == {j1}
TwoJobs    == {j1, j2}
NoFile     == {}

PoolPath == {"pool"}
AllPaths == {"pool", "repository", "files"}

\* "caller" calls what it and "callee" define.
ThreeVersions == {caller, callee, bad}
TwoVersions   == {caller, callee}
BadVersions   == {bad}
FunctionNames == {"run", "help"}
DefinesOf == [v \in Versions |-> IF v = callee THEN {"help"} ELSE {"run"}]
CallsOf   == [v \in Versions |-> IF v = caller THEN {"run", "help"} ELSE {}]

\* Both files have a parser, or the path that uses the AstCache is taken too and
\* one file, stored up to twice, has one.
CachedOrParsed ==
    \/ legacy = {} /\ \A j \in Jobs : mode[j] # "repository"
    \/ Cardinality(legacy) = 1 /\ nextId < MaxSymbols - 1

\* Every file has a parser.
NoLegacy == legacy = {}

Symmetry == Permutations(TwoFiles) \cup Permutations(TwoJobs)
=============================================================================
