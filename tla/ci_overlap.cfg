CONSTANTS
    f1 = f1  f2 = f2
    j1 = j1  j2 = j2
    none = none
    caller = caller  callee = callee  bad = bad
    None <- none
    Files <- TwoFiles
    Versions <- TwoVersions
    Broken <- NoFile
    Names <- FunctionNames
    Defines <- DefinesOf
    Calls <- CallsOf
    Jobs <- TwoJobs
    Paths <- PoolPath
    MaxSymbols = 3
SPECIFICATION Spec
SYMMETRY Symmetry
CONSTRAINT NoLegacy
INVARIANTS EdgesTrue QuietIndexExact
