CONSTANTS
    f1 = f1  f2 = f2
    j1 = j1  j2 = j2
    none = none
    caller = caller  callee = callee  bad = bad
    None <- none
    Files <- TwoFiles
    Versions <- ThreeVersions
    Broken <- BadVersions
    Names <- FunctionNames
    Defines <- DefinesOf
    Calls <- CallsOf
    Jobs <- OneJob
    Paths <- AllPaths
    MaxSymbols = 4
SPECIFICATION Spec
SYMMETRY Symmetry
CONSTRAINT CachedOrParsed
INVARIANTS TypeOK QuietIndexExact QuietFilesExact
PROPERTY FilesTouchParsed
