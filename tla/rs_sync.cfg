CONSTANTS
    f1 = f1  f2 = f2
    c1 = c1  c2 = c2
    j1 = j1  j2 = j2
    none = none
    None <- none
    Files <- TwoFiles
    Textual <- OneFile
    Contents <- TwoContents
    Jobs <- TwoJobs
    MaxEdits = 2
SPECIFICATION Spec
INVARIANTS TypeOK ShortcutSound QuietSyncCurrent QuietIncrementalCurrent
PROPERTIES Converges
