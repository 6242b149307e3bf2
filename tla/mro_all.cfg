CONSTANTS
    c1 = c1  c2 = c2  c3 = c3
    m1 = m1  m2 = m2  m3 = m3
    na = na  nb = nb  nc = nc
    none = none
    Clients <- ThreeClients
    NoClient <- none
    Classes <- FourClasses
    MaxBases = 3
    Paths <- ThreePaths
    Nowhere = nowhere
    Names <- ThreeNames
    Longer <- LongerM3
    Fitting <- FittingM1
    ImportForms <- TwoForms
    InitialTrees <- SmallTrees
    MaxChanges = 2
SPECIFICATION Spec
CHECK_DEADLOCK FALSE
INVARIANT AllAreC3
