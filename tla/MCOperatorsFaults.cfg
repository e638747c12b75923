\* Both versions of all three operators (deletes may name an unknown attribute) while a data page of the relation may go bad; objects a call leaks keep their pins through the later calls.
CONSTANTS
    NoFile = NoFile
    F = F
    G = G
    R1 = R1
    R2 = R2
    Rel = R1
    Res = R2
    NumBufs = 4
    PageNos = {1, 2, 3, 4}
    Cap = 2
    Files = {F, G}
    Handles = {R1, R2}
    Kinds <- MCKinds
    InitRecs <- MCInitRecs
    MaxRecs = 5
    Filters <- MCFilters
    Uninit <- MCUninit
    Restart = FALSE
    Deleters = {}
    ZeroPage <- ZeroImage
    Variants = {"main", "g11"}
    Ops <- AllOps
    DelReqs <- AnyDeletes
    SelFilters <- MCSelFilters
    MaxCalls = 4
    BadKeys <- DataPagesOfF
    MaxBad = 1
\* The caller stops after MaxCalls calls.
CHECK_DEADLOCK FALSE
SPECIFICATION OpSpec
PROPERTY CallReturns
