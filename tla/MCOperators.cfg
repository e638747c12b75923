\* Operators over the heap files, main and G11 versions: inserts, deletes and selects, no disk faults.
CONSTANTS
    NoFile = NoFile
    F = F
    G = G
    R1 = R1
    R2 = R2
    Rel = R1
    Res = R2
    NumBufs = 4
    PageNos = {1, 2, 3, 4}
    Cap = 2
    Files = {F, G}
    Handles = {R1, R2}
    Kinds <- MCKinds
    InitRecs <- MCInitRecs
    MaxRecs = 6
    Filters <- MCFilters
    Uninit <- MCUninit
    Restart = FALSE
    Deleters = {}
    ZeroPage <- ZeroImage
    Variants = {"main", "g11"}
    Ops <- AllOps
    DelReqs <- GoodDeletes
    SelFilters <- MCSelFilters
    MaxCalls = 5
    BadKeys = {}
    MaxBad = 0
\* The caller stops after MaxCalls calls.
CHECK_DEADLOCK FALSE
SPECIFICATION OpSpec
INVARIANT OpTypeOK
INVARIANT FilesAsExpected
INVARIANT NoOrphanPins
INVARIANT HeapConsistent
PROPERTY CallReturns
