\* One unconditional ScanSelect: the result file outgrows the pinned buffer pool.
CONSTANTS
    NoFile = NoFile
    F = F
    G = G
    R1 = R1
    R2 = R2
    Rel = R1
    Res = R2
    NumBufs = 4
    PageNos = {1, 2, 3, 4}
    Cap = 2
    Files = {F, G}
    Handles = {R1, R2}
    Kinds <- MCKinds
    InitRecs <- MCInitRecs
    MaxRecs = 5
    Filters <- MCFilters
    Uninit <- MCUninit
    Restart = FALSE
    Deleters = {}
    ZeroPage <- ZeroImage
    Variants = {"main"}
    Ops = {"select"}
    DelReqs <- GoodDeletes
    SelFilters <- MCSelFilters
    MaxCalls = 1
    BadKeys = {}
    MaxBad = 0
\* The caller stops after MaxCalls calls.
CHECK_DEADLOCK FALSE
SPECIFICATION OpSpec
INVARIANT NoLostPages
