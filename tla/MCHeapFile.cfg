\* Heap files: a scan (which deletes) interleaved with an insert scan or a HeapFile reading records by rid, on one file.
CONSTANTS
    NoFile = NoFile
    F = F
    G = G
    h1 = h1
    h2 = h2
    h3 = h3
    NumBufs = 3
    PageNos = {1, 2, 3, 4}
    Cap = 2
    Files = {F}
    Handles = {h1, h2}
    Kinds <- ScanAndFile
    InitRecs <- MCInitRecs
    MaxRecs = 5
    Filters <- MCFilters
    Uninit <- MCUninit
    Restart = FALSE
    Deleters = {h1}
    ZeroPage <- ZeroImage
SPECIFICATION Spec
INVARIANT TypeOK
INVARIANT HeapConsistent
INVARIANT HandlePins
INVARIANT ScanSound
 
