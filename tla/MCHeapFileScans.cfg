\* Heap files: two scans of one file, one deleting, with mark/reset and endScan.
CONSTANTS
    NoFile = NoFile
    F = F
    G = G
    h1 = h1
    h2 = h2
    h3 = h3
    NumBufs = 3
    PageNos = {1, 2, 3, 4}
    Cap = 2
    Files = {F}
    Handles = {h1, h2}
    Kinds <- TwoScans
    InitRecs <- MCInitRecs
    MaxRecs = 5
    Filters <- NoPredicate
    Uninit <- MCUninit
    Restart = FALSE
    Deleters = {h1}
    ZeroPage <- ZeroImage
SPECIFICATION Spec
INVARIANT HandlePins
INVARIANT ScanSound
INVARIANT ScanComplete
