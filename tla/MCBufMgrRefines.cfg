\* BufMgr refines the abstract page cache PagePool.
CONSTANTS
    f1 = f1
    f2 = f2
    c1 = c1
    c2 = c2
    NoFile = NoFile
    ZeroPage = ZeroPage
    NotResident = NotResident
    NumBufs = 2
    PageNos = {1, 2, 3}
    Files <- OneFile
    Clients <- MCClients
    InitPages <- OneFileInitPages
    MaxVersion = 1
    Faults = {}
    MaxFaults = 0
SYMMETRY ClientSymmetry
SPECIFICATION Spec
PROPERTY PoolSpec
