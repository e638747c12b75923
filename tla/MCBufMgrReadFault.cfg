\* BufMgr after one failed File::readPage: is a written page still read back?
CONSTANTS
    f1 = f1
    f2 = f2
    c1 = c1
    c2 = c2
    NoFile = NoFile
    ZeroPage = ZeroPage
    NotResident = NotResident
    NumBufs = 2
    PageNos = {1, 2}
    Files <- MCFiles
    Clients <- MCClients
    InitPages <- MCInitPages
    MaxVersion = 1
    Faults = {"read"}
    MaxFaults = 1
SYMMETRY Symmetry
SPECIFICATION Spec
INVARIANT CacheCoherent
