\* BufMgr with fault-free File I/O: index, pins, write-back, second chance.
CONSTANTS
    f1 = f1
    f2 = f2
    c1 = c1
    c2 = c2
    NoFile = NoFile
    ZeroPage = ZeroPage
    NotResident = NotResident
    NumBufs = 2
    PageNos = {1, 2}
    Files <- MCFiles
    Clients <- MCClients
    InitPages <- MCInitPages
    MaxVersion = 1
    Faults = {}
    MaxFaults = 0
SYMMETRY Symmetry
SPECIFICATION Spec
INVARIANT TypeOK
INVARIANT IndexConsistent
INVARIANT PinAccounting
 
PROPERTY SecondChance
