---------------------------- MODULE MCHeapFile ----------------------------
EXTENDS HeapFile, TLC

CONSTANTS F, G, h1, h2, h3

\* the predicate of the scans: attribute = 1 (odd record ids)
EqOne == [op |-> "EQ", lit |-> 1]

MCFilters == {EqOne}

\* no predicate: QU_Delete without a condition empties whole pages
NoPredicate == {NoFilter}

\* a deleting scan (QU_Delete) and an insert scan of the same file
ScanAndInsert == h1 :> {"scan"} @@ h2 :> {"insert"}

\* a deleting scan (QU_Delete) and a plain HeapFile or an insert scan of
\* the same file: the catalog's long-lived object beside an operator
ScanAndFile == h1 :> {"scan"} @@ h2 :> {"file", "insert"}

\* two read-only scans and a plain HeapFile of the same file
ScansAndFile == h1 :> {"scan"} @@ h2 :> {"file"} @@ h3 :> {"scan"}

\* a deleting scan and a second, read-only scan of the same file
TwoScans == h1 :> {"scan"} @@ h2 :> {"scan"}

\* two insert scans of the same file
TwoInserts == h1 :> {"insert"} @@ h2 :> {"insert"}

\* any object of either class
AnyKind == h1 :> {"scan", "insert"} @@ h2 :> {"scan", "insert"}

MCInitRecs == F :> <<1, 2, 3, 4>>

\* a one-page file each in F and G
SmallFiles == F :> <<1, 2>> @@ G :> <<3, 4>>

\* three data pages: with the header, one page more than the pool has frames
FiveRecs == F :> <<1, 2, 3, 4, 5>>

MCUninit == {Null, Wild}

=============================================================================
