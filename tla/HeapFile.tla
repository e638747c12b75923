----------------------------- MODULE HeapFile -----------------------------
(***************************************************************************)
(* The heap-file layer of heapfile.C over the buffer manager of buf.C.     *)
(* Heap files are chains of data pages behind a header page; HeapFile,     *)
(* HeapFileScan and InsertFileScan objects ("handles") each pin the        *)
(* header page and one data page (the cursor) through Page pointers into   *)
(* the pool.  Several handles are open at once, as in ScanSelect (a scan   *)
(* of the relation and an insert scan of the result) and in the catalog    *)
(* (a long-lived HeapFile and scans of the same file); their calls         *)
(* interleave in any order.                                                *)
(*                                                                         *)
(* A handle is the record of the object's members.  A pointer is a frame,  *)
(* Null, or Wild: the value of a pointer member the constructor never      *)
(* assigned.  Reading such a member is undefined; the model lets it be     *)
(* either Null or Wild (the constant Uninit), and an uninitialised int is  *)
(* taken as 0, a page number no file has.  Every operation is an operator *)
(* returning [st |-> status, bm |-> buffer state, hf |-> handle].          *)
(***************************************************************************)
EXTENDS BufPool, HeapPage, MatchRec, Sequences, Functions

CONSTANTS
    Handles,   \* heap-file objects, as model values
    Kinds,     \* Kinds[h]: the classes handle h may be opened as
    InitRecs,  \* InitRecs[f]: records inserted into f before the model starts
    MaxRecs,   \* record ids are 1 .. MaxRecs; bounds the inserts
    Filters,   \* scan predicates a caller may pass to startScan
    Uninit,    \* what an unassigned pointer member may hold: \subseteq {Null, Wild}
    Restart,   \* whether callers call scanNext again after endScan
    Deleters   \* handles whose caller deletes what its scan returns (QU_Delete)

Null == NoFrame
Wild == -2

ASSUME Uninit \subseteq {Null, Wild} /\ Uninit # {}
ASSUME \A h \in Handles : Kinds[h] \subseteq {"file", "scan", "insert"}
ASSUME Restart \in BOOLEAN /\ Deleters \subseteq Handles

RecIds == 1 .. MaxRecs

\* The predicate: an INTEGER attribute at offset 0 of every record.
NoFilter == [op |-> "NONE", lit |-> 0]
AttrOf(r) == r % 2
Match(flt, r) ==
    MatchRec(flt # NoFilter, flt.op, "INTEGER", 0, IntSize, IntSize, AttrOf(r), flt.lit)

Closed == [kind |-> "closed", ok |-> FALSE, file |-> NoFile,
           hdrNo |-> 0, hdrPage |-> Null, hdrDirty |-> FALSE,
           curPage |-> Null, curPageNo |-> 0, curDirty |-> FALSE, curRec |-> NULLRID,
           markedPageNo |-> 0, markedRec |-> NULLRID, filter |-> NoFilter]

Ret(st, bm, hf) == [st |-> st, bm |-> bm, hf |-> hf]

\* File::getFirstPage (outside the source tree): the file's first page,
\* which createHeapFile made the header page.
FirstPageNo(bm, f) == CHOOSE p \in bm.alloc[f] : \A q \in bm.alloc[f] : p <= q

(***************************************************************************)
(* createHeapFile for a file that does not exist yet: allocate the header  *)
(* and one data page, link them, unpin both dirty and flush the file.      *)
(***************************************************************************)
CreateFlushed(f, u2) ==
    IF u2.st # "OK" THEN [st |-> u2.st, bm |-> u2.bm]
    ELSE FlushFile(u2.bm, f, "ok")

\* unpin the data page dirty, then flush the file
CreateUnpinned(f, dno, u1) ==
    IF u1.st # "OK" THEN [st |-> u1.st, bm |-> u1.bm]
    ELSE CreateFlushed(f, UnPinPage(u1.bm, f, dno, TRUE))

\* initialise the data page d, fill in the header, unpin the header dirty
CreateLinked(f, h, d) ==
    IF d.st # "OK" THEN [st |-> d.st, bm |-> d.bm]
    ELSE CreateUnpinned(f, d.pageNo,
           UnPinPage([d.bm EXCEPT !.pool[d.frame] = PageInit(@),
                                  !.pool[h.frame] = [@ EXCEPT !.recCnt = 0, !.pageCnt = 1,
                                      !.firstPage = d.pageNo, !.lastPage = d.pageNo]],
                     f, h.pageNo, TRUE))

\* the header page h is allocated: allocate the first data page
CreateDataPage(f, h) ==
    IF h.st # "OK" THEN [st |-> h.st, bm |-> h.bm]
    ELSE CreateLinked(f, h, AllocPage(h.bm, f, "ok"))

CreateHeapFile(bm, f) == CreateDataPage(f, AllocPage(bm, f, "ok"))

(***************************************************************************)
(* HeapFile::HeapFile: pin the header page, then the first data page.  A   *)
(* failed read returns at once, leaving later members unassigned: u is     *)
(* what the unassigned curPage holds.                                      *)
(***************************************************************************)
OpenDone(u, hf, r2) ==
    IF r2.st # "OK" THEN Ret(r2.st, r2.bm, [hf EXCEPT !.curPage = u])
    ELSE Ret("OK", r2.bm, [hf EXCEPT !.curPage = r2.frame])

\* the header read (r1) answered: read the first data page
PinFirstDataPage(f, u, hno, r1) ==
    LET base == [Closed EXCEPT !.file = f, !.hdrNo = hno]
        fp   == r1.bm.pool[r1.frame].firstPage
    IN  IF r1.st # "OK"
        THEN Ret(r1.st, r1.bm, [base EXCEPT !.hdrPage = Wild, !.curPage = u])
        ELSE OpenDone(u, [base EXCEPT !.hdrPage = r1.frame, !.curPageNo = fp],
                      ReadPage(r1.bm, f, fp, "ok"))

OpenHeapFile(bm, f, u) ==
    PinFirstDataPage(f, u, FirstPageNo(bm, f), ReadPage(bm, f, FirstPageNo(bm, f), "ok"))

(***************************************************************************)
(* InsertFileScan::InsertFileScan, after the HeapFile constructor: if the *)
(* cursor is not on the last page, unpin it and pin the last page.  The    *)
(* status is overwritten by each call; a failed read leaves curPage        *)
(* pointing at the frame just unpinned.                                    *)
(***************************************************************************)
\* the cursor after the constructor's readPage of the last page lp (r)
PinnedLastPage(hf, lp, r) ==
    Ret(r.st, r.bm, [hf EXCEPT !.curPageNo = lp, !.curDirty = FALSE,
                               !.curPage = IF r.st = "OK" THEN r.frame ELSE @])

\* Mutant: the first data page is not unpinned before moving to the last.
InsertFileScanCtorNoUnpin(o) ==
    LET hf == o.hf  lp == o.bm.pool[hf.hdrPage].lastPage IN
    IF hf.curPage = Null \/ hf.curPageNo = lp THEN o
    ELSE PinnedLastPage(hf, lp, ReadPage(o.bm, hf.file, lp, "ok"))

InsertFileScanCtor(o) ==
    LET hf == o.hf  lp == o.bm.pool[hf.hdrPage].lastPage IN
    IF hf.curPage = Null \/ hf.curPageNo = lp THEN o
    ELSE PinnedLastPage(hf, lp,
           ReadPage(UnPinPage(o.bm, hf.file, hf.curPageNo, hf.curDirty).bm, hf.file, lp, "ok"))

\* Whether the insert-scan constructor reads a header pointer never assigned.
InsertCtorReadsWild(o) == o.hf.curPage # Null /\ o.hf.hdrPage = Wild

(***************************************************************************)
(* HeapFile::~HeapFile: unpin the cursor page if curPage is not NULL, then *)
(* the header page.  ~HeapFileScan's endScan and ~InsertFileScan's unpin   *)
(* of the cursor come first and leave curPage NULL; ~InsertFileScan       *)
(* always unpins dirty.                                                    *)
(***************************************************************************)
HeapFileDtor(bm, hf) ==
    LET bm1 == IF hf.curPage # Null
               THEN UnPinPage(bm, hf.file, hf.curPageNo, hf.curDirty).bm ELSE bm
    IN  UnPinPage(bm1, hf.file, hf.hdrNo, hf.hdrDirty).bm

InsertFileScanDtor(bm, hf) ==
    HeapFileDtor(bm, IF hf.curPage # Null THEN [hf EXCEPT !.curDirty = TRUE] ELSE hf)

(***************************************************************************)
(* HeapFileScan::scanNext.  The for(;;) loop is ScanLoop (next record on  *)
(* the cursor page) and NextPage (the inner while: unpin, follow the       *)
(* forward pointer, pin, take the first record); Examine applies the       *)
(* predicate.  Each pass of the loop spends one unit of fuel; a chain that *)
(* loops back on itself runs out of it, and scanNext never returns.        *)
(***************************************************************************)
Fuel == (Cap + 1) * Cardinality(PageNos) + 1

RecAt(bm, hf) == bm.pool[hf.curPage].slots[hf.curRec[2]]

RECURSIVE ScanLoop(_, _, _), NextPage(_, _, _), Examine(_, _, _),
          PinNextPage(_, _, _), ScanLoopRepeats(_, _, _),
          ScanLoopStopsAtPageEnd(_, _, _), PinNextPageTakesNoSlot(_, _, _)

Examine(bm, hf, fuel) ==
    IF Match(hf.filter, RecAt(bm, hf)) THEN Ret("OK", bm, hf)
    ELSE ScanLoop(bm, hf, fuel - 1)

\* Mutant: nextRecord is asked for the record after the one before the
\* cursor, so the cursor's record comes back again.
ScanLoopRepeats(bm, hf, fuel) ==
    LET n == NextRecord(bm.pool[hf.curPage], hf.curRec[2] - 1) IN
    IF fuel <= 0 THEN Ret("HANG", bm, hf)
    ELSE IF n # NoSlot THEN Examine(bm, [hf EXCEPT !.curRec = <<hf.curPageNo, n>>], fuel)
    ELSE NextPage(bm, hf, fuel)

\* Mutant: the end of the cursor page is taken for the end of the file.
ScanLoopStopsAtPageEnd(bm, hf, fuel) ==
    LET n == NextRecord(bm.pool[hf.curPage], hf.curRec[2]) IN
    IF fuel <= 0 THEN Ret("HANG", bm, hf)
    ELSE IF n # NoSlot THEN Examine(bm, [hf EXCEPT !.curRec = <<hf.curPageNo, n>>], fuel)
    ELSE Ret("FILEEOF", bm, hf)

ScanLoop(bm, hf, fuel) ==
    LET n == NextRecord(bm.pool[hf.curPage], hf.curRec[2]) IN
    IF fuel <= 0 THEN Ret("HANG", bm, hf)
    ELSE IF n # NoSlot THEN Examine(bm, [hf EXCEPT !.curRec = <<hf.curPageNo, n>>], fuel)
    ELSE NextPage(bm, hf, fuel)

\* Mutant: the cursor takes firstRecord's result even when the page has none.
PinNextPageTakesNoSlot(hf, fuel, r) ==
    LET first == FirstRecord(r.bm.pool[r.frame])
        hf3   == [hf EXCEPT !.curPage = r.frame, !.curRec = <<hf.curPageNo, first>>]
    IN  IF r.st # "OK" THEN Ret(r.st, r.bm, hf)
        ELSE IF first # NoSlot THEN Examine(r.bm, hf3, fuel)
        ELSE NextPage(r.bm, hf3, fuel - 1)

\* the readPage of the next page (r) answered: take its first record, or
\* go on to the page after it
PinNextPage(hf, fuel, r) ==
    LET first == FirstRecord(r.bm.pool[r.frame])
        hf3   == [hf EXCEPT !.curPage = r.frame,
                            !.curRec = IF first # NoSlot THEN <<hf.curPageNo, first>> ELSE @]
    IN  IF r.st # "OK" THEN Ret(r.st, r.bm, hf)
        ELSE IF first # NoSlot THEN Examine(r.bm, hf3, fuel)
        ELSE NextPage(r.bm, hf3, fuel - 1)

NextPage(bm, hf, fuel) ==
    LET nxt == bm.pool[hf.curPage].next
        u   == UnPinPage(bm, hf.file, hf.curPageNo, hf.curDirty)
        hf1 == [hf EXCEPT !.curPage = Null, !.curPageNo = -1]
    IN  IF fuel <= 0 THEN Ret("HANG", bm, hf)
        ELSE IF nxt = -1 THEN Ret("FILEEOF", bm, hf)
        ELSE IF u.st # "OK" THEN Ret(u.st, u.bm, hf1)
        ELSE PinNextPage([hf1 EXCEPT !.curPageNo = nxt, !.curDirty = FALSE], fuel,
                         ReadPage(u.bm, hf.file, nxt, "ok"))

\* The special case when no page is pinned: start over from the first page
\* (r is its readPage); a first page without records ends the scan.
FirstPagePinned(hf, r) ==
    LET hf1   == [hf EXCEPT !.curPage = IF r.st = "OK" THEN r.frame ELSE @]
        first == FirstRecord(r.bm.pool[r.frame])
        u     == UnPinPage(r.bm, hf.file, hf.curPageNo, FALSE)
    IN  IF r.st # "OK" THEN Ret(r.st, r.bm, hf1)
        ELSE IF first = NoSlot
        THEN IF u.st # "OK" THEN Ret(u.st, u.bm, hf1)
             ELSE Ret("FILEEOF", u.bm, [hf1 EXCEPT !.curPageNo = -1, !.curPage = Null])
        ELSE Examine(r.bm, [hf1 EXCEPT !.curRec = <<hf.curPageNo, first>>], Fuel)

ScanFromFirst(bm, hf) ==
    LET fp == bm.pool[hf.hdrPage].firstPage IN
    IF fp = -1 THEN Ret("FILEEOF", bm, [hf EXCEPT !.curPageNo = fp])
    ELSE FirstPagePinned([hf EXCEPT !.curPageNo = fp, !.curDirty = FALSE, !.curRec = NULLRID],
                         ReadPage(bm, hf.file, fp, "ok"))

ScanNextOp(bm, hf) ==
    IF hf.curPageNo < 0 THEN Ret("FILEEOF", bm, hf)
    ELSE IF hf.curPage = Null THEN ScanFromFirst(bm, hf)
    ELSE ScanLoop(bm, hf, Fuel)

(***************************************************************************)
(* HeapFileScan::deleteRecord: delete the cursor's record from the page    *)
(* and decrement the header's recCnt, whatever the page returned.          *)
(***************************************************************************)
\* Mutant: the header's record count is left alone.
DeleteRecordNoCount(bm, hf) ==
    LET del == DeleteFromPage(bm.pool[hf.curPage], hf.curRec[2]) IN
    Ret(del.st, [bm EXCEPT !.pool[hf.curPage] = del.pg],
        [hf EXCEPT !.curDirty = TRUE, !.hdrDirty = TRUE])

DeleteRecordOp(bm, hf) ==
    LET del == DeleteFromPage(bm.pool[hf.curPage], hf.curRec[2])
        bm1 == [bm EXCEPT !.pool[hf.curPage] = del.pg]
    IN  Ret(del.st, [bm1 EXCEPT !.pool[hf.hdrPage].recCnt = @ - 1],
            [hf EXCEPT !.curDirty = TRUE, !.hdrDirty = TRUE])

\* Mutant: endScan forgets the cursor page without unpinning it.
EndScanNoUnpin(bm, hf) ==
    Ret("OK", bm, [hf EXCEPT !.curPage = Null, !.curPageNo = 0, !.curDirty = FALSE])

\* HeapFileScan::endScan
EndScanOp(bm, hf) ==
    IF hf.curPage # Null
    THEN LET u == UnPinPage(bm, hf.file, hf.curPageNo, hf.curDirty) IN
         Ret(u.st, u.bm, [hf EXCEPT !.curPage = Null, !.curPageNo = 0, !.curDirty = FALSE])
    ELSE Ret("OK", bm, hf)

\* HeapFileScan::markScan
MarkScanOp(hf) == [hf EXCEPT !.markedPageNo = hf.curPageNo, !.markedRec = hf.curRec]

(***************************************************************************)
(* HeapFileScan::resetScan: on another page, unpin the cursor (if any),    *)
(* restore the mark and pin the marked page; on the same page only the     *)
(* record is restored.                                                     *)
(***************************************************************************)
\* the marked page's readPage (r) answered
PinMarkedPage(hf, r) ==
    IF r.st # "OK" THEN Ret(r.st, r.bm, hf)
    ELSE Ret("OK", r.bm, [hf EXCEPT !.curPage = r.frame, !.curDirty = FALSE])

ResetScanOp(bm, hf) ==
    LET u == UnPinPage(bm, hf.file, hf.curPageNo, hf.curDirty) IN
    IF hf.markedPageNo = hf.curPageNo
    THEN Ret("OK", bm, [hf EXCEPT !.curRec = hf.markedRec])
    ELSE IF hf.curPage # Null /\ u.st # "OK" THEN Ret(u.st, u.bm, hf)
    ELSE PinMarkedPage([hf EXCEPT !.curPageNo = hf.markedPageNo, !.curRec = hf.markedRec],
                       ReadPage(IF hf.curPage # Null THEN u.bm ELSE bm,
                                hf.file, hf.markedPageNo, "ok"))

(***************************************************************************)
(* InsertFileScan::insertRecord.  With no cursor page, pin the last page.  *)
(* If the record fits, count it.  Otherwise allocate and initialise a new  *)
(* page, make it the header's last page, link the cursor page to it, unpin *)
(* the cursor page dirty, move the cursor and insert there.                *)
(***************************************************************************)
InsertOnPage(bm, hf, r) ==
    LET ins == InsertIntoPage(bm.pool[hf.curPage], r) IN
    [st |-> ins.st, hf |-> [hf EXCEPT !.hdrDirty = TRUE, !.curDirty = TRUE],
     bm |-> [bm EXCEPT !.pool[hf.curPage] = ins.pg, !.pool[hf.hdrPage].recCnt = @ + 1]]

\* The old tail is unpinned (u): move the cursor to the new page np in
\* frame fr and insert there; if the unpin failed, drop the cursor and
\* unpin the new page.
MoveToNewPage(hf, r, np, fr, u) ==
    LET hf3 == [hf EXCEPT !.curPageNo = np, !.curPage = fr]
        ins == InsertOnPage(u.bm, hf3, r)
    IN  IF u.st # "OK"
        THEN Ret(u.st, UnPinPage(u.bm, hf.file, np, TRUE).bm,
                 [hf EXCEPT !.curPage = Null, !.curPageNo = -1, !.curDirty = FALSE])
        ELSE IF ins.st = "OK" THEN ins
        ELSE Ret(ins.st, u.bm, hf3)

\* Mutant: the old last page is not linked to the new one.
LinkNewPageNoLink(hf, r, a) ==
    LET bm2 == [a.bm EXCEPT !.pool[a.frame] = PageInit(@),
                            !.pool[hf.hdrPage].lastPage = a.pageNo,
                            !.pool[hf.hdrPage].pageCnt = @ + 1]
    IN  IF a.st # "OK" THEN Ret(a.st, a.bm, hf)
        ELSE MoveToNewPage([hf EXCEPT !.hdrDirty = TRUE], r, a.pageNo, a.frame,
                           UnPinPage(bm2, hf.file, hf.curPageNo, TRUE))

\* allocPage answered (a): initialise the new page, make it the header's
\* last page, link the cursor page to it and unpin the cursor page dirty
LinkNewPage(hf, r, a) ==
    LET bm2 == [a.bm EXCEPT !.pool[a.frame] = PageInit(@),
                            !.pool[hf.hdrPage].lastPage = a.pageNo,
                            !.pool[hf.hdrPage].pageCnt = @ + 1,
                            !.pool[hf.curPage].next = a.pageNo]
    IN  IF a.st # "OK" THEN Ret(a.st, a.bm, hf)
        ELSE MoveToNewPage([hf EXCEPT !.hdrDirty = TRUE], r, a.pageNo, a.frame,
                           UnPinPage(bm2, hf.file, hf.curPageNo, TRUE))

AppendPage(bm, hf, r) == LinkNewPage(hf, r, AllocPage(bm, hf.file, "ok"))

\* the record goes on the cursor page if it fits, else on a new page
InsertOrAppend(bm, hf, r) ==
    IF InsertIntoPage(bm.pool[hf.curPage], r).st = "OK" THEN InsertOnPage(bm, hf, r)
    ELSE AppendPage(bm, hf, r)

\* with no cursor page, the readPage of the header's last page lp (rd)
PinnedTail(hf, r, lp, rd) ==
    IF rd.st # "OK" THEN Ret(rd.st, rd.bm, [hf EXCEPT !.curPageNo = lp])
    ELSE InsertOrAppend(rd.bm, [hf EXCEPT !.curPageNo = lp, !.curPage = rd.frame], r)

InsertRecordOp(bm, hf, r) ==
    LET lp == bm.pool[hf.hdrPage].lastPage IN
    IF hf.curPage = Null THEN PinnedTail(hf, r, lp, ReadPage(bm, hf.file, lp, "ok"))
    ELSE InsertOrAppend(bm, hf, r)

(***************************************************************************)
(* HeapFile::getRecord(rid).  On the cursor page, read the slot.  Else    *)
(* unpin the cursor page (a failed unpin drops the cursor) and pin rid's *)
(* page; a failed readPage assigns nothing, so curPage and curPageNo keep *)
(* naming the page just unpinned.  Results carry the record read, rec.    *)
(***************************************************************************)
RecordOn(bm, hf, rid) ==
    LET g == PageGetRecord(bm.pool[hf.curPage], rid[2]) IN
    [st |-> g.st, rec |-> g.rec, bm |-> bm, hf |-> [hf EXCEPT !.curRec = rid]]

\* rid's page was read (r)
PinnedRecordPage(hf, rid, r) ==
    IF r.st # "OK" THEN [st |-> r.st, rec |-> EmptySlot, bm |-> r.bm, hf |-> hf]
    ELSE RecordOn(r.bm, [hf EXCEPT !.curPage = r.frame, !.curPageNo = rid[1],
                                   !.curDirty = FALSE], rid)

GetRecordOp(bm, hf, rid) ==
    LET u == UnPinPage(bm, hf.file, hf.curPageNo, hf.curDirty) IN
    IF hf.curPage # Null /\ rid[1] = hf.curPageNo THEN RecordOn(bm, hf, rid)
    ELSE IF hf.curPage # Null /\ u.st # "OK"
    THEN [st |-> u.st, rec |-> EmptySlot, bm |-> u.bm,
          hf |-> [hf EXCEPT !.curPage = Null, !.curPageNo = 0, !.curDirty = FALSE]]
    ELSE PinnedRecordPage(hf, rid, ReadPage(IF hf.curPage # Null THEN u.bm ELSE bm,
                                            hf.file, rid[1], "ok"))

\* Whether insertRecord dereferences a pointer member never assigned.
InsertReadsWild(hf) == hf.hdrPage = Wild \/ hf.curPage = Wild

(***************************************************************************)
(* The model: handles opened, used and destroyed in any order.             *)
(***************************************************************************)
VARIABLES
    bm,      \* buffer manager and File state (BufPool)
    hs,      \* hs[h]: the members of heap-file object h
    scan,    \* scan[h]: what the scan of h, or its last getRecord, returned (ghost)
    nextId,  \* the id of the next record a caller inserts
    broken   \* "wild": a pointer never assigned was used; "hang": scanNext loops

vars == <<bm, hs, scan, nextId, broken>>

NoMark == <<-1>>

IdleScan == [seen |-> <<>>, start |-> {}, eof |-> FALSE, mark |-> NoMark,
             pos |-> FALSE, started |-> FALSE, ended |-> FALSE, got |-> <<>>]

\* The database before the model starts: each file created by
\* createHeapFile, then filled with InitRecs[f] through one InsertFileScan.
RECURSIVE CreateAll(_, _), InsertAll(_, _), PreloadAll(_, _), Preloaded(_, _, _)
CreateAll(b, S) ==
    IF S = {} THEN b
    ELSE LET f == CHOOSE g \in S : TRUE IN CreateAll(CreateHeapFile(b, f).bm, S \ {f})
InsertAll(o, rs) ==
    IF rs = <<>> THEN o ELSE InsertAll(InsertRecordOp(o.bm, o.hf, Head(rs)), Tail(rs))
Preloaded(S, f, i) == PreloadAll(InsertFileScanDtor(i.bm, i.hf), S \ {f})
PreloadAll(b, S) ==
    IF S = {} THEN b
    ELSE LET f == CHOOSE g \in S : TRUE IN
         Preloaded(S, f, InsertAll(InsertFileScanCtor(OpenHeapFile(b, f, Null)), InitRecs[f]))

InitIds == UNION {{InitRecs[f][i] : i \in DOMAIN InitRecs[f]} : f \in Files}

InitBm == PreloadAll(CreateAll(InitBuf([k \in Keys |-> ZeroImage],
                                        [f \in Files |-> {}]), Files), Files)

Init ==
    /\ bm = InitBm
    /\ hs = [h \in Handles |-> Closed]
    /\ scan = [h \in Handles |-> IdleScan]
    /\ nextId = IF InitIds = {} THEN 1 ELSE 1 + CHOOSE m \in InitIds : \A n \in InitIds : n <= m
    /\ broken = "none"

\* The contents a reader of page p of f gets: its frame, else the disk.
LogicalPage(f, p) ==
    IF Lookup(bm.hash, <<f, p>>) # NoFrame THEN bm.pool[bm.hash[<<f, p>>]]
    ELSE bm.disk[<<f, p>>]

HeaderOf(f) == LogicalPage(f, FirstPageNo(bm, f))

\* The data pages reached from p by forward pointers, at most n of them.
RECURSIVE ChainFrom(_, _, _)
ChainFrom(f, p, n) ==
    IF p = -1 \/ n = 0 THEN <<>>
    ELSE IF p \notin PageNos THEN <<p>>
    ELSE <<p>> \o ChainFrom(f, LogicalPage(f, p).next, n - 1)

Chain(f) == ChainFrom(f, HeaderOf(f).firstPage, Cardinality(PageNos) + 1)

\* the records of f: those in a slot of a page of its chain
RecordSlots(f) == {<<p, s>> \in (Range(Chain(f)) \cap PageNos) \X Slots :
                       LogicalPage(f, p).slots[s] # EmptySlot}
Records(f) == {LogicalPage(f, rs[1]).slots[rs[2]] : rs \in RecordSlots(f)}

Running(h) == hs[h].kind # "closed" /\ broken = "none"

ScanUsable(h) ==
    /\ Running(h) /\ hs[h].kind = "scan" /\ hs[h].ok
    /\ Restart \/ ~scan[h].ended

(***************************************************************************)
(* A caller constructs a HeapFileScan or InsertFileScan on file f.  u is   *)
(* the value an unassigned curPage holds if the constructor fails.  The    *)
(* constructors' results are passed on as o (HeapFile) and i               *)
(* (InsertFileScan).                                                       *)
(***************************************************************************)
Become(h, k, i) ==
    /\ bm' = i.bm
    /\ hs' = [hs EXCEPT ![h] = [i.hf EXCEPT !.kind = k, !.ok = (i.st = "OK")]]
    /\ UNCHANGED broken

Opened(h, k, o) ==
    IF k # "insert" THEN Become(h, k, o)
    ELSE IF InsertCtorReadsWild(o)
    THEN /\ bm' = o.bm /\ broken' = "wild"
         /\ hs' = [hs EXCEPT ![h] = [o.hf EXCEPT !.kind = k]]
    ELSE Become(h, k, InsertFileScanCtor(o))

Open(h, k, f, u) ==
    /\ broken = "none"
    /\ hs[h].kind = "closed" /\ k \in Kinds[h]
    /\ scan' = [scan EXCEPT ![h] = IdleScan]
    /\ Opened(h, k, OpenHeapFile(bm, f, u))
    /\ UNCHANGED nextId

\* startScan with a well-formed predicate (or none) right after construction.
StartScan(h, flt) ==
    /\ ScanUsable(h) /\ ~scan[h].started
    /\ hs' = [hs EXCEPT ![h].filter = flt]
    /\ scan' = [scan EXCEPT ![h].started = TRUE,
                    ![h].start = {r \in Records(hs[h].file) : Match(flt, r)}]
    /\ UNCHANGED <<bm, nextId, broken>>

ScanNextDone(h, o) ==
    /\ bm' = o.bm
    /\ hs' = [hs EXCEPT ![h] = o.hf]
    /\ scan' = [scan EXCEPT ![h].seen = IF o.st = "OK" THEN Append(@, RecAt(o.bm, o.hf))
                                        ELSE @,
                            ![h].pos = (o.st = "OK"),
                            ![h].eof = @ \/ o.st = "FILEEOF"]
    /\ broken' = IF o.st = "HANG" THEN "hang" ELSE broken

ScanNext(h) ==
    /\ ScanUsable(h) /\ scan[h].started
    /\ ScanNextDone(h, ScanNextOp(bm, hs[h]))
    /\ UNCHANGED nextId

\* deleteRecord on the record scanNext just returned (QU_Delete's loop).
DeleteRecord(h) ==
    LET o == DeleteRecordOp(bm, hs[h]) IN
    /\ h \in Deleters /\ ScanUsable(h) /\ scan[h].pos
    /\ bm' = o.bm
    /\ hs' = [hs EXCEPT ![h] = o.hf]
    /\ scan' = [scan EXCEPT ![h].pos = FALSE]
    /\ UNCHANGED <<nextId, broken>>

MarkScan(h) ==
    /\ ScanUsable(h) /\ scan[h].started
    /\ hs' = [hs EXCEPT ![h] = MarkScanOp(@)]
    /\ scan' = [scan EXCEPT ![h].mark = scan[h].seen]
    /\ UNCHANGED <<bm, nextId, broken>>

ResetScanDone(h, o) ==
    /\ bm' = o.bm
    /\ hs' = [hs EXCEPT ![h] = o.hf]
    /\ scan' = [scan EXCEPT ![h].seen = IF o.st = "OK" THEN scan[h].mark ELSE @,
                            ![h].eof = @ /\ o.st # "OK",
                            ![h].pos = FALSE]

ResetScan(h) ==
    /\ ScanUsable(h) /\ scan[h].mark # NoMark
    /\ ResetScanDone(h, ResetScanOp(bm, hs[h]))
    /\ UNCHANGED <<nextId, broken>>

\* endScan; a later scanNext starts a new pass over the file.
EndScan(h) ==
    LET o == EndScanOp(bm, hs[h]) IN
    /\ ScanUsable(h) /\ scan[h].started
    /\ bm' = o.bm
    /\ hs' = [hs EXCEPT ![h] = o.hf]
    /\ scan' = [scan EXCEPT ![h] = [IdleScan EXCEPT !.started = TRUE, !.ended = TRUE,
                     !.start = {r \in Records(hs[h].file) : Match(hs[h].filter, r)}]]
    /\ UNCHANGED <<nextId, broken>>

\* insertRecord of a new record; QU_Insert calls it whatever the
\* constructor returned.
InsertRecordDone(h, o) == bm' = o.bm /\ hs' = [hs EXCEPT ![h] = o.hf]

InsertRecord(h) ==
    /\ Running(h) /\ hs[h].kind = "insert"
    /\ nextId <= MaxRecs
    /\ nextId' = nextId + 1
    /\ IF InsertReadsWild(hs[h])
       THEN broken' = "wild" /\ UNCHANGED <<bm, hs>>
       ELSE InsertRecordDone(h, InsertRecordOp(bm, hs[h], nextId)) /\ UNCHANGED broken
    /\ UNCHANGED scan

(***************************************************************************)
(* getRecord(rid) on a plain HeapFile (as the catalog holds one), for a   *)
(* slot of a page on the file's chain: rids come from earlier scans, and  *)
(* the record may have been deleted since.  The ghost got pairs the       *)
(* record returned with the one the file holds at rid.                     *)
(***************************************************************************)
GetRecordDone(h, rid, o) ==
    /\ bm' = o.bm
    /\ hs' = [hs EXCEPT ![h] = o.hf]
    /\ scan' = [scan EXCEPT ![h].got =
                   IF o.st = "OK"
                   THEN <<o.rec, LogicalPage(hs[h].file, rid[1]).slots[rid[2]]>> ELSE <<>>]

GetRecord(h, rid) ==
    /\ Running(h) /\ hs[h].kind = "file" /\ hs[h].ok
    /\ GetRecordDone(h, rid, GetRecordOp(bm, hs[h], rid))
    /\ UNCHANGED <<nextId, broken>>

\* The object is destroyed.
Close(h) ==
    /\ Running(h)
    /\ bm' = IF hs[h].kind = "insert" THEN InsertFileScanDtor(bm, hs[h])
             ELSE HeapFileDtor(bm, hs[h])
    /\ hs' = [hs EXCEPT ![h] = Closed]
    /\ scan' = [scan EXCEPT ![h] = IdleScan]
    /\ UNCHANGED <<nextId, broken>>

Next ==
    \/ \E h \in Handles, k \in {"file", "scan", "insert"}, f \in Files, u \in Uninit :
           Open(h, k, f, u)
    \/ \E h \in Handles :
           hs[h].kind = "file" /\ \E rid \in (Range(Chain(hs[h].file)) \cap PageNos) \X Slots :
                                   GetRecord(h, rid)
    \/ \E h \in Handles, flt \in Filters : StartScan(h, flt)
    \/ \E h \in Handles : \/ ScanNext(h) \/ DeleteRecord(h)
                          \/ MarkScan(h) \/ ResetScan(h) \/ EndScan(h)
                          \/ InsertRecord(h) \/ Close(h)

Spec == Init /\ [][Next]_vars

(***************************************************************************)
(* Properties                                                              *)
(***************************************************************************)
HandleRec ==
    [kind : {"closed", "file", "scan", "insert"}, ok : BOOLEAN, file : Files \cup {NoFile},
     hdrNo : PageNos \cup {0}, hdrPage : Frames \cup {Null, Wild}, hdrDirty : BOOLEAN,
     curPage : Frames \cup {Null, Wild}, curPageNo : PageNos \cup {-1, 0},
     curDirty : BOOLEAN, curRec : {NULLRID} \cup (PageNos \X Slots),
     markedPageNo : PageNos \cup {-1, 0}, markedRec : {NULLRID} \cup (PageNos \X Slots),
     filter : Filters \cup {NoFilter}]

TypeOK ==
    /\ bm.desc \in [Frames -> [file : Files \cup {NoFile}, pageNo : PageNos \cup {-1, 0},
                               pinCnt : Nat, dirty : BOOLEAN, valid : BOOLEAN,
                               refbit : BOOLEAN]]
    /\ bm.hash \in [Keys -> Frames \cup {NoFrame}]
    /\ bm.alloc \in [Files -> SUBSET PageNos]
    /\ hs \in [Handles -> HandleRec]
    /\ nextId \in 1 .. MaxRecs + 1
    /\ broken \in {"none", "wild", "hang", "null"}   \* "null": set by Operators

(***************************************************************************)
(* Every heap file stays well formed (design 4.2): from the header's       *)
(* firstPage the forward pointers reach lastPage after exactly pageCnt     *)
(* distinct allocated pages, and recCnt is the number of records on them.  *)
(* insertRecord's page linking and deleteRecord's count, through the       *)
(* dirty flags the handles pass to unPinPage and the evictions of the      *)
(* pool, all have to agree for this to hold.                               *)
(***************************************************************************)
HeapConsistent ==
    \A f \in Files :
        LET hdr == HeaderOf(f)  c == Chain(f) IN
        /\ Len(c) = hdr.pageCnt
        /\ Len(c) > 0 /\ c[Len(c)] = hdr.lastPage
        /\ Range(c) \subseteq bm.alloc[f]
        /\ IsInjective(c)
        /\ hdr.recCnt = Cardinality(RecordSlots(f))

(***************************************************************************)
(* Every pin in the pool belongs to exactly one pointer member of an open  *)
(* heap-file object, and each such pointer still designates the page the *)
(* object believes it has (design 5: callers pair every fetch with one    *)
(* unpin; the destructor unpins only what was fetched).                    *)
(***************************************************************************)
Holders(fr) ==
    {<<h, m>> \in Handles \X {"hdrPage", "curPage"} :
        hs[h].kind # "closed" /\ hs[h][m] = fr}

HandlePins ==
    /\ \A fr \in Frames : bm.desc[fr].valid => bm.desc[fr].pinCnt = Cardinality(Holders(fr))
    /\ \A h \in Handles : hs[h].kind # "closed" =>
          /\ hs[h].hdrPage \in Frames =>
                 KeyOf(bm.desc[hs[h].hdrPage]) = <<hs[h].file, hs[h].hdrNo>>
          /\ hs[h].curPage \in Frames =>
                 KeyOf(bm.desc[hs[h].curPage]) = <<hs[h].file, hs[h].curPageNo>>

(***************************************************************************)
(* A scan never returns a record twice in one pass (mark/reset rewinds the *)
(* pass to the mark), and everything it returns satisfies its predicate.  *)
(***************************************************************************)
ScanSound ==
    \A h \in Handles : hs[h].kind = "scan" =>
        /\ IsInjective(scan[h].seen)
        /\ \A i \in DOMAIN scan[h].seen : Match(hs[h].filter, scan[h].seen[i])

(***************************************************************************)
(* A pass that reaches FILEEOF has returned every record that satisfied    *)
(* the predicate when the pass began and is still in the file, whatever   *)
(* other handles inserted or deleted meanwhile.                            *)
(***************************************************************************)
ScanComplete ==
    \A h \in Handles : hs[h].kind = "scan" /\ scan[h].eof =>
        scan[h].start \cap Records(hs[h].file) \subseteq Range(scan[h].seen)

(***************************************************************************)
(* A record getRecord(rid) returns with OK is the record the file holds   *)
(* at rid: the cursor frame it reads is still rid's page, however the     *)
(* pool has evicted and reused frames since the cursor was set.            *)
(***************************************************************************)
GetRecordFresh == \A h \in Handles : scan[h].got # <<>> => scan[h].got[1] = scan[h].got[2]

(***************************************************************************)
(* No member is used before the constructor assigned it, and scanNext     *)
(* always returns.                                                         *)
(***************************************************************************)
NoUndefinedBehaviour == broken = "none"

=============================================================================
