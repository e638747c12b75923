----------------------------- MODULE Operators -----------------------------
(***************************************************************************)
(* The relational operators of src/Operator/code over the heap-file layer: *)
(* QU_Insert, QU_Delete and ScanSelect, in the main version (variant =     *)
(* "main") and the G11 version (variant = "g11").  The program is single  *)
(* threaded: a caller makes a bounded number of calls, one after another, *)
(* and each call runs its statements in order (pc) until it returns.       *)
(*                                                                         *)
(* An operator's objects are the handles Rel (the relation's HeapFileScan  *)
(* or InsertFileScan) and Res (ScanSelect's InsertFileScan on the result). *)
(* owned lists the objects the function destroys when it returns, in      *)
(* order: its stack objects in reverse order of construction, and the      *)
(* HeapFileScan QU_Delete deletes.  The catalog lookups and the record     *)
(* formatting that precede the heap calls are left out: they make no       *)
(* heap-file or buffer call (QU_Insert's formatting is RecordAssembly).    *)
(*                                                                         *)
(* A disk sector may go bad at any time (DiskFault): File::readPage fails *)
(* on it from then on.  expect is the ghost contents every file should     *)
(* have from what the calls returned.                                      *)
(***************************************************************************)
EXTENDS HeapFile

CONSTANTS
    Variants,   \* the versions to check: \subseteq {"main", "g11"}
    Rel, Res,   \* the two object handles
    Ops,        \* the operators the caller calls: \subseteq {"insert", "delete", "select"}
    DelReqs,    \* QU_Delete requests: [flt, type, len, known] (len: the attribute's
                \* catalog length; known: the catalog has the attribute)
    SelFilters, \* ScanSelect predicates (from the catalog, so well formed)
    MaxCalls,   \* calls the caller makes
    BadKeys,    \* pages whose sector may go bad
    MaxBad      \* bad sectors at most

ASSUME Variants \subseteq {"main", "g11"} /\ Handles = {Rel, Res} /\ Rel # Res
ASSUME BadKeys \subseteq Keys /\ MaxBad \in Nat /\ MaxCalls \in Nat

VARIABLES pc, call, st, owned, expect, calls,
          parity,  \* statements the current call has executed, mod 2
          variant  \* the version of the operators the program was built with

opVars  == <<pc, call, st, owned, expect, calls, parity, variant>>
allVars == <<bm, hs, scan, nextId, broken, pc, call, st, owned, expect, calls, parity, variant>>

NoCall == [op |-> "none", rel |-> NoFile, res |-> NoFile, flt |-> NoFilter, valid |-> TRUE,
           known |-> TRUE]

(***************************************************************************)
(* The calls.  A QU_Delete predicate is passed to startScan with the type  *)
(* the caller gave and the attribute's catalog offset and length; valid is *)
(* whether startScan accepts it.  Without an attribute name startScan gets *)
(* a NULL filter and accepts.                                              *)
(***************************************************************************)
Calls ==
    [op : {"insert"}, rel : Files, res : {NoFile}, flt : {NoFilter}, valid : {TRUE},
     known : {TRUE}]
    \cup {[op |-> "delete", rel |-> f, res |-> NoFile, flt |-> q.flt,
           valid |-> q.flt = NoFilter \/ ValidScanParams(0, q.len, q.type, q.flt.op),
           known |-> q.known] :
          f \in Files, q \in DelReqs}
    \cup {c \in [op : {"select"}, rel : Files, res : Files, flt : SelFilters, valid : {TRUE},
                 known : {TRUE}] :
          c.rel # c.res}

\* The records a call selects from expect: everything without a predicate,
\* nothing for a predicate startScan rejects.
Selected(c) ==
    IF c.flt = NoFilter THEN expect[c.rel]
    ELSE IF ~c.valid THEN {}
    ELSE {r \in expect[c.rel] : Match(c.flt, r)}

\* what the files should hold after call c returned OK
Expected(c) ==
    CASE c.op = "insert" -> [expect EXCEPT ![c.rel] = @ \cup {nextId - 1}]
      [] c.op = "delete" -> [expect EXCEPT ![c.rel] = @ \ Selected(c)]
      [] c.op = "select" -> [expect EXCEPT ![c.res] = @ \cup Selected(c)]

Actual == [f \in Files |-> Records(f)]

OpInit ==
    /\ Init
    /\ pc = "idle" /\ call = NoCall /\ st = "OK" /\ owned = <<>> /\ calls = 0 /\ parity = 0
    /\ variant \in Variants
    /\ expect = [f \in Files |-> {InitRecs[f][i] : i \in DOMAIN InitRecs[f]}]

(***************************************************************************)
(* The caller makes its next call; a sector goes bad.                      *)
(***************************************************************************)
Call(c) ==
    /\ pc = "idle" /\ broken = "none" /\ calls < MaxCalls
    /\ \A h \in Handles : hs[h].kind = "closed"
    /\ c.op \in Ops
    /\ c.op = "insert" => nextId <= MaxRecs
    /\ call' = c /\ calls' = calls + 1 /\ parity' = 0
    /\ pc' = CASE c.op = "insert" -> "ins_open"
               [] c.op = "delete" -> "del_open"
               [] c.op = "select" -> IF variant = "g11" THEN "sel_open_res" ELSE "sel_open_rel"
    /\ UNCHANGED <<bm, hs, scan, nextId, broken, st, owned, expect, variant>>

DiskFault(k) ==
    /\ Cardinality(bm.bad) < MaxBad /\ k \notin bm.bad
    /\ bm' = [bm EXCEPT !.bad = @ \cup {k}]
    /\ UNCHANGED <<hs, scan, nextId, broken>> /\ UNCHANGED opVars

(***************************************************************************)
(* QU_Insert: InsertFileScan ifs(relation, status); its status is          *)
(* overwritten by insertRecord's.                                          *)
(***************************************************************************)
InsOpen ==
    /\ pc = "ins_open"
    /\ \E u \in Uninit : Opened(Rel, "insert", OpenHeapFile(bm, call.rel, u))
    /\ pc' = "ins_insert" /\ owned' = <<Rel>>
    /\ UNCHANGED <<scan, nextId, call, st, calls>>

InsInserted(o) == InsertRecordDone(Rel, o) /\ st' = o.st /\ UNCHANGED broken

InsInsert ==
    /\ pc = "ins_insert" /\ broken = "none"
    /\ nextId' = nextId + 1
    /\ IF InsertReadsWild(hs[Rel])
       THEN broken' = "wild" /\ UNCHANGED <<bm, hs, st>>
       ELSE InsInserted(InsertRecordOp(bm, hs[Rel], nextId))
    /\ pc' = "ret"
    /\ UNCHANGED <<scan, call, owned, calls>>

(***************************************************************************)
(* QU_Delete: new HeapFileScan; on a failed constructor return its status *)
(* (the object is not deleted: it is leaked with its pins, and the next    *)
(* call uses a fresh object); startScan, its status ignored; then the     *)
(* scanNext / deleteRecord loop.                                           *)
(***************************************************************************)
\* An object the function neither deletes nor keeps a pointer to: no later
\* call can reach it, and its pins stay held.
Leak(h) == hs' = [hs EXCEPT ![h] = Closed]

DelOpened(o) ==
    IF o.st # "OK"
    THEN /\ bm' = o.bm /\ Leak(Rel) /\ UNCHANGED broken
         /\ pc' = "idle" /\ st' = o.st /\ owned' = <<>>
    ELSE /\ Become(Rel, "scan", o)
         /\ pc' = "del_start" /\ UNCHANGED st /\ owned' = <<Rel>>

DelOpen ==
    /\ pc = "del_open" /\ broken = "none"
    /\ \E u \in Uninit : DelOpened(OpenHeapFile(bm, call.rel, u))
    /\ UNCHANGED <<scan, nextId, call, calls>>

\* startScan: a rejected predicate leaves the constructor's NULL filter
StartScanOp(hf, c) ==
    IF c.flt # NoFilter /\ c.valid THEN [hf EXCEPT !.filter = c.flt] ELSE hf

\* attrCat->getInfo found no such attribute: main deletes hfs and returns
\* the status; G11 returns it at once, leaving hfs and its pins behind
LookupFailed ==
    /\ st' = "ATTRNOTFOUND"
    /\ IF variant = "g11" THEN pc' = "idle" /\ owned' = <<>> /\ Leak(Rel)
       ELSE pc' = "ret" /\ UNCHANGED <<owned, hs>>

\* with a predicate, the catalog lookup of its attribute, then startScan
DelStart ==
    /\ pc = "del_start"
    /\ IF call.flt # NoFilter /\ ~call.known THEN LookupFailed
       ELSE /\ hs' = [hs EXCEPT ![Rel] = StartScanOp(@, call)]
            /\ pc' = "del_next"
            /\ UNCHANGED <<st, owned>>
    /\ UNCHANGED <<bm, scan, nextId, broken, call, calls>>

\* Mutant: FILEEOF does not end the loop.
DelScannedNoBreak(o) ==
    /\ bm' = o.bm /\ hs' = [hs EXCEPT ![Rel] = o.hf]
    /\ broken' = IF o.st = "HANG" THEN "hang" ELSE broken
    /\ st' = IF o.st = "FILEEOF" THEN "OK" ELSE o.st
    /\ pc' = CASE o.st = "OK"      -> "del_delete"
               [] o.st = "FILEEOF" -> "del_next"
               [] OTHER            -> IF variant = "g11" THEN "del_delete" ELSE "ret"

\* Mutant: the loop runs until FILEEOF, deleting after any other status.
DelScannedUntilEOF(o) ==
    /\ bm' = o.bm /\ hs' = [hs EXCEPT ![Rel] = o.hf]
    /\ broken' = IF o.st = "HANG" THEN "hang" ELSE broken
    /\ st' = IF o.st = "FILEEOF" THEN "OK" ELSE o.st
    /\ pc' = IF o.st = "FILEEOF" THEN "ret" ELSE "del_delete"

\* main: loop while scanNext is OK, return its status unless FILEEOF;
\* g11: deleteRecord after any status but FILEEOF, then leave the loop
DelScanned(o) ==
    /\ bm' = o.bm /\ hs' = [hs EXCEPT ![Rel] = o.hf]
    /\ broken' = IF o.st = "HANG" THEN "hang" ELSE broken
    /\ st' = IF o.st = "FILEEOF" THEN "OK" ELSE o.st
    /\ pc' = CASE o.st = "OK"      -> "del_delete"
               [] o.st = "FILEEOF" -> "ret"
               [] OTHER            -> IF variant = "g11" THEN "del_delete" ELSE "ret"

DelNext ==
    /\ pc = "del_next" /\ broken = "none"
    /\ DelScanned(ScanNextOp(bm, hs[Rel]))
    /\ UNCHANGED <<scan, nextId, call, owned, calls>>

\* Mutant: the loop stops after the first deletion.
DelDeletedStops(o) ==
    /\ bm' = o.bm /\ hs' = [hs EXCEPT ![Rel] = o.hf]
    /\ st' = o.st /\ pc' = "ret"

\* main: a failed deleteRecord returns its status; g11 ignores it and loops
\* while the scanNext status was OK
DelDeleted(o) ==
    /\ bm' = o.bm /\ hs' = [hs EXCEPT ![Rel] = o.hf]
    /\ IF variant = "g11"
       THEN UNCHANGED st /\ pc' = IF st = "OK" THEN "del_next" ELSE "ret"
       ELSE st' = o.st /\ pc' = IF o.st = "OK" THEN "del_next" ELSE "ret"

\* deleteRecord dereferences curPage: NULL after a failed scanNext
DelDelete ==
    /\ pc = "del_delete" /\ broken = "none"
    /\ IF hs[Rel].curPage \notin Frames
       THEN broken' = "null" /\ UNCHANGED <<bm, hs, st, pc>>
       ELSE DelDeleted(DeleteRecordOp(bm, hs[Rel])) /\ UNCHANGED broken
    /\ UNCHANGED <<scan, nextId, call, owned, calls>>

(***************************************************************************)
(* ScanSelect: construct HeapFileScan relFile and InsertFileScan           *)
(* resultFile (main: relFile first; g11: resultFile first), returning a    *)
(* failed constructor's status; startScan; then copy every record          *)
(* scanNext returns into the result until scanNext is not OK, and return  *)
(* OK.  A projected record keeps the id of its source record.              *)
(***************************************************************************)
AfterOpen(h) ==
    CASE variant = "main" /\ h = Rel -> "sel_open_res"
      [] variant = "g11" /\ h = Res  -> "sel_open_rel"
      [] OTHER                       -> "sel_start"

SelOpened(h, k, i) ==
    /\ Become(h, k, i)
    /\ owned' = <<h>> \o owned
    /\ st' = i.st
    /\ pc' = IF i.st = "OK" THEN AfterOpen(h) ELSE "ret"

SelOpenRel ==
    /\ pc = "sel_open_rel" /\ broken = "none"
    /\ \E u \in Uninit : SelOpened(Rel, "scan", OpenHeapFile(bm, call.rel, u))
    /\ UNCHANGED <<scan, nextId, call, calls>>

\* the InsertFileScan constructor after the HeapFile one (o) returned
SelResOpened(o) ==
    IF InsertCtorReadsWild(o)
    THEN /\ bm' = o.bm /\ broken' = "wild"
         /\ hs' = [hs EXCEPT ![Res] = [o.hf EXCEPT !.kind = "insert"]]
         /\ UNCHANGED <<pc, st, owned>>
    ELSE SelOpened(Res, "insert", InsertFileScanCtor(o))

SelOpenRes ==
    /\ pc = "sel_open_res" /\ broken = "none"
    /\ \E u \in Uninit : SelResOpened(OpenHeapFile(bm, call.res, u))
    /\ UNCHANGED <<scan, nextId, call, calls>>

\* startScan of a catalog predicate is accepted, and its status is OK
SelStart ==
    /\ pc = "sel_start"
    /\ hs' = [hs EXCEPT ![Rel] = StartScanOp(@, call)]
    /\ pc' = "sel_next"
    /\ UNCHANGED <<bm, scan, nextId, broken, call, st, owned, calls>>

SelScanned(o) ==
    /\ bm' = o.bm /\ hs' = [hs EXCEPT ![Rel] = o.hf]
    /\ broken' = IF o.st = "HANG" THEN "hang" ELSE broken
    /\ pc' = IF o.st = "OK" THEN "sel_insert" ELSE "ret"

SelNext ==
    /\ pc = "sel_next" /\ broken = "none"
    /\ SelScanned(ScanNextOp(bm, hs[Rel]))
    /\ UNCHANGED <<scan, nextId, call, st, owned, calls>>

SelInserted(o) ==
    /\ bm' = o.bm /\ hs' = [hs EXCEPT ![Res] = o.hf]
    /\ IF o.st = "OK" THEN pc' = "sel_next" /\ UNCHANGED st
       ELSE pc' = "ret" /\ st' = o.st

\* getRecord, then insertRecord of the projection into the result
SelInsert ==
    /\ pc = "sel_insert" /\ broken = "none"
    /\ SelInserted(InsertRecordOp(bm, hs[Res], RecAt(bm, hs[Rel])))
    /\ UNCHANGED <<scan, nextId, broken, call, owned, calls>>

(***************************************************************************)
(* Return: the destructors of owned run; G11's QU_Delete returns OK.       *)
(* expect takes the call's effect if it returned OK, and what the files   *)
(* hold if it failed (a failed call may have done part of its work).       *)
(***************************************************************************)
Destroy(b, hf) == IF hf.kind = "insert" THEN InsertFileScanDtor(b, hf) ELSE HeapFileDtor(b, hf)

\* Mutant: only the first object is destroyed.
DestroyFirstOnly(b, hseq) == IF hseq = <<>> THEN b ELSE Destroy(b, hs[Head(hseq)])

RECURSIVE DestroyAll(_, _)
DestroyAll(b, hseq) ==
    IF hseq = <<>> THEN b ELSE DestroyAll(Destroy(b, hs[Head(hseq)]), Tail(hseq))

RetStatus == IF variant = "g11" /\ call.op = "delete" THEN "OK" ELSE st

Return ==
    /\ pc = "ret" /\ broken = "none"
    /\ bm' = DestroyAll(bm, owned)
    /\ hs' = [h \in Handles |-> IF h \in Range(owned) THEN Closed ELSE hs[h]]
    /\ pc' = "idle" /\ owned' = <<>> /\ st' = RetStatus
    /\ UNCHANGED <<scan, nextId, broken, call, calls>>

Step ==
    \/ InsOpen \/ InsInsert
    \/ DelOpen \/ DelStart \/ DelNext \/ DelDelete
    \/ SelOpenRel \/ SelOpenRes \/ SelStart \/ SelNext \/ SelInsert
    \/ Return

\* expect follows a call when it is back at "idle"; every statement counts
Follow ==
    /\ expect' = IF pc' # "idle" THEN expect
                 ELSE IF st' = "OK" THEN Expected(call) ELSE Actual'
    /\ parity' = IF pc' = "idle" THEN 0 ELSE 1 - parity
    /\ UNCHANGED variant

\* Step /\ Follow, one statement per disjunct
OpNext ==
    \/ \E c \in Calls : Call(c)
    \/ \E k \in BadKeys : DiskFault(k)
    \/ InsOpen /\ Follow
    \/ InsInsert /\ Follow
    \/ DelOpen /\ Follow
    \/ DelStart /\ Follow
    \/ DelNext /\ Follow
    \/ DelDelete /\ Follow
    \/ SelOpenRel /\ Follow
    \/ SelOpenRes /\ Follow
    \/ SelStart /\ Follow
    \/ SelNext /\ Follow
    \/ SelInsert /\ Follow
    \/ Return /\ Follow

(***************************************************************************)
(* The program runs each call to completion: while a call has not         *)
(* returned, its next statement executes (design 5: single threaded, no   *)
(* suspension points).  Nothing obliges the caller to make another call,  *)
(* and disks fail when they will.  A call is Busy until it returns or     *)
(* stops on undefined behaviour, and in every Busy state the statement at  *)
(* pc has a step (each guard is pc and broken alone), so Progress is weak  *)
(* fairness of Step with its enabling condition written out; parity makes *)
(* a statement that changes nothing else a step all the same.             *)
(***************************************************************************)
Busy == pc # "idle" /\ broken = "none"

Progress == <>[]Busy => []<><<Step /\ Follow>>_allVars

OpSpec == OpInit /\ [][OpNext]_allVars /\ Progress

(***************************************************************************)
(* Properties                                                              *)
(***************************************************************************)
Labels == {"idle", "ins_open", "ins_insert", "del_open", "del_start", "del_next",
           "del_delete", "sel_open_rel", "sel_open_res", "sel_start", "sel_next",
           "sel_insert", "ret"}

OpTypeOK ==
    /\ TypeOK
    /\ pc \in Labels
    /\ call \in Calls \cup {NoCall}
    /\ owned \in UNION {[1 .. n -> Handles] : n \in 0 .. 2}
    /\ expect \in [Files -> SUBSET RecIds]
    /\ bm.bad \subseteq BadKeys
    /\ calls \in 0 .. MaxCalls
    /\ parity \in {0, 1}
    /\ variant \in Variants

(***************************************************************************)
(* Between calls every file holds what the calls so far promised: a call  *)
(* that returned OK did all of its work (QU_Insert added its record,       *)
(* QU_Delete removed exactly the records its predicate selects, and       *)
(* ScanSelect copied exactly those into the result), and that work stays  *)
(* done through later calls, evictions and write-backs.  A call that       *)
(* returned an error promises nothing.                                     *)
(***************************************************************************)
FilesAsExpected == pc = "idle" => Actual = expect

(***************************************************************************)
(* When no call is running no frame is pinned: every operator pairs each  *)
(* fetch with an unpin on every path, including its error returns (design *)
(* 8: no permanently pinned orphan frames).                                *)
(***************************************************************************)
NoOrphanPins == pc = "idle" => \A fr \in Frames : bm.desc[fr].pinCnt = 0

(***************************************************************************)
(* When no call is running every page a heap file has allocated is its    *)
(* header page or on its page chain: insertRecord's allocPage of a new    *)
(* data page either links the page in or gives its number back.  (spec:   *)
(* a file's pages are its header page and the linked list of data pages.)  *)
(***************************************************************************)
NoLostPages ==
    pc = "idle" => \A f \in Files : bm.alloc[f] = {FirstPageNo(bm, f)} \cup Range(Chain(f))

(***************************************************************************)
(* Every call returns, or stops the program on undefined behaviour: no    *)
(* operator loop runs forever.                                             *)
(***************************************************************************)
CallReturns == (pc # "idle") ~> (pc = "idle" \/ broken # "none")

====
