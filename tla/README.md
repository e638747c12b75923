# TLA+ models of the Minirel storage core

These modules model the buffer manager (`src/Buffer Manager/code/buf.C`), the
heap-file layer (`src/Heapfile Manager/code/heapfile.C`) and the relational
operators (`src/Operator/code/*.C` and their `G11/` variants) that drive them.
Every action and operator is translated from the source. Collaborators that are
not in `src/` are modelled from `spec.md` and marked `spec_modelled` in
`PROJECT.json`. These collaborators are the File layer, the hash table, the
`BufDesc` methods, `Page` and `FileHdrPage`.

## The system

- **File** (external). Page numbers are allocated per file, with contents on
  disk. `readPage` and `writePage` can fail.
- **BufMgr** (buf.C) owns a fixed pool of `NumBufs` frames, their descriptors
  and the index `(file, page) -> frame`.
  - `readPage` pins a page; a miss takes a frame from the clock (`allocBuf`).
  - `unPinPage` releases a pin and ors in the dirty bit.
  - `allocPage`, `disposePage`, `flushFile` and the destructor complete the
    interface.
- **HeapFile / HeapFileScan / InsertFileScan** (heapfile.C).
  - A heap file is a header page plus a chain of data pages.
  - Each object pins the header for its lifetime and one data page (the
    cursor) at a time, through raw `Page*` members pointing into the pool.
  - Several objects can be open at once, and their calls interleave: for
    example ScanSelect's scan of the relation and its insert scan of the
    result, or two operators on one relation.
  - All of them share the one pool, so one object's missing or extra
    unpin is another object's lost pin.
- **Operators** (insert.C, delete.C, select.C).
  - `QU_Insert` constructs an `InsertFileScan` and inserts into it, whatever
    the constructor returned.
  - `QU_Delete` scans the relation and deletes every record the scan returns.
  - `ScanSelect` scans one relation and inserts into another.
  - Before these calls, `QU_Insert` assembles its record from the caller's
    attribute list in catalog order. That step is pure computation.
  - The `G11/` directory holds a second implementation of the same three
    functions. The two differ in error handling and loop bounds.

The program is single-threaded (spec section 5). The nondeterminism in the
models comes from two sources:
- the order in which callers use their objects;
- which File call fails, and the value of a member a failed constructor left
  unassigned.

## Modules

| Module | Models | State / actions |
|---|---|---|
| `BufPool` | buf.C, every method that changes state, as operators over one record `bm = [desc, hash, hand, pool, disk, alloc]` | `InitBuf`, `ClockSweep`/`ProbeLimit` (the `allocBuf` loop), `AllocBuf`, `ReadPage`, `UnPinPage`, `AllocPage`, `DisposePage`, `FlushFile`, `ShutDown`. Each returns `[st, bm, frame]`, so a heap operation chains several calls inside one step, as the C++ does. `io` injects one File failure. |
| `BufMgr` | the buffer manager driven by clients that pin, write through their pointer, and unpin | actions `Fetch`, `Write`, `Unpin`, `UnpinStray`, `NewPage`, `Dispose`, `Flush`, `Teardown`; a ghost `latest` records the last write to every page |
| `PagePool` | what the buffer manager promises: a cache of at most `NumBufs` pages that fails a fetch only when every resident page is pinned | abstract specification |
| `MCBufMgr` | BufMgr for TLC, and the refinement mapping to `PagePool` (`Pool == INSTANCE PagePool WITH res <- AbsRes, ...`) | |
| `HeapPage` | the slotted `Page` and the header page, from the design (outside src) | `PageInit`, `FirstRecord`, `NextRecord`, `InsertIntoPage`, `DeleteFromPage`, `PageGetRecord` |
| `MatchRec` | `startScan`'s parameter check and `matchRec`, with the 32-bit `int` subtraction (`Sub32`) | pure operators |
| `MCMatchRec` | `matchRec` against the comparison it stands for | |
| `HeapFile` | heapfile.C: each method as an operator returning `[st, bm, hf]`, where `hf` is the record of the object's members; actions for callers opening objects and calling methods in any order | `Open`, `StartScan`, `ScanNext`, `DeleteRecord`, `MarkScan`, `ResetScan`, `EndScan`, `InsertRecord`, `GetRecord`, `Close` |
| `MCHeapFile` | constant definitions for the heap runs | |
| `Operators` | insert.C, delete.C, select.C and their G11 versions; the state variable `variant` is the version, chosen in `Init` from the constant `Variants`, composed with `HeapFile` | `Call`, `DiskFault`, then one action per statement that calls the heap layer: `InsOpen`, `InsInsert`, `DelOpen`, `DelStart`, `DelNext`, `DelDelete`, `SelOpenRel`, `SelOpenRes`, `SelStart`, `SelNext`, `SelInsert`, `Return` |
| `MCOperators` | constant definitions for the operator runs | |
| `RecordAssembly` | `QU_Insert`'s length loop and nested copy loops, both versions | pure operators: `RecLength`, `Copy`, `FindMain` (RECURSIVE, with its `break`), `FindG11`, `FillRecord`, `Assemble`, and the reference `Reference` from the G11 header comment |
| `Projection` | `QU_Select`'s nested set-up loops and `ScanSelect`'s use of their results, both versions | pure operators: `MatchProj`/`SetUp` (the loops: record length, `projAttrDesc[]`, `searchAttr`), `SearchDescMain`/`SearchDescG11` (the search descriptor passed on), `ScanSelectUse` (the relation name, the filter's descriptor), `ProjectInto`/`Project` (the `memcpy` loop), and `ReferenceProjection` from the G11 header comment. A descriptor is a catalog index, or `Unset`, `Null`, `Wild` (G11's uninitialized `searchAttr`), `ProjFirst` (G11's `&projAttrDesc[0]`). Using an unset, NULL or wild descriptor ends evaluation with that as the status |
| `MCQuery` | every catalog of up to 3 attributes against every attribute list of up to 3 entries (QU_Insert's list, and its names as QU_Select's projection list), and every search attribute or none | constant state; the properties are invariants over the initial states, for each version by `R(v) == INSTANCE RecordAssembly WITH Variant <- v` and `P(v) == INSTANCE Projection WITH Variant <- v` |

How the code maps onto `HeapFile`:

- **Objects.** An object is a handle in `Handles`, with its C++ members in
  `hs[h]`. `Open(h, k, f, u)` runs the `HeapFile` constructor and, for
  `k = "insert"`, the `InsertFileScan` constructor after it; `k = "file"` is a
  plain `HeapFile`, whose only action is `GetRecord(h, rid)`
  (`HeapFile::getRecord`) for any rid on the file's chain. `Close(h)` runs
  the destructors.
- **Pointer members.** Each is a frame number, `Null`, or `Wild`. `Wild` is a
  member no constructor assigned.
  - When a constructor returns early after a failed `readPage`, `curPage` is
    unassigned. Its value is undefined, so the model takes either `Null` or
    `Wild` (constant `Uninit`).
  - Using a `Wild` header pointer sets `broken = "wild"`, and the model stops
    there.
- **`scanNext`** is three mutually recursive operators that follow the
  C++ loops:
  - `ScanLoop`, the `for(;;)`;
  - `NextPage`, the inner `while` that moves to the next page (its
    `readPage` answer is handled by `PinNextPage`);
  - `Examine`, which applies `matchRec`.

  The recursion has a fuel bound larger than any acyclic chain allows. If the
  fuel runs out, the C++ loop would not end, and the model records
  `broken = "hang"`.
- **Stages.** A method that makes several buffer-manager calls is split
  at each call: the call's result is the parameter of the operator for the
  code after it (for example, `OpenHeapFile` hands the header's `readPage` result to
  `PinFirstDataPage`, and `PinFirstDataPage` hands the data page's result to `OpenDone`). This keeps
  the order and early returns of the C++ and lets TLC evaluate each call once.
- **Ghost state.** `scan[h]` holds what each pass of a scan has returned
  (`seen`), the matching records when the pass began (`start`), and whether it
  reached FILEEOF.
- **Initial database.** `Init` builds it with the model's own
  `createHeapFile` and `insertRecord`, so it is a state the program produces.

How the code maps onto `Operators`:

- **Program counter.** `pc` is the statement a call is at. Each action runs one
  heap-layer call together with the C++ around it, up to the next such call:
  the status test, the early return and the loop condition. Examples:
  - `DelNext` is `scanNext` together with `while (... == OK)` and the
    `FILEEOF` test;
  - `DelDelete` is `deleteRecord` together with its status test.
- **Objects.** `owned` lists the objects the function destroys when it returns,
  in destructor order: stack objects in reverse order of construction, and the
  `HeapFileScan` that `QU_Delete` deletes. `QU_Delete`'s early return after a
  failed constructor (the `delete hfs` there is commented out), and G11's
  return after a failed catalog lookup, leak the object: `Leak(Rel)` frees the
  handle, which no later code can reach, while its pins stay in the pool. The
  caller's later calls run beside those pins.
- **Ghost state.** None of it is in `PROJECT.json`'s map, because it
  translates no code: `expect`, `Actual`, `Expected`, `Follow` here,
  `LogicalPage` and `scan` in `HeapFile`, and `Write`/`latest` in `BufMgr`.
  - `expect` holds what each file should contain according to the statuses
    returned so far.
  - `calls` counts calls up to `MaxCalls`.
  - `parity` counts statements mod 2. It exists only for the fairness condition
    below.
- **Disk faults.** `DiskFault(k)` makes a sector in `BadKeys` bad, up to
  `MaxBad` sectors. From then on `File::readPage` of that page fails. This is
  the way the File layer's I/O errors reach the operators.
- **Catalog lookup in `QU_Delete`.** A delete request carries `known`:
  whether `attrCat->getInfo` finds its attribute. When it does not,
  `LookupFailed` returns ATTRNOTFOUND; main deletes the scan first
  (delete.C:60-64), G11 returns at once (G11/delete.C:80).
- **Left out.** The other catalog lookups and argument checks ahead of the heap
  calls are not modelled, because they touch no heap or pool state. Record bytes are
  not modelled in `Operators` either: a record is its id, and a projected
  record keeps its source's id. The bytes of a projection are `Projection`'s.

## Runs

| Run | Config | Checks | Bounds | Result |
|---|---|---|---|---|
| bufmgr_safety | `MCBufMgr.cfg` | TypeOK, IndexConsistent, PinAccounting, CacheCoherent, SecondChance | 2 frames, 2 files with 2 page numbers each, 2 clients, one write per page | pass |
| bufmgr_refines_pool | `MCBufMgrRefines.cfg` | PoolSpec (`BufMgr` implements `PagePool`) | 2 frames, 1 file with 3 page numbers | pass |
| bufmgr_read_fault | `MCBufMgrReadFault.cfg` | CacheCoherent with one failed read | as bufmgr_safety | violation |
| matchrec_small | `MCMatchRecSmall.cfg` | IntegerFilterCorrect | all operators, values -3..3 | pass |
| heap_scan_insert | `MCHeapFile.cfg` | TypeOK, HeapConsistent, HandlePins, ScanSound, ScanComplete | 3 frames, 1 file, 4 page numbers, 2 slots per page, 4 records preloaded; a deleting scan (filter `= 1`), and a handle opened as a `HeapFile` (reading by rid) or as an insert scan (1 more insert) | pass |
| heap_two_scans | `MCHeapFileScans.cfg` | HandlePins, ScanSound, ScanComplete | two scans, one deleting, no predicate | pass |
| op_main | `MCOperators.cfg` | OpTypeOK, FilesAsExpected, NoOrphanPins, HeapConsistent, CallReturns | main and G11 operators (`Variants = {"main", "g11"}`); 4 frames; F with records 1..3 on two pages, G empty; 5 calls of insert, delete (`attr = 1` or none) and select, up to 6 records; no faults | pass |
| op_faults | `MCOperatorsFaults.cfg` | CallReturns | both versions; either data page of F may go bad (one at most); deletes may also name an attribute the catalog lacks; 4 calls | pass |
| op_insert_lost | `MCOperatorsInsertLost.cfg` | FilesAsExpected | inserts only, 3 frames; F's second page may go bad; 2 calls | violation |
| query | `MCQuery.cfg` | PermutationAssembled, ProjectionCorrect | both versions; 3 names, lengths 1 and 2, up to 3 attributes, NULL or not, every search attribute or none | pass |
| assembly_main_overread | `MCQueryOverread.cfg` | ListInBounds | main | violation |
| op_page_leak | `MCOperatorsPageLeak.cfg` | NoLostPages | main; one unconditional select of F into G, op_main's pool and files | violation |

The project lists at most twelve runs. The other counterexamples are kept as
configurations beside them, and each still reproduces its violation with
`tlc -config <cfg> <module>`. Their findings in `PROJECT.json` name no run.

| Counterexample | Config | Property violated | Bounds |
|---|---|---|---|
| matchrec_overflow | `MCMatchRec.cfg` | IntegerFilterCorrect | values at the ends of the int range |
| heap_double_delete | `MCHeapFileDoubleDelete.cfg` | HeapConsistent | both scans delete |
| heap_two_inserts | `MCHeapFileTwoInserts.cfg` | HeapConsistent | two insert scans, 4 frames, 5 page numbers |
| heap_ctor_failure | `MCHeapFileCtorFailure.cfg` | HandlePins | two files, 3 frames |
| heap_restart | `MCHeapFileRestart.cfg` | ScanComplete | `scanNext` after `endScan` |
| heap_insert_unchecked | `MCHeapFileUnchecked.cfg` | NoUndefinedBehaviour | two files, 2 frames |
| op_fault_cascade | `MCOperatorsFaultCascade.cfg` | NoUndefinedBehaviour | as op_faults, 4 calls |
| op_delete_leak | `MCOperatorsDeleteLeak.cfg` | NoOrphanPins | deletes only; F's first data page may go bad; 2 calls |
| op_select_truncated | `MCOperatorsSelectTruncated.cfg` | FilesAsExpected | one select; F's second page may go bad |
| op_g11_delete | `MCOperatorsG11Delete.cfg` | NoUndefinedBehaviour | one G11 delete; a data page may go bad |
| op_bad_delete | `MCOperatorsBadDelete.cfg` | FilesAsExpected | one delete with an INTEGER predicate on an 8-byte attribute |
| assembly_short | `MCQueryShort.cfg` | IncompleteRejected | main (`Variants = {"main"}`) |
| assembly_g11_overflow | `MCQueryOverflow.cfg` | RecordInBounds | G11 |
| select_undefined | `MCQueryUndefined.cfg` | SelectDefined | both versions; up to 2 attributes |
| getrecord_stale | `MCHeapFileStaleRecord.cfg` | GetRecordFresh (HandlePins fails too) | 3 frames, 5 records, two scans and a `HeapFile` |
| g11_attr_leak | `MCOperatorsG11AttrLeak.cfg` | NoOrphanPins | one G11 delete on an attribute the catalog lacks |

What the properties say:

- **IndexConsistent.** The index mirrors the descriptors.
- **PinAccounting.** Every pin is held by exactly one client.
- **CacheCoherent.**
  - A reader gets the last write.
  - A frame that differs from disk is dirty or still held by a writer.
  - After the destructor, disk holds every write.
- **SecondChance** (an action property). A frame whose refbit was set when a
  sweep began is taken only if no other frame was free when the sweep began.
- **HeapConsistent.**
  - From `firstPage`, the chain reaches `lastPage` after exactly `pageCnt`
    distinct allocated pages.
  - `recCnt` is the number of records on those pages.
  - This is read through the pool, so that the pages a reader would get are the
    ones checked.
- **HandlePins.**
  - Every frame's `pinCnt` is the number of pointer members of open objects
    that name it.
  - Each such pointer holds the page its object believes it holds.
- **ScanSound.** A pass never returns a record twice, and never returns a
  record that fails its predicate.
- **ScanComplete.** A pass that reaches FILEEOF has returned every record that
  matched when it began and is still in the file.
- **GetRecordFresh.** A record `getRecord(rid)` returns with OK is the record
  the file holds at `rid`, however the pool has evicted and reused frames
  since the object's cursor was set. It is checked only by
  `MCHeapFileStaleRecord.cfg`, where it fails. In heap_scan_insert's bounds
  (two objects, three frames) the `readPage` in `getRecord` always finds a
  free frame, so the case never arises and the property would add nothing to
  HandlePins.
- **FilesAsExpected.** Between calls, each file holds what the calls' statuses
  promise. A call that returned OK did exactly its work, and that work
  survives later calls, evictions and write-backs.
- **NoOrphanPins.** Between calls, no frame is pinned.
- **CallReturns** (liveness). Every call returns, or it stops on undefined
  behaviour.
- **NoUndefinedBehaviour.** No step dereferences a NULL or unassigned
  pointer, and no loop fails to end. Only the counterexample configurations
  check it: every bound where a fault can reach a dereference (G11 with a bad
  sector, or four calls of main) does reach one, so a passing run would pass
  only because its bound keeps the faults away.
- **PermutationAssembled.** A list that names each attribute exactly once, in
  any order, is assembled into the record the reference gives.
- **IncompleteRejected.** A list that does not name each attribute exactly once
  is not inserted.
- **RecordInBounds** and **ListInBounds.** No memcpy writes past the record,
  and no read goes past `attrList`.

Why the bounds are enough:

- **Pool pressure.** Three frames against two objects, each pinning a header
  and a cursor, put the pool under pressure. With that:
  - an insert's third pin can fail;
  - a cursor move evicts a page;
  - dirty pages are written back.
- **Chain shape.** Two slots per page and four preloaded records give a
  two-page chain that a fifth insert extends. This covers a page end, a chain
  hop and a page append.
- **Action coverage.** Every action and every failure branch named in the map
  fires in the passing runs. This was checked by asking TLC for a state where
  each one is enabled.
- **Symmetry.** Clients and files are symmetric in the BufMgr runs. The heap
  runs use no symmetry, because the handles play different roles.
- **Operator runs.**
  - F's three records on two data pages, with a two-slot page, let a select
    or delete cross a page and let an insert append a page.
  - Five calls, with up to six records, are enough for every pair of
    operators to run in sequence with an insert in between, and for a select
    to copy into a result file that already spans pages (414,737 states,
    about a minute).
  - With faults, op_faults makes 4 calls of both versions (455,108 states,
    under a minute). That reaches the cascade op_fault_cascade reports and
    G11's NULL `deleteRecord`; CallReturns counts a stop on undefined
    behaviour as an end, and checks that no loop misses its error exit.
- **Query runs.** Three attribute names are enough to give every
  permutation, a duplicate and an omission. Two lengths are enough to make
  misplaced bytes visible, and to give attributes offsets that differ from
  their positions. A search attribute of every name, or none, reaches both
  descriptor branches of each version.

Fairness:

- **Heap and buffer runs: none.** Their callers decide what to call next, and
  nothing obliges a caller to keep scanning or to close an object.
- **Operator runs.** A running operator function keeps executing statements
  until it returns. The program is single-threaded, so nothing else can take
  its place.
  - `Busy` (`pc # "idle"` and not stopped) is exactly the condition under
    which some statement is enabled, because every statement's guard is `pc`
    and `broken` only.
  - `Progress == <>[]Busy => []<><<Step /\ Follow>>_allVars` is therefore weak
    fairness of the statements, with the enabling condition written out.
    TLC does not cache `ENABLED`, and for these steps its evaluation is
    expensive: `WF_allVars(Step /\ Follow)`, the same on `QU_Delete`'s
    statements alone, and weak fairness on `Step` over the variables it
    changes each ran past five minutes on op_main's bounds, against seconds
    for the `Progress` form; so did `WF_allVars(Busy /\ OpNext)`, which
    restricts the fair action to the function's own statements (stopped
    after ten minutes). (`WF_allVars(Step)` alone is not usable: `Step`
    leaves the ghost variables to `Follow`.)
  - `parity` makes a statement that repeats forever (a loop that does not
    exit) a real change of state, so a non-terminating loop violates
    `CallReturns` rather than stuttering.
- **Caller.** No fairness is assumed for the caller. It may stop after any
  call, so the operator runs say `CHECK_DEADLOCK FALSE`.

## Findings

- **bufmgr_read_fault** (buf.C:206, :134). A failed `File::readPage` leaves the
  victim's descriptor valid under its old page, after its index entry was
  removed.
  - Once that page is fetched into another frame, evicting the stale frame
    removes the live index entry.
  - A client's write then no longer reaches readers.
- **matchrec_overflow** (heapfile.C:502). `diff = iattr - ifltr` is an `int`
  subtraction and overflows. For example, `-2^31 < 1` is reported false.
- **heap_double_delete** (heapfile.C:468). `deleteRecord` decrements `recCnt`
  even when the slot was already empty, so two scans deleting one record leave
  the count too low.
- **heap_two_inserts** (heapfile.C:627). `insertRecord` links its own cursor
  page, which another insert scan may already have extended. The other scan's
  new page drops out of the chain.
- **heap_ctor_failure** (heapfile.C:149-155, :169). After a failed read of the
  first data page, `curPage` is unassigned.
  - The destructor unpins `curPageNo` anyway.
  - Once another object has pinned that page, the destructor takes that
    object's pin.
  - The design says the destructor unpins only what was fetched.
- **heap_restart** (heapfile.C:369). After `endScan`, `scanNext` restarts at
  the first page and returns FILEEOF if that page is empty, even when later
  pages hold records. The design's `BeforeStart` state says the same, so this
  is a gap in the design.
- **heap_insert_unchecked** (insert.C:99). `QU_Insert` inserts through an
  `InsertFileScan` whose constructor failed on a full pool. The result is a
  dereference of an unassigned header pointer.

- **op_delete_leak** (delete.C:53; also G11/delete.C:54). The
  `HeapFileScan` constructor can fail on the first data page. `QU_Delete` then
  returns without `delete hfs`, so the header page stays pinned for good.
- **op_bad_delete** (delete.C:88). `startScan`'s status is ignored.
  - Take a predicate that `startScan` rejects, such as an INTEGER on an 8-byte
    attribute.
  - The scan stays unfiltered, so every record is deleted.
  - `QU_Delete` returns OK.
- **op_select_truncated** (select.C:190). The loop ends on any `scanNext`
  status that is not OK, and the function returns OK.
  - If the read of the second page fails, the result holds only the first
    page's matches.
  - In the counterexample, G holds {1} instead of {1, 3}.
- **op_g11_delete** (G11/delete.C:94). The loop breaks only on FILEEOF. After
  an I/O error it calls `deleteRecord`, which dereferences a NULL `curPage`.
- **op_insert_lost** (heapfile.C:547, insert.C:97-99). The steps are:
  1. The `InsertFileScan` constructor fails to read the last page. `curPage`
     is left on the unpinned frame of page 2.
  2. `QU_Insert` ignores the status. `insertRecord` links a new page from that
     stale frame, does not mark it dirty, and fails on the unpin.
  3. A later `QU_Insert` returns OK with its record on the new page.
  4. The chain no longer reaches that page, because page 2 on disk still
     points to page 3.
- **op_fault_cascade** (buf.C:206 and :134, heapfile.C:541). One failed read
  escalates:
  1. The failed read leaves a valid frame with no index entry.
  2. Evicting that frame removes the index entry of the page's live copy.
  3. The unpin of that page then fails with HASHNOTFOUND, so its pin leaks.
  4. Leaked pins fill the pool.
  5. `ScanSelect`'s `InsertFileScan` constructor fails on the header. It then
     reads `headerPage->lastPage` through an unassigned pointer.
- **assembly_short** (insert.C:66, :77). The record length is summed over the
  caller's `attrCnt` attributes, so an incomplete list is inserted as a short
  record. In the counterexample, the catalog is `<<n1>>` and the list is
  empty. The G11 header comment (G11/insert.C:44) says to reject the insertion.
- **assembly_g11_overflow** (G11/insert.C:117). The inner loop has no `break`.
  A name given twice is copied twice, and the second copy writes past the
  record.
- **op_page_leak** (buf.C:292, heapfile.C:607). `BufMgr::allocPage` calls
  `File::allocatePage` and then returns `allocBuf`'s BUFFEREXCEEDED without
  giving the page number back.
  - An unconditional select of F into G holds F's header, F's cursor page,
    G's header and G's last page pinned, all four frames.
  - G's third record needs a new page; `allocPage` fails after page 3 was
    allocated, and `insertRecord` passes the error up.
  - G's file now has page 3 allocated and on no chain, for good.
- **select_undefined** (select.C:101-107, :133, :157; G11/select.C:74, :107,
  :146). `QU_Select` does not check that its loops matched every name.
  - Main: an unknown search attribute leaves `searchAttrDesc` NULL, and
    `ScanSelect` reads `attrDesc->attrType` once a filter is given.
  - G11: `searchAttr` is never initialized, so an unknown search attribute
    indexes `attrDesc` with an indeterminate value.
  - Both: an unknown projected name leaves its `projAttrDesc[j]`
    uninitialized. For `j = 0` that is the relation name the scan opens;
    otherwise `memcpy` copies from an indeterminate offset and length.
  - The header says an error code is returned otherwise.
- **assembly_main_overread** (insert.C:79-80). The inner loop runs to
  `allAttrCnt`. When an attribute is missing from the list, it reads
  `attrList` past `attrCnt`.

- **getrecord_stale** (heapfile.C:238-240). `HeapFile::getRecord` unpins the
  cursor page, then returns on a failed `readPage` with `curPage` and
  `curPageNo` still naming the page it unpinned. The failed-unpin path just
  above (lines 227-232) resets them.
  - Two scans fill the pool so the read fails; the frame is then reused for
    another data page.
  - `getRecord` of a rid on the old page number finds `rid.pageNo ==
    curPageNo`, reads the reused frame, and returns another page's record
    with OK.
  - The destructor unpins the old page again (HandlePins).
- **g11_attr_leak** (G11/delete.C:80). When `attrCat->getInfo` fails, G11
  `QU_Delete` returns without `delete hfs`. The header page and the first data
  page stay pinned after the call. Main deletes `hfs` first (delete.C:60-64).

## Not modelled, and plan

- **Operator details.**
  - `select.C` does not compile as written: there are `#include` lines inside
    `ScanSelect`'s parameter list. It is modelled as evidently intended.
  - `QU_Select` touches no heap or pool state before `ScanSelect`, so it has
    no action in `Operators`; its loops are `Projection`'s operators.
  - Of the catalog errors, only `QU_Delete`'s `attrCat->getInfo` failure is
    modelled; the others are returned before any heap call.
  - The string conversions are not modelled: `atoi`/`atof`, and `memcpy` of
    a string attribute shorter than `attrLen`.
  - The filter pointers to dead block-scoped locals (delete.C:69-70,
    G11/select.C:149-150) are passed by value, which is how the build behaves
    in practice.
- **Other operations and data.**
  - `destroyHeapFile` and `createHeapFile` of an existing file are not
    modelled. Files are created only for the initial database, on an empty
    pool, so `createHeapFile`'s return after a failed `allocPage` of the first
    data page (heapfile.C:68), which leaves the header pinned and its chain
    fields unset, is not reached: nothing in src creates a file while
    operators hold pins.
  - Neither is `INVALIDRECLEN`: records are ids, and every record fits.
  - Float and string predicates are not modelled; they keep the sign of the
    true difference.
  - File open and close have no effect on the pool and are left out.
- **Catalog.** The catalog is not in the source tree.
