----------------------------- MODULE HeapPage -----------------------------
(***************************************************************************)
(* The page images heapfile.C works on.  The slotted data page (class     *)
(* Page) and the header page (FileHdrPage) are declared outside the source *)
(* tree; they are modelled from the design: a data page is a forward       *)
(* pointer (-1 ends the chain) and a slotted record area, a header page    *)
(* holds recCnt, pageCnt, firstPage and lastPage.                          *)
(*                                                                         *)
(* A frame holds bytes, not a typed page, so every image is one record    *)
(* with the fields of both layouts: a header uses the first four, a data   *)
(* page next and slots, and initialising one layout leaves the other's     *)
(* fields as they were.  A record is a model value (a record id); the      *)
(* slot area is Cap slots, a slot is EmptySlot or holds a record.          *)
(***************************************************************************)
EXTENDS Integers

CONSTANT Cap    \* records that fit on one data page

ASSUME Cap \in Nat \ {0}

Slots     == 0 .. Cap - 1
EmptySlot == 0
NoSlot    == -1
NULLRID   == <<-1, -1>>

\* A zeroed frame, and a page the File has never written.
ZeroImage == [recCnt |-> 0, pageCnt |-> 0, firstPage |-> 0, lastPage |-> 0,
              next |-> 0, slots |-> [s \in Slots |-> EmptySlot]]

\* Page::init: no records and no next page.
PageInit(pg) == [pg EXCEPT !.next = -1, !.slots = [s \in Slots |-> EmptySlot]]

Used(pg) == {s \in Slots : pg.slots[s] # EmptySlot}

\* the smallest slot of S above s, or NoSlot
LowestAbove(S, s) ==
    LET above == {t \in S : t > s} IN
    IF above = {} THEN NoSlot ELSE CHOOSE t \in above : \A u \in above : t <= u

\* Page::firstRecord (NoSlot: NORECORDS) and Page::nextRecord (NoSlot:
\* ENDOFPAGE); from NULLRID nextRecord gives the first record.
FirstRecord(pg)   == LowestAbove(Used(pg), -1)
NextRecord(pg, s) == LowestAbove(Used(pg), s)

\* Page::insertRecord: the lowest free slot, NOSPACE when there is none.
InsertIntoPage(pg, r) ==
    LET s == LowestAbove(Slots \ Used(pg), -1) IN
    IF s = NoSlot THEN [st |-> "NOSPACE", pg |-> pg, slot |-> NoSlot]
    ELSE [st |-> "OK", pg |-> [pg EXCEPT !.slots[s] = r], slot |-> s]

\* Page::deleteRecord: frees a used slot, INVALIDSLOTNO otherwise.
DeleteFromPage(pg, s) ==
    IF s \in Used(pg) THEN [st |-> "OK", pg |-> [pg EXCEPT !.slots[s] = EmptySlot]]
    ELSE [st |-> "INVALIDSLOTNO", pg |-> pg]

\* Page::getRecord: the record in a used slot, INVALIDSLOTNO otherwise.
PageGetRecord(pg, s) ==
    IF s \in Used(pg) THEN [st |-> "OK", rec |-> pg.slots[s]]
    ELSE [st |-> "INVALIDSLOTNO", rec |-> EmptySlot]

=============================================================================
