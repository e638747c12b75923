------------------------------ MODULE BufPool ------------------------------
(***************************************************************************)
(* The buffer manager of buf.C (class BufMgr) and the paged File it calls, *)
(* written as operators over one record-valued state so that a caller can *)
(* chain several calls inside one of its own steps, as heapfile.C does.   *)
(*                                                                         *)
(* A buffer state bm is a record:                                          *)
(*   desc  : frame -> BufDesc {file, pageNo, pinCnt, dirty, valid, refbit} *)
(*   hash  : (file, pageNo) -> frame or NoFrame       (BufHashTbl)         *)
(*   hand  : the clock hand                                                *)
(*   pool  : frame -> page contents                   (bufPool)            *)
(*   disk  : (file, pageNo) -> page contents          (File pages)         *)
(*   alloc : file -> set of allocated page numbers    (File)               *)
(*   bad   : (file, pageNo) pairs File::readPage fails on (bad sectors)    *)
(* Every operation returns [st |-> Status, bm |-> new state, frame |-> f]. *)
(* Page contents are opaque here: callers choose what a page holds.        *)
(*                                                                         *)
(* The parameter io injects one failure of the File layer into a call:     *)
(* "read" makes File::readPage fail, "write" makes File::writePage fail,   *)
(* "ok" makes every I/O of the call succeed.                               *)
(***************************************************************************)
EXTENDS Integers, FiniteSets

CONSTANTS
    NumBufs,    \* number of frames in the pool (BufMgr(bufs))
    Files,      \* the open File objects, as model values
    PageNos,    \* page numbers a File can hand out (bounds File growth)
    NoFile,     \* the NULL File pointer
    ZeroPage    \* contents of a memset-0 frame and of a never-written page

ASSUME NumBufs \in Nat \ {0}
ASSUME PageNos \subseteq Nat \ {0} /\ PageNos # {}
ASSUME NoFile \notin Files

Frames  == 0 .. NumBufs - 1
Keys    == Files \X PageNos
NoFrame == -1

IOOutcomes == {"ok", "read", "write"}

(***************************************************************************)
(* BufDesc of buf.h.  Set and Clear are in buf.h, which is not part of the *)
(* source tree; they follow the descriptor initialisation the design       *)
(* states: Set gives pinCnt 1, clean, valid, refbit clear.                 *)
(***************************************************************************)
ZeroDesc == [file |-> NoFile, pageNo |-> 0, pinCnt |-> 0,
             dirty |-> FALSE, valid |-> FALSE, refbit |-> FALSE]

SetDesc(f, p) == [file |-> f, pageNo |-> p, pinCnt |-> 1,
                  dirty |-> FALSE, valid |-> TRUE, refbit |-> FALSE]

ClearDesc == [ZeroDesc EXCEPT !.pageNo = -1]

\* advanceClock() of buf.h.
AdvanceClock(h) == (h + 1) % NumBufs

KeyOf(d) == <<d.file, d.pageNo>>

\* BufHashTbl::lookup: the frame of a key, NoFrame when it has no entry.
Lookup(hash, k) == IF k \in DOMAIN hash THEN hash[k] ELSE NoFrame

\* BufHashTbl::remove: drops the entry for the key, whichever frame it names.
HashRemove(hash, k) == IF k \in DOMAIN hash THEN [hash EXCEPT ![k] = NoFrame]
                                           ELSE hash

(***************************************************************************)
(* BufMgr::BufMgr: every descriptor zeroed and invalid, the pool zeroed,   *)
(* an empty hash table and the hand on the last frame.  The File state     *)
(* (disk contents and allocated pages) is the caller's choice.             *)
(***************************************************************************)
InitBuf(disk, alloc) ==
    [desc  |-> [fr \in Frames |-> ZeroDesc],
     hash  |-> [k \in Keys |-> NoFrame],
     hand  |-> NumBufs - 1,
     pool  |-> [fr \in Frames |-> ZeroPage],
     disk  |-> disk,
     alloc |-> alloc,
     bad   |-> {}]

(***************************************************************************)
(* The while loop of allocBuf: the hand advances before each probe; an     *)
(* invalid frame ends the loop, a valid unreferenced unpinned frame is the *)
(* victim, a referenced frame loses its refbit.  Gives the descriptors,    *)
(* the hand, how the loop ended and numScanned.                            *)
(***************************************************************************)
\* Mutant: a single sweep of the clock (numScanned < numBufs).
ProbeLimitOneSweep == NumBufs

ProbeLimit == 2 * NumBufs

\* Mutant: the refbit is not consulted, so no frame gets a second chance.
RECURSIVE ClockSweepNoSecondChance(_, _, _)
ClockSweepNoSecondChance(d, h, scanned) ==
    IF scanned >= ProbeLimit
    THEN [desc |-> d, hand |-> h, found |-> "none", scanned |-> scanned]
    ELSE LET n == AdvanceClock(h) IN
         IF ~d[n].valid
         THEN [desc |-> d, hand |-> n, found |-> "invalid", scanned |-> scanned + 1]
         ELSE IF d[n].pinCnt = 0
         THEN [desc |-> d, hand |-> n, found |-> "victim", scanned |-> scanned + 1]
         ELSE ClockSweepNoSecondChance([d EXCEPT ![n].refbit = FALSE], n, scanned + 1)

RECURSIVE ClockSweep(_, _, _)
ClockSweep(d, h, scanned) ==
    IF scanned >= ProbeLimit
    THEN [desc |-> d, hand |-> h, found |-> "none", scanned |-> scanned]
    ELSE LET n == AdvanceClock(h) IN
         IF ~d[n].valid
         THEN [desc |-> d, hand |-> n, found |-> "invalid", scanned |-> scanned + 1]
         ELSE IF ~d[n].refbit /\ d[n].pinCnt = 0
         THEN [desc |-> d, hand |-> n, found |-> "victim", scanned |-> scanned + 1]
         ELSE IF d[n].refbit
         THEN ClockSweep([d EXCEPT ![n].refbit = FALSE], n, scanned + 1)
         ELSE ClockSweep(d, n, scanned + 1)

(***************************************************************************)
(* allocBuf: sweep, then, given how the sweep ended (s), drop a victim's   *)
(* hash entry, give up after ProbeLimit probes, and write a dirty frame    *)
(* back before handing it out.  The descriptor of the frame is left as it *)
(* was: the caller overwrites it.                                          *)
(***************************************************************************)
\* Mutant: the victim's hash entry is left in place.
AllocVictimKeepsIndex(bm, io, s) ==
    LET fr  == s.hand
        d   == s.desc[fr]
        bm1 == [bm EXCEPT !.desc = s.desc, !.hand = fr]
    IN  IF s.found # "victim" /\ s.scanned >= ProbeLimit
        THEN [st |-> "BUFFEREXCEEDED", bm |-> bm1, frame |-> NoFrame]
        ELSE IF d.dirty /\ io = "write"
        THEN [st |-> "UNIXERR", bm |-> bm1, frame |-> NoFrame]
        ELSE IF d.dirty
        THEN [st |-> "OK", bm |-> [bm1 EXCEPT !.disk[KeyOf(d)] = bm1.pool[fr]],
              frame |-> fr]
        ELSE [st |-> "OK", bm |-> bm1, frame |-> fr]

AllocVictim(bm, io, s) ==
    LET fr  == s.hand
        d   == s.desc[fr]
        bm1 == [bm EXCEPT !.desc = s.desc, !.hand = fr,
                          !.hash = IF s.found = "victim"
                                   THEN HashRemove(@, KeyOf(d)) ELSE @]
    IN  IF s.found # "victim" /\ s.scanned >= ProbeLimit
        THEN [st |-> "BUFFEREXCEEDED", bm |-> bm1, frame |-> NoFrame]
        ELSE IF d.dirty /\ io = "write"
        THEN [st |-> "UNIXERR", bm |-> bm1, frame |-> NoFrame]
        ELSE IF d.dirty
        THEN [st |-> "OK", bm |-> [bm1 EXCEPT !.disk[KeyOf(d)] = bm1.pool[fr]],
              frame |-> fr]
        ELSE [st |-> "OK", bm |-> bm1, frame |-> fr]

AllocBuf(bm, io) == AllocVictim(bm, io, ClockSweep(bm.desc, bm.hand, 0))

(***************************************************************************)
(* readPage: a hit sets the refbit and pins once more; a miss takes a      *)
(* frame a from allocBuf, reads the page into it, indexes it and Sets the  *)
(* descriptor.  A failed read leaves the frame's bytes as they were.  A    *)
(* page number the file cannot have is never indexed, and File::readPage   *)
(* fails on it, as it does on a bad sector.                                *)
(***************************************************************************)
ReadIntoFrame(f, p, io, a) ==
    LET k == <<f, p>>  fr == a.frame IN
    IF a.st # "OK" THEN a
    ELSE IF io = "read" \/ k \in a.bm.bad \/ k \notin Keys
    THEN [a EXCEPT !.st = "UNIXERR", !.frame = NoFrame]
    ELSE IF a.bm.hash[k] # NoFrame THEN [a EXCEPT !.st = "HASHTBLERROR", !.frame = NoFrame]
    ELSE [st |-> "OK", frame |-> fr,
          bm |-> [a.bm EXCEPT !.pool[fr] = a.bm.disk[k], !.hash[k] = fr,
                              !.desc[fr] = SetDesc(f, p)]]

\* Mutant: a hit returns the frame without pinning it again.
PinHitNoPin(bm, fr) ==
    [st |-> "OK", frame |-> fr, bm |-> [bm EXCEPT !.desc[fr].refbit = TRUE]]

PinHit(bm, fr) ==
    [st |-> "OK", frame |-> fr,
     bm |-> [bm EXCEPT !.desc[fr].refbit = TRUE, !.desc[fr].pinCnt = @ + 1]]

ReadPage(bm, f, p, io) ==
    IF Lookup(bm.hash, <<f, p>>) = NoFrame
    THEN ReadIntoFrame(f, p, io, AllocBuf(bm, io))
    ELSE PinHit(bm, Lookup(bm.hash, <<f, p>>))

(***************************************************************************)
(* unPinPage: the dirty bit is or-ed in before the pin count is checked.   *)
(***************************************************************************)
\* Mutant: the pin count is decremented without checking it is positive.
UnPinPageNoCheck(bm, f, p, dirty) ==
    LET k == <<f, p>>  fr == Lookup(bm.hash, k) IN
    IF fr = NoFrame
    THEN [st |-> "HASHNOTFOUND", bm |-> bm, frame |-> NoFrame]
    ELSE [st |-> "OK", frame |-> fr,
          bm |-> [bm EXCEPT !.desc[fr].dirty = @ \/ dirty,
                            !.desc[fr].pinCnt = @ - 1]]

UnPinPage(bm, f, p, dirty) ==
    LET k == <<f, p>>  fr == Lookup(bm.hash, k) IN
    IF fr = NoFrame
    THEN [st |-> "HASHNOTFOUND", bm |-> bm, frame |-> NoFrame]
    ELSE LET bm1 == IF dirty THEN [bm EXCEPT !.desc[fr].dirty = TRUE] ELSE bm IN
         IF bm1.desc[fr].pinCnt = 0
         THEN [st |-> "PAGENOTPINNED", bm |-> bm1, frame |-> fr]
         ELSE [st |-> "OK", bm |-> [bm1 EXCEPT !.desc[fr].pinCnt = @ - 1],
               frame |-> fr]

(***************************************************************************)
(* File::allocatePage (outside the source tree): the lowest free page     *)
(* number of the file; no free number left is reported as an error.        *)
(***************************************************************************)
FreePageNos(bm, f) == PageNos \ bm.alloc[f]

FileAllocatePage(bm, f) ==
    IF FreePageNos(bm, f) = {}
    THEN [st |-> "UNIXERR", bm |-> bm, pageNo |-> 0]
    ELSE LET p == CHOOSE q \in FreePageNos(bm, f) :
                      \A r \in FreePageNos(bm, f) : q <= r
         IN  [st |-> "OK", bm |-> [bm EXCEPT !.alloc[f] = @ \cup {p}], pageNo |-> p]

\* allocPage once allocBuf has answered (a) for the new page number p.
FrameForNewPage(f, p, a) ==
    LET k == <<f, p>>  bm1 == [a.bm EXCEPT !.desc[a.frame] = SetDesc(f, p)] IN
    IF a.st # "OK" THEN [st |-> a.st, bm |-> a.bm, frame |-> NoFrame, pageNo |-> 0]
    ELSE IF bm1.hash[k] # NoFrame
    THEN [st |-> "HASHTBLERROR", bm |-> bm1, frame |-> NoFrame, pageNo |-> 0]
    ELSE [st |-> "OK", bm |-> [bm1 EXCEPT !.hash[k] = a.frame], frame |-> a.frame, pageNo |-> p]

(***************************************************************************)
(* allocPage: a new page number from the File, then a frame; the frame     *)
(* keeps the bytes of whatever it held before.  Returns the page number.   *)
(***************************************************************************)
AllocPage(bm, f, io) ==
    LET n == FileAllocatePage(bm, f) IN
    IF n.st # "OK" THEN [st |-> n.st, bm |-> bm, frame |-> NoFrame, pageNo |-> 0]
    ELSE FrameForNewPage(f, n.pageNo, AllocBuf(n.bm, io))

(***************************************************************************)
(* disposePage: clear the frame if the page is resident (no write-back),   *)
(* drop the hash entry, and free the page in the File.                     *)
(***************************************************************************)
DisposePage(bm, f, p) ==
    LET k == <<f, p>>  fr == bm.hash[k]
        bm1 == IF fr # NoFrame THEN [bm EXCEPT !.desc[fr] = ClearDesc] ELSE bm
    IN  [st |-> "OK", frame |-> NoFrame,
         bm |-> [bm1 EXCEPT !.hash = HashRemove(@, k), !.alloc[f] = @ \ {p}]]

(***************************************************************************)
(* flushFile: frames in order; a pinned frame of the file stops the loop   *)
(* with PAGEPINNED, leaving earlier frames flushed; a dirty frame is       *)
(* written and cleaned; every frame of the file is unindexed and made      *)
(* invalid; an invalid frame naming the file is BADBUFFER.                 *)
(***************************************************************************)
RECURSIVE FlushFrom(_, _, _, _)
FlushFrom(bm, f, i, io) ==
    IF i >= NumBufs THEN [st |-> "OK", bm |-> bm, frame |-> NoFrame]
    ELSE LET d == bm.desc[i] IN
         IF d.valid /\ d.file = f
         THEN IF d.pinCnt > 0 THEN [st |-> "PAGEPINNED", bm |-> bm, frame |-> i]
              ELSE IF d.dirty /\ io = "write"
              THEN [st |-> "UNIXERR", bm |-> bm, frame |-> i]
              ELSE LET bm1 == IF d.dirty
                              THEN [bm EXCEPT !.disk[KeyOf(d)] = bm.pool[i],
                                              !.desc[i].dirty = FALSE]
                              ELSE bm
                   IN  FlushFrom([bm1 EXCEPT !.hash = HashRemove(@, <<f, d.pageNo>>),
                                             !.desc[i].file = NoFile,
                                             !.desc[i].pageNo = -1,
                                             !.desc[i].valid = FALSE], f, i + 1, io)
         ELSE IF ~d.valid /\ d.file = f
         THEN [st |-> "BADBUFFER", bm |-> bm, frame |-> i]
         ELSE FlushFrom(bm, f, i + 1, io)

FlushFile(bm, f, io) == FlushFrom(bm, f, 0, io)

(***************************************************************************)
(* BufMgr::~BufMgr: every valid dirty frame is written back.              *)
(***************************************************************************)
ShutDown(bm) ==
    LET dirtyKeys == {KeyOf(bm.desc[fr]) : fr \in {g \in Frames : bm.desc[g].valid
                                                          /\ bm.desc[g].dirty}}
        holders(k) == {fr \in Frames : bm.desc[fr].valid /\ bm.desc[fr].dirty
                                        /\ KeyOf(bm.desc[fr]) = k}
        \* frames are written in order, so the highest one is written last
        writer(k) == CHOOSE fr \in holders(k) : \A g \in holders(k) : g <= fr
    IN  [bm EXCEPT !.disk = [k \in DOMAIN @ |-> IF k \in dirtyKeys
                                                THEN bm.pool[writer(k)] ELSE @[k]]]

=============================================================================
