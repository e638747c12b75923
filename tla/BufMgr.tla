------------------------------ MODULE BufMgr ------------------------------
(***************************************************************************)
(* The buffer manager of buf.C driven by its callers.  A set of Clients    *)
(* stands for the code that holds Page pointers into the pool (the heap    *)
(* files of heapfile.C): a client pins a page with readPage or allocPage,  *)
(* writes the frame its pointer names, and unpins the page, marking it     *)
(* dirty if it wrote.  Clients also call unPinPage, disposePage and        *)
(* flushFile on pages they do not hold, as the API allows.                 *)
(*                                                                         *)
(* A page's contents is [key, ver]: the page it was written for and a      *)
(* version.  The ghost variable latest records the last version written   *)
(* to each page, so the invariants can say what a reader must see.         *)
(***************************************************************************)
EXTENDS BufPool

CONSTANTS
    Clients,     \* callers holding pins, as model values
    InitPages,   \* file -> page numbers allocated when the model starts
    MaxVersion,  \* bound on the number of writes to each page
    Faults,      \* File failures injected: a subset of {"read", "write"}
    MaxFaults    \* bound on the number of injected failures

ASSUME InitPages \in [Files -> SUBSET PageNos]
ASSUME Faults \subseteq {"read", "write"} /\ MaxFaults \in Nat

VARIABLES
    bm,       \* the buffer manager and File state (see BufPool)
    ptr,      \* ptr[c][k]: the frame client c holds page k in, or NoFrame
    wrote,    \* wrote[c]: pages client c wrote since pinning them
    latest,   \* latest[k]: contents last written to page k (ghost)
    faults,   \* failures injected so far
    running   \* FALSE once ~BufMgr has run

vars == <<bm, ptr, wrote, latest, faults, running>>

Contents == [key : Keys, ver : 0 .. MaxVersion]

\* the contents of the next write to page k
Fresh(k) == [key |-> k, ver |-> latest[k].ver + 1]

CanWrite(k) == latest[k].ver < MaxVersion

Init ==
    /\ bm = InitBuf([k \in Keys |-> [key |-> k, ver |-> 0]], InitPages)
    /\ ptr = [c \in Clients |-> [k \in Keys |-> NoFrame]]
    /\ wrote = [c \in Clients |-> {}]
    /\ latest = [k \in Keys |-> [key |-> k, ver |-> 0]]
    /\ faults = 0
    /\ running = TRUE

IOChoices == {"ok"} \cup (IF faults < MaxFaults THEN Faults ELSE {})

CountFault(io) == faults' = IF io = "ok" THEN faults ELSE faults + 1

Allocated(k) == k[2] \in bm.alloc[k[1]]

Holds(c, k) == ptr[c][k] # NoFrame

HeldByAnyone(k) == \E c \in Clients : Holds(c, k)

\* A client pins a page it does not hold (BufMgr::readPage).
Fetch(c, k, io) ==
    LET r == ReadPage(bm, k[1], k[2], io) IN
    /\ running
    /\ Allocated(k) /\ ~Holds(c, k)
    /\ bm' = r.bm
    /\ ptr' = IF r.st = "OK" THEN [ptr EXCEPT ![c][k] = r.frame] ELSE ptr
    /\ CountFault(io)
    /\ UNCHANGED <<wrote, latest, running>>

\* A client writes through its Page pointer into the frame it holds.
Write(c, k) ==
    /\ running
    /\ Holds(c, k) /\ CanWrite(k)
    /\ bm' = [bm EXCEPT !.pool[ptr[c][k]] = Fresh(k)]
    /\ latest' = [latest EXCEPT ![k] = Fresh(k)]
    /\ wrote' = [wrote EXCEPT ![c] = @ \cup {k}]
    /\ UNCHANGED <<ptr, faults, running>>

\* A client releases its pin, dirty iff it wrote (BufMgr::unPinPage).
Unpin(c, k) ==
    /\ running
    /\ Holds(c, k)
    /\ bm' = UnPinPage(bm, k[1], k[2], k \in wrote[c]).bm
    /\ ptr' = [ptr EXCEPT ![c][k] = NoFrame]
    /\ wrote' = [wrote EXCEPT ![c] = @ \ {k}]
    /\ UNCHANGED <<latest, faults, running>>

\* unPinPage of a page nobody holds: HASHNOTFOUND or PAGENOTPINNED.
UnpinStray(k, dirty) ==
    /\ running
    /\ ~HeldByAnyone(k)
    /\ bm' = UnPinPage(bm, k[1], k[2], dirty).bm
    /\ UNCHANGED <<ptr, wrote, latest, faults, running>>

\* A client allocates a page and initialises it (BufMgr::allocPage and
\* the Page::init that every caller performs on the new frame).
NewPage(c, f, io) ==
    LET r == AllocPage(bm, f, io)  k == <<f, r.pageNo>> IN
    /\ running
    /\ IF r.st = "OK"
       THEN /\ CanWrite(k)
            /\ bm' = [r.bm EXCEPT !.pool[r.frame] = Fresh(k)]
            /\ ptr' = [ptr EXCEPT ![c][k] = r.frame]
            /\ wrote' = [wrote EXCEPT ![c] = @ \cup {k}]
            /\ latest' = [latest EXCEPT ![k] = Fresh(k)]
       ELSE /\ bm' = r.bm
            /\ UNCHANGED <<ptr, wrote, latest>>
    /\ CountFault(io)
    /\ UNCHANGED running

\* disposePage of an allocated page that no client holds.  The page's
\* contents are void from then on: if the File hands the number out again
\* a reader sees what the disk holds.
Dispose(k) ==
    /\ running
    /\ Allocated(k) /\ ~HeldByAnyone(k)
    /\ bm' = DisposePage(bm, k[1], k[2]).bm
    /\ latest' = [latest EXCEPT ![k] = bm.disk[k]]
    /\ UNCHANGED <<ptr, wrote, faults, running>>

Flush(f, io) ==
    /\ running
    /\ bm' = FlushFile(bm, f, io).bm
    /\ CountFault(io)
    /\ UNCHANGED <<ptr, wrote, latest, running>>

\* BufMgr::~BufMgr at program end; nothing runs after it.
Teardown ==
    /\ running
    /\ bm' = ShutDown(bm)
    /\ running' = FALSE
    /\ UNCHANGED <<ptr, wrote, latest, faults>>

Done == ~running /\ UNCHANGED vars

Next ==
    \/ \E c \in Clients, k \in Keys, io \in IOChoices : Fetch(c, k, io)
    \/ \E c \in Clients, k \in Keys : Write(c, k) \/ Unpin(c, k)
    \/ \E k \in Keys, dirty \in BOOLEAN : UnpinStray(k, dirty)
    \/ \E c \in Clients, f \in Files, io \in IOChoices : NewPage(c, f, io)
    \/ \E k \in Keys : Dispose(k)
    \/ \E f \in Files, io \in IOChoices : Flush(f, io)
    \/ Teardown
    \/ Done

Spec == Init /\ [][Next]_vars

(***************************************************************************)
(* Invariants                                                              *)
(***************************************************************************)

TypeOK ==
    /\ bm.desc \in [Frames -> [file : Files \cup {NoFile}, pageNo : PageNos \cup {-1, 0},
                               pinCnt : Nat, dirty : BOOLEAN, valid : BOOLEAN,
                               refbit : BOOLEAN]]
    /\ bm.hash \in [Keys -> Frames \cup {NoFrame}]
    /\ bm.hand \in Frames
    /\ bm.pool \in [Frames -> Contents \cup {ZeroPage}]
    /\ bm.disk \in [Keys -> Contents]
    /\ bm.alloc \in [Files -> SUBSET PageNos]
    /\ ptr \in [Clients -> [Keys -> Frames \cup {NoFrame}]]
    /\ wrote \in [Clients -> SUBSET Keys]
    /\ latest \in [Keys -> Contents]

(***************************************************************************)
(* The page index mirrors the descriptors (design, section 3): an entry   *)
(* (file, page) -> frame exists iff that frame is valid and holds that     *)
(* page, and an invalid frame is unpinned and clean.  allocBuf, readPage,  *)
(* allocPage, disposePage and flushFile each update both structures.       *)
(***************************************************************************)
IndexConsistent ==
    /\ \A k \in Keys : bm.hash[k] # NoFrame =>
           /\ bm.desc[bm.hash[k]].valid
           /\ KeyOf(bm.desc[bm.hash[k]]) = k
    /\ \A fr \in Frames :
           IF bm.desc[fr].valid THEN bm.hash[KeyOf(bm.desc[fr])] = fr
           ELSE bm.desc[fr].pinCnt = 0 /\ ~bm.desc[fr].dirty

(***************************************************************************)
(* Every pin is accounted for: a frame a client holds still holds the     *)
(* client's page (allocBuf never hands out a pinned frame), and a valid    *)
(* frame's pinCnt is the number of clients holding it (readPage and        *)
(* allocPage pin once, unPinPage releases once).                           *)
(***************************************************************************)
PinAccounting ==
    /\ \A c \in Clients, k \in Keys :
           Holds(c, k) => /\ bm.desc[ptr[c][k]].valid
                          /\ KeyOf(bm.desc[ptr[c][k]]) = k
    /\ \A fr \in Frames : bm.desc[fr].valid =>
           bm.desc[fr].pinCnt =
               Cardinality({c \in Clients : ptr[c][KeyOf(bm.desc[fr])] = fr})

(***************************************************************************)
(* No lost update: what a reader of an allocated page gets (the indexed    *)
(* frame, else the disk) is the last version written; a page whose frame   *)
(* differs from disk is dirty or has a writer still to unpin it; and after *)
(* ~BufMgr every page whose writers unpinned it is on disk.  This is what  *)
(* the write-back in allocBuf, flushFile and ~BufMgr is for.               *)
(***************************************************************************)
Logical(k) == IF bm.hash[k] # NoFrame THEN bm.pool[bm.hash[k]] ELSE bm.disk[k]

PendingWriter(k) == \E c \in Clients : k \in wrote[c]

CacheCoherent ==
    \A k \in Keys : Allocated(k) =>
        /\ Logical(k) = latest[k]
        /\ Logical(k) # bm.disk[k] =>
               bm.desc[bm.hash[k]].dirty \/ PendingWriter(k)
        /\ ~running /\ ~PendingWriter(k) => bm.disk[k] = latest[k]

(***************************************************************************)
(* Second chance (design, 4.1): a frame whose refbit was set when a clock  *)
(* sweep began is taken by that sweep only if, when it began, no frame     *)
(* was free or both unreferenced and unpinned.                             *)
(***************************************************************************)
Evictable(d) == ~d.valid \/ (~d.refbit /\ d.pinCnt = 0)

Reassigned(fr) == bm'.desc[fr].valid /\ KeyOf(bm'.desc[fr]) # KeyOf(bm.desc[fr])

SecondChance ==
    [][\A fr \in Frames :
          (bm.desc[fr].valid /\ bm.desc[fr].refbit /\ Reassigned(fr))
              => \A g \in Frames : ~Evictable(bm.desc[g])]_vars

=============================================================================
