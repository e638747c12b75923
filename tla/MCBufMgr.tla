----------------------------- MODULE MCBufMgr -----------------------------
(***************************************************************************)
(* Model of BufMgr for TLC: two frames, two files with one allocated page  *)
(* and one free page number each, so that with a page allocated there are  *)
(* more live pages than frames and eviction, a full pool, page allocation  *)
(* and disposal all occur.  Files and clients are interchangeable.         *)
(***************************************************************************)
EXTENDS BufMgr, TLC

CONSTANTS f1, f2, c1, c2, NotResident

MCFiles     == {f1, f2}
MCClients   == {c1, c2}
MCInitPages == [f \in MCFiles |-> {1}]

\* A single file with two of three page numbers allocated, for the
\* refinement check.
OneFile         == {f1}
OneFileInitPages == f1 :> {1, 2}

(***************************************************************************)
(* Refinement mapping to PagePool: a page is resident iff it is indexed,  *)
(* with the pin count and dirty bit of its descriptor and the bytes of its *)
(* frame.                                                                  *)
(***************************************************************************)
AbsRes == [k \in Keys |->
              IF bm.hash[k] = NoFrame THEN NotResident
              ELSE [pins  |-> bm.desc[bm.hash[k]].pinCnt,
                    dirty |-> bm.desc[bm.hash[k]].dirty,
                    data  |-> bm.pool[bm.hash[k]]]]

Pool == INSTANCE PagePool WITH res <- AbsRes, disk <- bm.disk, alloc <- bm.alloc,
                               Data <- Contents, Absent <- NotResident

(***************************************************************************)
(* BufMgr implements PagePool: every step of the buffer manager and its   *)
(* callers is a step of the abstract cache or leaves it unchanged.  In     *)
(* particular allocBuf's bound of 2 * NumBufs probes is enough: readPage   *)
(* and allocPage report BUFFEREXCEEDED only when every frame is pinned.    *)
(***************************************************************************)
PoolSpec == Pool!Spec

Symmetry       == Permutations(MCClients) \cup Permutations(MCFiles)
ClientSymmetry == Permutations(MCClients)
=============================================================================
