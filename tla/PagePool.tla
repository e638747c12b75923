----------------------------- MODULE PagePool -----------------------------
(***************************************************************************)
(* What the buffer manager promises its callers, with no frames, hash      *)
(* table or clock: a cache of at most NumBufs pages over a paged store.    *)
(* A resident page has a pin count, a dirty bit and contents.  A fetch of  *)
(* a missing page may evict any unpinned page (writing it back if dirty),  *)
(* and fails only when every slot is taken by a pinned page.  BufMgr       *)
(* implements this specification (see MCBufMgr).                           *)
(***************************************************************************)
EXTENDS Integers, FiniteSets

CONSTANTS NumBufs, Files, PageNos, Data, Absent

VARIABLES res, disk, alloc, running

Keys == Files \X PageNos

Init ==
    /\ res = [k \in Keys |-> Absent]
    /\ disk \in [Keys -> Data]
    /\ alloc \in [Files -> SUBSET PageNos]
    /\ running = TRUE

Resident == {k \in Keys : res[k] # Absent}
Unpinned == {k \in Resident : res[k].pins = 0}

\* the store after evicting victim v, written back if dirty
Evict(v) == IF res[v].dirty THEN [disk EXCEPT ![v] = res[v].data] ELSE disk

Full == Cardinality(Resident) >= NumBufs

\* Bring k in with contents x and one pin, into a free slot or in place of
\* an unpinned victim.
Load(k, x) ==
    \/ /\ ~Full
       /\ res' = [res EXCEPT ![k] = [pins |-> 1, dirty |-> FALSE, data |-> x]]
       /\ UNCHANGED disk
    \/ \E v \in Unpinned :
       /\ res' = [res EXCEPT ![v] = Absent,
                             ![k] = [pins |-> 1, dirty |-> FALSE, data |-> x]]
       /\ disk' = Evict(v)

\* Any slot obtainable: a free one or an unpinned page.
CanLoad == ~Full \/ Unpinned # {}

Fetch(k) ==
    /\ running
    /\ \/ /\ k \in Resident
          /\ res' = [res EXCEPT ![k].pins = @ + 1]
          /\ UNCHANGED disk
       \/ /\ k \notin Resident
          /\ Load(k, disk[k])
       \/ /\ k \notin Resident /\ ~CanLoad
          /\ UNCHANGED <<res, disk>>
    /\ UNCHANGED <<alloc, running>>

\* The caller writes the contents of a page it has pinned.
Modify(k, x) ==
    /\ running
    /\ k \in Resident /\ res[k].pins > 0
    /\ res' = [res EXCEPT ![k].data = x]
    /\ UNCHANGED <<disk, alloc, running>>

\* Releasing a pin or-s in the dirty bit; an unpinned page gains only the bit.
Unpin(k, d) ==
    /\ running
    /\ \/ /\ k \in Resident
          /\ res' = [res EXCEPT ![k].dirty = @ \/ d,
                                ![k].pins = IF @ > 0 THEN @ - 1 ELSE 0]
       \/ /\ k \notin Resident
          /\ UNCHANGED res
    /\ UNCHANGED <<disk, alloc, running>>

\* A new page gets the lowest free page number; the caller gives its
\* contents.  Without a slot the number stays allocated and nothing is cached.
NewPage(f, x) ==
    LET free == PageNos \ alloc[f]
        p    == CHOOSE q \in free : \A r \in free : q <= r
    IN  /\ running
        /\ free # {}
        /\ alloc' = [alloc EXCEPT ![f] = @ \cup {p}]
        /\ \/ Load(<<f, p>>, x)
           \/ /\ ~CanLoad
              /\ UNCHANGED <<res, disk>>
        /\ UNCHANGED running

Dispose(k) ==
    /\ running
    /\ res' = [res EXCEPT ![k] = Absent]
    /\ alloc' = [alloc EXCEPT ![k[1]] = @ \ {k[2]}]
    /\ UNCHANGED <<disk, running>>

\* Flushing a file writes back and drops its unpinned pages: all of them,
\* or, when one of its pages is pinned, some of them.
Flush(f) ==
    LET mine == {k \in Resident : k[1] = f}
    IN  /\ running
        /\ \E gone \in SUBSET (mine \cap Unpinned) :
              /\ gone # mine => \E k \in mine : res[k].pins > 0
              /\ res' = [k \in Keys |-> IF k \in gone THEN Absent ELSE res[k]]
              /\ disk' = [k \in Keys |-> IF k \in gone /\ res[k].dirty
                                         THEN res[k].data ELSE disk[k]]
        /\ UNCHANGED <<alloc, running>>

Shutdown ==
    /\ running
    /\ disk' = [k \in Keys |-> IF k \in Resident /\ res[k].dirty
                               THEN res[k].data ELSE disk[k]]
    /\ running' = FALSE
    /\ UNCHANGED <<res, alloc>>

Next ==
    \/ \E k \in Keys : Fetch(k) \/ Dispose(k)
    \/ \E k \in Keys, x \in Data : Modify(k, x)
    \/ \E k \in Keys, d \in BOOLEAN : Unpin(k, d)
    \/ \E f \in Files, x \in Data : NewPage(f, x)
    \/ \E f \in Files : Flush(f)
    \/ Shutdown

Spec == Init /\ [][Next]_<<res, disk, alloc, running>>

=============================================================================
