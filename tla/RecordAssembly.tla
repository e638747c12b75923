--------------------------- MODULE RecordAssembly ---------------------------
(***************************************************************************)
(* How QU_Insert builds the record it inserts, in the main version        *)
(* (insert.C) and the G11 version (G11/insert.C).  The caller's attrList   *)
(* names attributes in any order; the catalog (attrs, allAttrCnt) gives   *)
(* the relation's attributes in record order with their lengths.  Both    *)
(* versions size the record and walk the relation's attributes with the   *)
(* caller's count attrCnt, and copy each attribute's converted value to   *)
(* the running offset.                                                     *)
(*                                                                         *)
(* A byte of the record is <<j, k>>: byte k of the value of attrList[j]    *)
(* after atoi/atof (or the string itself).  Which conversion applies      *)
(* depends on the attribute's type and does not move bytes, so it is left *)
(* out.  Junk is a byte never written (new char[] / a VLA).  A read or    *)
(* write outside attrs[] ("attrs_oob"), attrList[] ("list_oob") or the     *)
(* record ("overflow") is undefined behaviour.  The catalog lookups before *)
(* the loops are left out: they fail or not independently of the          *)
(* attribute list.                                                         *)
(***************************************************************************)
EXTENDS Integers, Sequences, SequencesExt

CONSTANTS Variant   \* "main" or "g11"

Junk == <<0, 0>>

\* an attrList entry with a NULL attrValue
AnyNull(l) == \E k \in DOMAIN l : l[k].null

\* the running state of the loops: status, record bytes, offset
Start(len) == [st |-> "OK", buf |-> [p \in 1 .. len |-> Junk], off |-> 0]

\* the length loop: attrs[i].attrLen summed for i < attrCnt
RecLength(c, n) == FoldLeft(LAMBDA t, i : t + c[i].len, 0, [i \in 1 .. n |-> i])

\* Mutant: the offset is not advanced after a copy.
CopyNoAdvance(s, j, len) ==
    IF s.st # "OK" THEN s
    ELSE IF s.off + len > Len(s.buf) THEN [s EXCEPT !.st = "overflow"]
    ELSE [s EXCEPT !.buf = [p \in DOMAIN @ |->
                             IF p > s.off /\ p <= s.off + len THEN <<j, p - s.off>> ELSE @[p]]]

\* memcpy of attrLen bytes of attrList[j]'s value to the offset, then
\* offset += attrLen; past the end of the record it is a buffer overflow
Copy(s, j, len) ==
    IF s.st # "OK" THEN s
    ELSE IF s.off + len > Len(s.buf) THEN [s EXCEPT !.st = "overflow"]
    ELSE [s EXCEPT !.buf = [p \in DOMAIN @ |->
                             IF p > s.off /\ p <= s.off + len THEN <<j, p - s.off>> ELSE @[p]],
                   !.off = @ + len]

(***************************************************************************)
(* main: for j < allAttrCnt, compare attrList[j]'s name (past attrCnt     *)
(* entries that reads outside attrList) and copy and break on a match.    *)
(***************************************************************************)
RECURSIVE FindMain(_, _, _, _, _)
FindMain(c, l, i, j, s) ==
    IF s.st # "OK" \/ j > Len(c) THEN s
    ELSE IF j > Len(l) THEN [s EXCEPT !.st = "list_oob"]
    ELSE IF l[j].name = c[i].name THEN Copy(s, j, c[i].len)
    ELSE FindMain(c, l, i, j + 1, s)

\* G11: for j < attrCnt, copy on every match (no break)
FindG11(c, l, i, s) ==
    FoldLeft(LAMBDA t, j : IF l[j].name = c[i].name THEN Copy(t, j, c[i].len) ELSE t,
             s, [j \in 1 .. Len(l) |-> j])

\* the outer loop: for i < attrCnt, attrs[i] (past allAttrCnt: outside attrs)
FillRecord(c, l) ==
    FoldLeft(LAMBDA t, i :
                 IF t.st # "OK" THEN t
                 ELSE IF Variant = "main" THEN FindMain(c, l, i, 1, t)
                 ELSE FindG11(c, l, i, t),
             Start(RecLength(c, Len(l))), [i \in 1 .. Len(l) |-> i])

\* QU_Insert up to insertRecord: the NULL check, then the length loop
\* (which reads attrs[i] for every i < attrCnt), then the copy loops
Assemble(c, l) ==
    IF AnyNull(l) THEN [st |-> "ATTRNOTFOUND", buf |-> <<>>, off |-> 0]
    ELSE IF Len(l) > Len(c) THEN [st |-> "attrs_oob", buf |-> <<>>, off |-> 0]
    ELSE FillRecord(c, l)

(***************************************************************************)
(* Reference, from the function's header comment: rearrange the values    *)
(* into the relation's order, and reject the insertion if some attribute  *)
(* has no value (Minirel has no NULLs).  An attribute list is complete    *)
(* when it names each of the relation's attributes exactly once.           *)
(***************************************************************************)
Complete(c, l) ==
    /\ Len(l) = Len(c)
    /\ {l[j].name : j \in DOMAIN l} = {c[i].name : i \in DOMAIN c}

ValueOf(l, n) == CHOOSE j \in DOMAIN l : l[j].name = n

Reference(c, l) ==
    IF AnyNull(l) THEN [st |-> "ATTRNOTFOUND", buf |-> <<>>]
    ELSE IF ~Complete(c, l) THEN [st |-> "REJECT", buf |-> <<>>]
    ELSE [st |-> "OK",
          buf |-> FoldLeft(LAMBDA b, i : b \o [k \in 1 .. c[i].len |-> <<ValueOf(l, c[i].name), k>>],
                           <<>>, [i \in DOMAIN c |-> i])]

=============================================================================
