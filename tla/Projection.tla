----------------------------- MODULE Projection -----------------------------
(***************************************************************************)
(* QU_Select's set-up of a selection and ScanSelect's use of it, in the   *)
(* main version (select.C) and the G11 version (G11/select.C).  QU_Select *)
(* walks the relation's attributes (the catalog's attrDesc[], attrCnt of   *)
(* them, in record order) against the projection list projNames[] and the *)
(* search attribute attr, filling projAttrDesc[], the result record length *)
(* and the search attribute's descriptor.  ScanSelect opens the relation   *)
(* named by projNames[0].relName, converts the filter by the search        *)
(* descriptor's type, and copies each projected attribute of every         *)
(* selected record to the running offset of the result record.             *)
(*                                                                         *)
(* A catalog is a sequence of [name, len]; an attribute's offset is the    *)
(* sum of the lengths before it.  A projected descriptor is the index of   *)
(* the catalog attribute it was copied from, or Unset when no attribute   *)
(* matched and the array element keeps its indeterminate value.  A byte of *)
(* a source record is <<i, k>>: byte k of attribute i.  The catalog lookup *)
(* that fails before the loops and the heap calls are left out (the heap  *)
(* calls are Operators' ScanSelect).  Using an Unset descriptor, a NULL    *)
(* descriptor or an uninitialized index is undefined behaviour, and the   *)
(* evaluation stops there with its name as the status.                     *)
(***************************************************************************)
EXTENDS Integers, Sequences, SequencesExt

CONSTANTS Variant,  \* "main" or "g11"
          NoAttr    \* attr == NULL: an unconditional selection

\* descriptor values: a catalog index, or one of these
Unset == 0          \* an element of projAttrDesc[] no attribute matched
Null == -1          \* searchAttr = -1, and the NULL attrDesc it gives
Wild == -2          \* G11's uninitialized searchAttr
ProjFirst == -3     \* G11's &projAttrDesc[0]

Offset(c, i) == FoldLeftDomain(LAMBDA t, k : t + c[k].len, 0, SubSeq(c, 1, i - 1))

\* the catalog's record: attribute i's bytes at its offset
SourceRecord(c) ==
    FoldLeftDomain(LAMBDA b, i : b \o [k \in 1 .. c[i].len |-> <<i, k>>], <<>>, c)

(***************************************************************************)
(* The nested loops: for each catalog attribute i, each projected name j   *)
(* equal to it adds attrLen to the length and copies the descriptor; a    *)
(* search attribute equal to it sets searchAttr = i.  s.search starts at   *)
(* -1 in main and is uninitialized (Wild) in G11.                          *)
(***************************************************************************)
\* Mutant: the length is not accumulated for a projected attribute.
MatchProjNoLen(c, p, i, s) ==
    FoldLeftDomain(LAMBDA t, j : IF p[j] = c[i].name THEN [t EXCEPT !.desc[j] = i] ELSE t,
             s, p)

MatchProj(c, p, i, s) ==
    FoldLeftDomain(LAMBDA t, j : IF p[j] = c[i].name
                           THEN [t EXCEPT !.len = @ + c[i].len, !.desc[j] = i] ELSE t,
             s, p)

SetUp(c, p, a) ==
    FoldLeftDomain(LAMBDA s, i : LET t == MatchProj(c, p, i, s) IN
                           IF a # NoAttr /\ c[i].name = a THEN [t EXCEPT !.search = i] ELSE t,
             [len |-> 0, desc |-> [j \in DOMAIN p |-> Unset],
              search |-> IF Variant = "main" THEN Null ELSE Wild], c)

\* main: the search descriptor is &attrDesc[searchAttr], or NULL if searchAttr < 0
SearchDescMain(s) == s.search

\* G11: &projAttrDesc[0] without attr, else &attrDesc[searchAttr]
SearchDescG11(s, a) == IF a = NoAttr THEN ProjFirst ELSE s.search

SearchDesc(s, a) == IF Variant = "main" THEN SearchDescMain(s) ELSE SearchDescG11(s, a)

(***************************************************************************)
(* ScanSelect: the relation is projNames[0].relName; with a filter the     *)
(* descriptor's attrType picks the conversion; then, for the selected      *)
(* record r, memcpy of attrLen bytes at attrOffset for each projected      *)
(* attribute to the running offset of the reclen-byte result.             *)
(***************************************************************************)
ProjectInto(c, d, s, r) ==
    IF s.st # "OK" THEN s
    ELSE IF d = Unset THEN [s EXCEPT !.st = "uninit_desc"]
    ELSE IF s.off + c[d].len > Len(s.out) THEN [s EXCEPT !.st = "overflow"]
    ELSE [s EXCEPT !.out = [q \in DOMAIN @ |->
                              IF q > s.off /\ q <= s.off + c[d].len
                              THEN r[Offset(c, d) + q - s.off] ELSE @[q]],
                   !.off = @ + c[d].len]

Project(c, desc, reclen, r) ==
    FoldLeftDomain(LAMBDA s, j : ProjectInto(c, desc[j], s, r),
             [st |-> "OK", out |-> [q \in 1 .. reclen |-> <<0, 0>>], off |-> 0], desc)

ScanSelectUse(c, a, s, sd) ==
    IF s.desc[1] = Unset THEN [st |-> "uninit_rel", out |-> <<>>]
    ELSE IF a # NoAttr /\ sd = Null THEN [st |-> "null_attrdesc", out |-> <<>>]
    ELSE IF a # NoAttr /\ sd = Wild THEN [st |-> "wild_attrdesc", out |-> <<>>]
    ELSE LET o == Project(c, s.desc, s.len, SourceRecord(c)) IN [st |-> o.st, out |-> o.out]

\* QU_Select with projection list p and search attribute a on catalog c
Select(c, p, a) == LET s == SetUp(c, p, a) IN ScanSelectUse(c, a, s, SearchDesc(s, a))

(***************************************************************************)
(* Reference, from the header comment: the result holds, for a selected   *)
(* record, the projected attributes' values in projection order; a name   *)
(* the relation does not have is an error.                                  *)
(***************************************************************************)
Names(c) == {c[i].name : i \in DOMAIN c}

Known(c, p, a) == Range(p) \subseteq Names(c) /\ (a = NoAttr \/ a \in Names(c))

IndexOf(c, n) == CHOOSE i \in DOMAIN c : c[i].name = n

ReferenceProjection(c, p) ==
    FoldLeftDomain(LAMBDA b, j : b \o [k \in 1 .. c[IndexOf(c, p[j])].len |-> <<IndexOf(c, p[j]), k>>],
             <<>>, p)

=============================================================================
