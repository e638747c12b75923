------------------------------ MODULE MCQuery ------------------------------
(***************************************************************************)
(* QU_Insert's record assembly and QU_Select's projection against their   *)
(* references.  QU_Insert's: over every catalog                            *)
(* of up to MaxAttrs attributes with distinct names and lengths in Lens,   *)
(* and every attribute list of up to MaxAttrs entries over those names,    *)
(* each with or without a NULL value, for each version in Variants.       *)
(* QU_Select's: the same catalogs, the names of the same lists (at least   *)
(* one) as projection lists, and every search attribute or none.          *)
(***************************************************************************)
EXTENDS Integers, Sequences, FiniteSets

CONSTANTS Names, Lens, MaxAttrs, Variants, NoAttr

\* QU_Insert as version v builds it
R(v) == INSTANCE RecordAssembly WITH Variant <- v

\* QU_Select as version v sets it up
P(v) == INSTANCE Projection WITH Variant <- v

Catalogs ==
    {c \in UNION {[1 .. n -> [name : Names, len : Lens]] : n \in 1 .. MaxAttrs} :
        Cardinality({c[i].name : i \in DOMAIN c}) = Len(c)}

AttrLists == UNION {[1 .. n -> [name : Names, null : BOOLEAN]] : n \in 0 .. MaxAttrs}

VARIABLES cat, lst, sel

Init == cat \in Catalogs /\ lst \in AttrLists /\ sel \in Names \cup {NoAttr}

Spec == Init /\ [][UNCHANGED <<cat, lst, sel>>]_<<cat, lst, sel>>

\* the projection list projNames[]
Proj == [j \in DOMAIN lst |-> lst[j].name]

(***************************************************************************)
(* An attribute list that names every attribute of the relation once, in  *)
(* any order and without NULLs, is inserted as the record holding each    *)
(* value at its attribute's offset: the nested loops rearrange correctly. *)
(***************************************************************************)
PermutationAssembled ==
    \A v \in Variants :
        R(v)!Complete(cat, lst) /\ ~R(v)!AnyNull(lst) =>
            LET r == R(v)!Assemble(cat, lst) IN r.st = "OK" /\ r.buf = R(v)!Reference(cat, lst).buf

(***************************************************************************)
(* An attribute list that leaves an attribute of the relation without a   *)
(* value is not inserted (the header comment: reject the insertion).       *)
(***************************************************************************)
IncompleteRejected ==
    \A v \in Variants : ~R(v)!Complete(cat, lst) => R(v)!Assemble(cat, lst).st # "OK"

(***************************************************************************)
(* The copies never write past the end of the record: each value is       *)
(* copied once, at an offset the length loop made room for.                *)
(***************************************************************************)
RecordInBounds == \A v \in Variants : R(v)!Assemble(cat, lst).st # "overflow"

(***************************************************************************)
(* The search for an attribute's value never reads past the attrCnt       *)
(* entries of attrList.                                                    *)
(***************************************************************************)
ListInBounds == \A v \in Variants : R(v)!Assemble(cat, lst).st # "list_oob"

(***************************************************************************)
(* A selection whose projected and search attributes are all attributes  *)
(* of the relation produces, from a selected record, exactly the          *)
(* projected values in projection order: the set-up loops and ScanSelect's *)
(* copy agree on lengths, descriptors and offsets.                         *)
(***************************************************************************)
ProjectionCorrect ==
    \A v \in Variants :
        Len(Proj) > 0 /\ P(v)!Known(cat, Proj, sel) =>
            P(v)!Select(cat, Proj, sel) = [st |-> "OK", out |-> P(v)!ReferenceProjection(cat, Proj)]

(***************************************************************************)
(* QU_Select never uses a descriptor it did not set: a projected or search *)
(* attribute the relation lacks is reported, not dereferenced.              *)
(***************************************************************************)
SelectDefined ==
    \A v \in Variants : Len(Proj) > 0 => P(v)!Select(cat, Proj, sel).st = "OK"

=============================================================================
