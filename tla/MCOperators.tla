---------------------------- MODULE MCOperators ----------------------------
EXTENDS Operators, TLC

CONSTANTS F, G, R1, R2

\* attribute = 1: the odd record ids
EqOne == [op |-> "EQ", lit |-> 1]

MCFilters == {EqOne}

\* the relation's object may be either class; the result is an insert scan
MCKinds == R1 :> {"scan", "insert"} @@ R2 :> {"insert"}

\* F: records 1..3 on two data pages; G: an empty result relation
MCInitRecs == F :> <<1, 2, 3>> @@ G :> <<>>

\* QU_Delete with the predicate on the INTEGER attribute, and without one
GoodDeletes == {[flt |-> EqOne, type |-> "INTEGER", len |-> IntSize, known |-> TRUE],
                [flt |-> NoFilter, type |-> "INTEGER", len |-> IntSize, known |-> TRUE]}

\* QU_Delete "attr = 1" naming an attribute the relation does not have
UnknownDelete == {[flt |-> EqOne, type |-> "INTEGER", len |-> IntSize, known |-> FALSE]}

AnyDeletes == GoodDeletes \cup UnknownDelete

\* QU_Delete "attr = 1" typed INTEGER on an attribute the catalog gives
\* 8 bytes (a string): startScan rejects it
BadDelete == {[flt |-> EqOne, type |-> "INTEGER", len |-> 2 * IntSize, known |-> TRUE]}

MCSelFilters == {EqOne, NoFilter}

AllOps == {"insert", "delete", "select"}

MCUninit == {Null, Wild}

\* the second data page of F, and the first data page of F
SecondPageOfF == {<<F, 3>>}
FirstPageOfF  == {<<F, 2>>}
DataPagesOfF  == {<<F, 2>>, <<F, 3>>}

=============================================================================
