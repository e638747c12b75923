---------------------------- MODULE MCMatchRec ----------------------------
(***************************************************************************)
(* matchRec against the comparison it stands for, over every operator and *)
(* pairs of 32-bit integers that include the ends of the range.            *)
(***************************************************************************)
EXTENDS MatchRec

\* attribute and filter values tried: the extremes, zero and their neighbours
Samples == {MinInt, MinInt + 1, -1, 0, 1, MaxInt - 1, MaxInt}

\* values whose difference stays inside the int range
SmallSamples == -3 .. 3

CONSTANT Values

VARIABLES op, attr, lit

Init == op \in Operators /\ attr \in Values /\ lit \in Values

Next == UNCHANGED <<op, attr, lit>>

Spec == Init /\ [][Next]_<<op, attr, lit>>

(***************************************************************************)
(* An INTEGER filter on a 4-byte attribute within the record selects a     *)
(* record exactly when "attr op filter" holds: matchRec's int subtraction  *)
(* diff = iattr - ifltr must not change the sign of the difference.        *)
(***************************************************************************)
IntegerFilterCorrect ==
    MatchRec(TRUE, op, "INTEGER", 0, IntSize, IntSize, attr, lit) = Compare(op, attr, lit)

=============================================================================
