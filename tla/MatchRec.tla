----------------------------- MODULE MatchRec -----------------------------
(***************************************************************************)
(* The scan predicate of heapfile.C: HeapFileScan::startScan's parameter  *)
(* check and HeapFileScan::matchRec.  matchRec computes diff = attr -      *)
(* filter and tests its sign against the operator.  For INTEGER the        *)
(* subtraction is done in 32-bit int before the result is stored in a      *)
(* float, so it wraps (signed overflow; the wrapped result is what the     *)
(* build produces).  Float and string comparison keep the sign of the      *)
(* true difference and are modelled by it.                                 *)
(***************************************************************************)
EXTENDS Integers

MaxInt == 2147483647
MinInt == -2147483647 - 1

Operators == {"LT", "LTE", "EQ", "GTE", "GT", "NE"}
Datatypes == {"STRING", "INTEGER", "FLOAT"}

\* sizeof(int) and sizeof(float) on the target
IntSize   == 4
FloatSize == 4

(***************************************************************************)
(* startScan: a filter is accepted iff offset >= 0, length >= 1, the type  *)
(* is known, numeric types have their C size and the operator is known.    *)
(***************************************************************************)
ValidScanParams(offset, length, type, op) ==
    /\ offset >= 0 /\ length >= 1
    /\ type \in Datatypes
    /\ ~(type = "INTEGER" /\ length # IntSize)
    /\ ~(type = "FLOAT" /\ length # FloatSize)
    /\ op \in Operators

(***************************************************************************)
(* a - b in 32-bit two's complement, written so that no intermediate      *)
(* value leaves the 32-bit range.                                          *)
(***************************************************************************)
Sub32(a, b) ==
    CASE b < 0 /\ a > MaxInt + b -> (a + MinInt) - (b - MinInt)
      [] b > 0 /\ a < MinInt + b -> (a - MinInt) - (b + MinInt)
      [] OTHER                   -> a - b

\* mutant: LTE tested with a strict comparison
OpHoldsStrictLTE(op, diff) ==
    CASE op = "LT"  -> diff < 0
      [] op = "LTE" -> diff < 0
      [] op = "EQ"  -> diff = 0
      [] op = "GTE" -> diff >= 0
      [] op = "GT"  -> diff > 0
      [] op = "NE"  -> diff # 0

\* the second switch of matchRec: the operator applied to the sign of diff
OpHolds(op, diff) ==
    CASE op = "LT"  -> diff < 0
      [] op = "LTE" -> diff <= 0
      [] op = "EQ"  -> diff = 0
      [] op = "GTE" -> diff >= 0
      [] op = "GT"  -> diff > 0
      [] op = "NE"  -> diff # 0

(***************************************************************************)
(* matchRec for a record whose attribute at [offset, offset+length) holds  *)
(* attr: no filter matches everything; an attribute running past the end   *)
(* of the record never matches; otherwise the sign of the difference.      *)
(***************************************************************************)
MatchRec(filter, op, type, offset, length, recLen, attr, lit) ==
    IF ~filter THEN TRUE
    ELSE IF offset + length - 1 >= recLen THEN FALSE
    ELSE OpHolds(op, IF type = "INTEGER" THEN Sub32(attr, lit) ELSE attr - lit)

\* Reference: the comparison the operator names, on the values themselves.
Compare(op, a, b) ==
    CASE op = "LT"  -> a < b
      [] op = "LTE" -> a <= b
      [] op = "EQ"  -> a = b
      [] op = "GTE" -> a >= b
      [] op = "GT"  -> a > b
      [] op = "NE"  -> a # b

=============================================================================
