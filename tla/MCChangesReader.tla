--------------------------- MODULE MCChangesReader ---------------------------
(* Instances of SqlWrite and ChangesReader for TLC.                        *)
EXTENDS ChangesReader

CONSTANTS none, cond  \* "no condition" and a condition

Ask(ds, ws, m, d) == [deletes |-> ds, writes |-> ws, onMissing |-> m, onDuplicate |-> d]
Writing(K, c) == [k \in Keys |-> IF k \in K THEN c ELSE Absent]

(* Requests that can meet each other on two keys: of one and of two keys,  *)
(* writes, deletes and both, with and without conditions, strict and not,  *)
(* and one that is refused.                                                *)
PairRequests ==
    { Ask({}, Writing({1, 2}, none), "error", "error"),
      Ask({}, Writing({1}, none), "error", "ignore"),
      Ask({1}, Writing({2}, cond), "ignore", "ignore"),
      Ask({2}, Writing({}, none), "error", "error"),
      Ask({1}, Writing({1}, none), "error", "error") }
=============================================================================
