--------------------------- MODULE MCCheckReducers ---------------------------
(***************************************************************************)
(* CheckReducers with the operands of an exclusion and one more.           *)
(***************************************************************************)
EXTENDS CheckReducers
=============================================================================
