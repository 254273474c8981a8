------------------------------- MODULE Sorting -------------------------------
(***************************************************************************)
(* ORDER BY: the elements of a finite set as a sequence.  The order is a   *)
(* set of pairs in which neither, or one, of two elements comes before the *)
(* other; the database is free in the order of elements of which neither   *)
(* does.                                                                   *)
(***************************************************************************)
EXTENDS Integers, Sequences, FiniteSets

Sorted(S, R) ==
    CHOOSE s \in [1..Cardinality(S) -> S] :
        \A i, j \in 1..Cardinality(S) : i < j => s[i] # s[j] /\ <<s[j], s[i]>> \notin R
=============================================================================
