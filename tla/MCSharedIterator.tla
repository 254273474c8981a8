-------------------------- MODULE MCSharedIterator --------------------------
(* Instances of SharedIterator for TLC.                                    *)
EXTENDS SharedIterator, TLC

CONSTANTS k1, k2

MethodOf == [k \in Keys |-> IF k = k1 THEN "rswu" ELSE "rut"]
ReadOnly == [k \in Keys |-> "read"]

Symmetry == Permutations(Readers) \cup Permutations(Items)
=============================================================================
