---------------------------- MODULE MCCheckCache ----------------------------
(* Instances of CheckCache for TLC. Marks are about iterators: none here.  *)
EXTENDS CheckCache, TLC

Symmetry == Permutations(Requests)

TouchesOf == [t \in Txs |-> {}]
=============================================================================
