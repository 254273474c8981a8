-------------------------- MODULE MCCachedIterators --------------------------
(* Instances of CachedIterators for TLC.                                   *)
EXTENDS CachedIterators, TLC

Symmetry == Permutations(Iterators)

(* Tuples of one user on objects of one type: every query is about them.   *)
TouchesOf == [t \in Txs |-> {"user"}]
EntitiesOfAll == [q \in Queries |-> {"user"}]
MatchesAll == [q \in Queries |-> Txs]
=============================================================================
