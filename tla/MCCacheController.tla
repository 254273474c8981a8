-------------------------- MODULE MCCacheController --------------------------
(* Instances of CacheController for TLC.                                   *)
EXTENDS CacheController

(* Tuples of one user on two objects of a type share the user's entity.    *)
TouchesOf == [t \in Txs |-> {t, "user"}]
EntityKeys == Txs \cup {"user"}
=============================================================================
