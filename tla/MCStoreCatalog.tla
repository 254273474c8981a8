---------------------------- MODULE MCStoreCatalog ----------------------------
(* Requests of every kind about two stores and two models in the format of   *)
(* one row per type, the older of which is no longer valid; identifiers are   *)
(* drawn from 3 on, and 9 is never drawn.                                     *)
EXTENDS StoreCatalog

MCRows0 == {[id |-> 1, type |-> "c"], [id |-> 2, type |-> "a"], [id |-> 2, type |-> "b"]}

MCRequests == {[op |-> "createStore", id |-> 0], [op |-> "deleteStore", id |-> 2],
               [op |-> "getStore", id |-> 1], [op |-> "writeModel", id |-> 0],
               [op |-> "readModel", id |-> 2], [op |-> "readModel", id |-> 9],
               [op |-> "query", id |-> 0], [op |-> "query", id |-> 1], [op |-> "query", id |-> 9],
               [op |-> "writeAssertions", id |-> 0], [op |-> "readAssertions", id |-> 2]}
=============================================================================
