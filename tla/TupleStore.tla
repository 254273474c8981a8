----------------------------- MODULE TupleStore -----------------------------
(***************************************************************************)
(* What a datastore promises the writer of relationship tuples             *)
(* (storage.RelationshipTupleWriter): a Write takes effect in one step,    *)
(* all of it or nothing, and leaves exactly one changelog entry for every  *)
(* tuple it changed.  Datastores are shown to implement this               *)
(* specification; it says nothing of transactions, locks or failures.      *)
(***************************************************************************)
EXTENDS Sequences

CONSTANTS
    Keys,    \* the (object, relation, user) triples of one store
    Conds,   \* the conditions a stored tuple can carry, "no condition" included
    Absent   \* marks a key that has no tuple

VARIABLES
    tuples,  \* the condition stored with each key, or Absent
    history  \* per key, the values its changelog entries announce, oldest first

storeVars == <<tuples, history>>

Value == Conds \cup {Absent}

StoreTypeOK ==
    /\ tuples \in [Keys -> Value]
    /\ history \in [Keys -> Seq(Value)]

StoreInit ==
    /\ tuples = [k \in Keys |-> Absent]
    /\ history = [k \in Keys |-> <<>>]

(* One Write: the deleted keys had a tuple, the written ones had none.     *)
(* batch maps every key to the value the Write leaves there; the keys it   *)
(* does not touch are not in changed.                                      *)
StoreWrite(changed, batch) ==
    /\ \A k \in changed : (tuples[k] = Absent) <=> (batch[k] # Absent)
    /\ tuples' = [k \in Keys |-> IF k \in changed THEN batch[k] ELSE tuples[k]]
    /\ history' = [k \in Keys |-> IF k \in changed
                                  THEN Append(history[k], batch[k])
                                  ELSE history[k]]

StoreNext ==
    \E changed \in SUBSET Keys : \E batch \in [Keys -> Value] :
        StoreWrite(changed, batch)

StoreSpec == StoreInit /\ [][StoreNext]_storeVars

=============================================================================
