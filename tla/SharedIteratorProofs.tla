------------------------ MODULE SharedIteratorProofs ------------------------
(***************************************************************************)
(* SharedIterator for any number of requests, queries, items and rows: the *)
(* reference counts are exact and no clone reads a stopped iterator, the   *)
(* counter of the storage accounts for its items, and clones are given the *)
(* rows in order.                                                          *)
(***************************************************************************)
EXTENDS SharedIterator, FiniteSetTheorems, TLAPS

(* The types the argument needs.                                           *)
CountTypes ==
    /\ status \in [Items -> {"free", "stored", "open", "failed"}]
    /\ base \in [Items -> BOOLEAN]
    /\ timer \in [Items -> {"off", "armed", "cleanup"}]
    /\ refs \in [Items -> Int]
    /\ closed \in [Items -> BOOLEAN]
    /\ slot \in [Keys -> Items \cup {NoItem}]
    /\ pc \in [Readers -> Stages]
    /\ key \in [Readers -> Keys]
    /\ item \in [Readers -> Items \cup {NoItem}]

(* Whoever is past the map has an item, and whoever is past unwrap has an  *)
(* opened one; an item's own instance lives from its opening to its timer. *)
Opened ==
    /\ \A r \in Readers : pc[r] \notin {"idle", "store"} => item[r] \in Items
    /\ \A r \in Readers : pc[r] \in Holding \cup {"clone"} => status[item[r]] = "open"
    /\ \A i \in Items : base[i] => status[i] = "open"
    /\ \A i \in Items : timer[i] = "armed" => base[i]

RInv == CountTypes /\ Opened /\ RefsCountHolders

(* The clones of an item are finitely many.                                *)
LEMMA HoldersFinite ==
    ASSUME NEW i \in Items
    PROVE  IsFiniteSet(Holders(i)) /\ Cardinality(Holders(i)) \in Nat
BY SharedAssumption, FS_Subset, FS_CardinalityType DEF Holders

(* The steps of Next and Head move requests from one stage with a clone to *)
(* another, and change nothing else of what is counted.                    *)
LEMMA InNext ==
    ASSUME CountTypes, NEW r \in Readers,
           CallNext(r) \/ Load(r) \/ Do(r) \/ FetchRead(r) \/ FetchKeep(r) \/ FetchRelease(r)
    PROVE  /\ UNCHANGED <<status, base, timer, refs, closed, slot, key, item>>
           /\ pc' \in [Readers -> Stages]
           /\ \A q \in Readers : /\ pc'[q] \in Holding <=> pc[q] \in Holding
                                 /\ pc[q] \notin Holding => pc'[q] = pc[q]
<1> USE DEF CountTypes, Holding, Stages, Goto, mapVars, itemVars
<1>1. CASE CallNext(r) BY <1>1 DEF CallNext
<1>2. CASE Load(r)
  <2>1. pc[r] = "next" /\ \E s \in {"open", "want"} : pc' = [pc EXCEPT ![r] = s]
    BY <1>2 DEF Load
  <2>2. UNCHANGED <<status, base, timer, refs, closed, slot, key, item>> BY <1>2 DEF Load
  <2> QED BY <2>1, <2>2
<1>3. CASE Do(r)
  <2>1. pc[r] = "want" /\ \E s \in {"fetch", "next", "waiting"} : pc' = [pc EXCEPT ![r] = s]
    BY <1>3 DEF Do
  <2>2. UNCHANGED <<status, base, timer, refs, closed, slot, key, item>> BY <1>3 DEF Do
  <2> QED BY <2>1, <2>2
<1>4. CASE FetchRead(r) BY <1>4 DEF FetchRead
<1>5. CASE FetchKeep(r) BY <1>5 DEF FetchKeep
<1>6. CASE FetchRelease(r) BY <1>6 DEF FetchRelease
<1> QED BY <1>1, <1>2, <1>3, <1>4, <1>5, <1>6

(* A step that changes neither the clones, nor an item's instance, count   *)
(* and state, keeps the counts exact.                                      *)
LEMMA SameHolders ==
    ASSUME RInv, \A i \in Items : Holders(i)' = Holders(i),
           UNCHANGED <<refs, base, closed>>,
           \A i \in Items : (status'[i] = "open") <=> (status[i] = "open")
    PROVE  RefsCountHolders'
BY DEF RInv, RefsCountHolders

(* Every step keeps the types.                                             *)
LEMMA CountTypesStep == RInv /\ [Next]_vars => CountTypes'
<1> SUFFICES ASSUME RInv, [Next]_vars PROVE CountTypes'
  OBVIOUS
<1> USE DEF RInv, CountTypes
<1>1. ASSUME NEW r \in Readers, NEW k \in Keys, Admit(r, k) PROVE CountTypes'
  BY <1>1 DEF Admit, Goto, itemVars, mapVars, Stages
<1>2. ASSUME NEW r \in Readers, LoadOrStore(r) PROVE CountTypes'
  BY <1>2 DEF LoadOrStore, Goto, Stages
<1>3. ASSUME NEW r \in Readers, Count(r) PROVE CountTypes'
  BY <1>3 DEF Count, Goto, itemVars, Stages
<1>4. ASSUME NEW r \in Readers, Produce(r) PROVE CountTypes'
  <2>1. item[r] \in Items BY <1>4 DEF Produce, Opened
  <2>2. UNCHANGED <<closed, slot, pc, key, item>>
    BY <1>4 DEF Produce, mapVars, readerVars
  <2>3. status' \in [Items -> {"free", "stored", "open", "failed"}]
    BY <1>4, <2>1 DEF Produce
  <2>4. base' \in [Items -> BOOLEAN] /\ refs' \in [Items -> Int]
    <3>1. base' = base \/ base' = [base EXCEPT ![item[r]] = TRUE] BY <1>4 DEF Produce
    <3>2. base' \in [Items -> BOOLEAN] BY <2>1, <3>1
    <3>3. refs' = refs \/ refs' = [refs EXCEPT ![item[r]] = 1] BY <1>4 DEF Produce
    <3>4. refs' \in [Items -> Int] BY <2>1, <3>3
    <3> QED BY <3>2, <3>4
  <2>5. timer' \in [Items -> {"off", "armed", "cleanup"}] BY <1>4, <2>1 DEF Produce
  <2> QED BY <2>2, <2>3, <2>4, <2>5
<1>5. ASSUME NEW r \in Readers, Unwrapped(r) PROVE CountTypes'
  BY <1>5 DEF Unwrapped, Goto, mapVars, itemVars, Stages
<1>6. ASSUME NEW r \in Readers, Drop(r) PROVE CountTypes'
  BY <1>6 DEF Drop, Leave, Goto, itemVars, Stages
<1>7. ASSUME NEW r \in Readers, Clone(r) PROVE CountTypes'
  BY <1>7 DEF Clone, Leave, Goto, mapVars, Stages, Opened
<1>8. ASSUME NEW r \in Readers, CallNext(r) \/ Load(r) \/ Do(r) \/ FetchRead(r)
                                 \/ FetchKeep(r) \/ FetchRelease(r)
      PROVE  CountTypes'
  BY <1>8, InNext
<1>10. ASSUME NEW r \in Readers, Stop(r) PROVE CountTypes'
  BY <1>10 DEF Stop, Leave, Unref, Goto, mapVars, Stages, Opened, Holding
<1>11. ASSUME NEW i \in Items, Expire(i) PROVE CountTypes'
  BY <1>11 DEF Expire, Unref, mapVars, readerVars
<1>12. ASSUME NEW i \in Items, Cleanup(i) PROVE CountTypes'
  BY <1>12 DEF Cleanup, readerVars
<1>13. CASE UNCHANGED vars
  BY <1>13 DEF vars, mapVars, itemVars, readerVars
<1> QED
  BY <1>1, <1>2, <1>3, <1>4, <1>5, <1>6, <1>7, <1>8, <1>10, <1>11, <1>12, <1>13
     DEF Next, Opening, Reading, ReadStartingWithUser, ReadUsersetTuples, Read

(* Every step keeps what is known of opened items.                         *)
LEMMA OpenedStep == RInv /\ [Next]_vars => Opened'
<1> SUFFICES ASSUME RInv, [Next]_vars PROVE Opened'
  OBVIOUS
<1> USE SharedAssumption DEF RInv, CountTypes, Opened, Holding
<1>1. ASSUME NEW r \in Readers, NEW k \in Keys, Admit(r, k) PROVE Opened'
  BY <1>1 DEF Admit, Goto, itemVars, mapVars
<1>2. ASSUME NEW r \in Readers, LoadOrStore(r) PROVE Opened'
  BY <1>2 DEF LoadOrStore, Goto
<1>3. ASSUME NEW r \in Readers, Count(r) PROVE Opened'
  BY <1>3 DEF Count, Goto, itemVars
<1>4. ASSUME NEW r \in Readers, Produce(r) PROVE Opened'
  BY <1>4 DEF Produce, mapVars, readerVars
<1>5. ASSUME NEW r \in Readers, Unwrapped(r) PROVE Opened'
  BY <1>5 DEF Unwrapped, Goto, mapVars, itemVars
<1>6. ASSUME NEW r \in Readers, Drop(r) PROVE Opened'
  BY <1>6 DEF Drop, Leave, Goto, itemVars
<1>7. ASSUME NEW r \in Readers, Clone(r) PROVE Opened'
  BY <1>7 DEF Clone, Leave, Goto, mapVars
<1>8. ASSUME NEW r \in Readers, CallNext(r) \/ Load(r) \/ Do(r) \/ FetchRead(r)
                                 \/ FetchKeep(r) \/ FetchRelease(r)
      PROVE  Opened'
  BY <1>8, InNext
<1>10. ASSUME NEW r \in Readers, Stop(r) PROVE Opened'
  BY <1>10 DEF Stop, Leave, Unref, Goto, mapVars
<1>11. ASSUME NEW i \in Items, Expire(i) PROVE Opened'
  BY <1>11 DEF Expire, Unref, mapVars, readerVars
<1>12. ASSUME NEW i \in Items, Cleanup(i) PROVE Opened'
  BY <1>12 DEF Cleanup, readerVars
<1>13. CASE UNCHANGED vars
  BY <1>13 DEF vars, mapVars, itemVars, readerVars
<1> QED
  BY <1>1, <1>2, <1>3, <1>4, <1>5, <1>6, <1>7, <1>8, <1>10, <1>11, <1>12, <1>13
     DEF Next, Opening, Reading, ReadStartingWithUser, ReadUsersetTuples, Read

(* Every step keeps the counts exact.                                      *)
LEMMA RefsStep == RInv /\ [Next]_vars => RefsCountHolders'
<1> SUFFICES ASSUME RInv, [Next]_vars PROVE RefsCountHolders'
  OBVIOUS
<1> USE SharedAssumption
<1>a. CountTypes /\ Opened /\ RefsCountHolders BY DEF RInv
<1>b. ASSUME NEW r \in Readers, pc[r] \notin Holding, pc'[r] \notin Holding,
             \A q \in Readers \ {r} : pc'[q] = pc[q] /\ item'[q] = item[q]
      PROVE  \A i \in Items : Holders(i)' = Holders(i)
  BY <1>b DEF Holders
<1>1. ASSUME NEW r \in Readers, NEW k \in Keys, Admit(r, k) PROVE RefsCountHolders'
  <2>1. \A i \in Items : Holders(i)' = Holders(i)
    BY <1>1, <1>a DEF Admit, Goto, Holders, Holding, CountTypes
  <2> QED BY <1>1, <2>1, SameHolders DEF Admit, itemVars
<1>2. ASSUME NEW r \in Readers, LoadOrStore(r) PROVE RefsCountHolders'
  <2>1. \A i \in Items : Holders(i)' = Holders(i)
    BY <1>2, <1>a, <1>b DEF LoadOrStore, Goto, Holding, CountTypes
  <2>2. \A i \in Items : (status'[i] = "open") <=> (status[i] = "open")
    BY <1>2, <1>a DEF LoadOrStore, CountTypes
  <2> QED BY <1>2, <2>1, <2>2, SameHolders DEF LoadOrStore
<1>3. ASSUME NEW r \in Readers, Count(r) PROVE RefsCountHolders'
  <2>1. \A i \in Items : Holders(i)' = Holders(i)
    BY <1>3, <1>a, <1>b DEF Count, Goto, Holding, CountTypes
  <2> QED BY <1>3, <2>1, SameHolders DEF Count, itemVars
<1>4. ASSUME NEW r \in Readers, Produce(r) PROVE RefsCountHolders'
  <2>0. PICK i \in Items : i = item[r] BY <1>4, <1>a DEF Produce, Opened
  <2>1. i \in Items /\ status[i] = "stored" BY <1>4, <2>0 DEF Produce
  <2>2. \A j \in Items : Holders(j)' = Holders(j) BY <1>4 DEF Produce, readerVars, Holders
  <2>3. Holders(i) = {} BY <1>a, <2>1 DEF Opened, Holders
  <2>4. ~base[i] /\ ~closed[i] BY <1>a, <2>1 DEF Opened, RefsCountHolders
  <2>5. CASE /\ status' = [status EXCEPT ![i] = "open"]
             /\ base' = [base EXCEPT ![i] = TRUE]
             /\ refs' = [refs EXCEPT ![i] = 1]
    <3>1. closed' = closed BY <1>4 DEF Produce
    <3>2. ASSUME NEW j \in Items, j # i
          PROVE  refs'[j] = refs[j] /\ base'[j] = base[j] /\ status'[j] = status[j]
      BY <1>a, <2>1, <2>5, <3>2 DEF CountTypes
    <3>3. refs'[i] = 1 /\ base'[i] = TRUE BY <1>a, <2>1, <2>5 DEF CountTypes
    <3>4. Cardinality({}) = 0 BY FS_EmptySet
    <3> QED BY <1>a, <2>1, <2>2, <2>3, <2>4, <3>1, <3>2, <3>3, <3>4 DEF RefsCountHolders
  <2>6. CASE status' = [status EXCEPT ![i] = "failed"] /\ UNCHANGED <<base, refs>>
    <3>1. closed' = closed BY <1>4 DEF Produce
    <3>2. \A j \in Items : (status'[j] = "open") <=> (status[j] = "open")
      BY <1>a, <2>1, <2>6 DEF CountTypes
    <3> QED BY <2>2, <2>6, <3>1, <3>2, SameHolders
  <2> QED BY <1>4, <2>0, <2>5, <2>6 DEF Produce
<1>5. ASSUME NEW r \in Readers, Unwrapped(r) PROVE RefsCountHolders'
  <2>1. \A i \in Items : Holders(i)' = Holders(i)
    BY <1>5, <1>a, <1>b DEF Unwrapped, Goto, Holding, CountTypes
  <2> QED BY <1>5, <2>1, SameHolders DEF Unwrapped, itemVars
<1>6. ASSUME NEW r \in Readers, Drop(r) PROVE RefsCountHolders'
  <2>1. \A i \in Items : Holders(i)' = Holders(i)
    BY <1>6, <1>a, <1>b DEF Drop, Leave, Goto, Holding, CountTypes
  <2> QED BY <1>6, <2>1, SameHolders DEF Drop, itemVars
<1>7. ASSUME NEW r \in Readers, Clone(r) PROVE RefsCountHolders'
  <2>0. PICK i \in Items : i = item[r] BY <1>7, <1>a DEF Clone, Opened
  <2>1. i \in Items /\ status[i] = "open" /\ UNCHANGED <<base, closed, status>>
    BY <1>7, <1>a, <2>0 DEF Clone, Opened
  <2>2. CASE ~base[i]
    <3>1. \A j \in Items : Holders(j)' = Holders(j)
      BY <1>7, <1>a, <1>b, <2>0, <2>2 DEF Clone, Leave, Goto, Holding, CountTypes
    <3>2. refs' = refs BY <1>7, <2>0, <2>2 DEF Clone
    <3> QED BY <2>1, <3>1, <3>2, SameHolders
  <2>3. CASE base[i]
    <3>1. refs' = [refs EXCEPT ![i] = @ + 1] /\ pc' = [pc EXCEPT ![r] = "open"] /\ item' = item
      BY <1>7, <2>0, <2>3 DEF Clone, Goto
    <3>2. Holders(i)' = Holders(i) \cup {r} /\ r \notin Holders(i)
      BY <1>7, <1>a, <2>0, <3>1 DEF Clone, Holders, Holding, CountTypes
    <3>3. \A j \in Items \ {i} : Holders(j)' = Holders(j)
      BY <1>a, <2>0, <3>1 DEF Holders, CountTypes
    <3>4. Cardinality(Holders(i)') = Cardinality(Holders(i)) + 1
      BY <2>1, <3>2, HoldersFinite, FS_AddElement
    <3>5. refs'[i] = refs[i] + 1 /\ \A j \in Items \ {i} : refs'[j] = refs[j]
      BY <1>a, <2>1, <3>1 DEF CountTypes
    <3>6. Cardinality(Holders(i)) \in Nat BY <2>1, HoldersFinite
    <3> QED BY <1>a, <2>1, <2>3, <3>2, <3>3, <3>4, <3>5, <3>6 DEF RefsCountHolders
  <2> QED BY <2>2, <2>3
<1>8. ASSUME NEW r \in Readers, CallNext(r) \/ Load(r) \/ Do(r) \/ FetchRead(r)
                                 \/ FetchKeep(r) \/ FetchRelease(r)
      PROVE  RefsCountHolders'
  <2>1. \A i \in Items : Holders(i)' = Holders(i) BY <1>8, <1>a, InNext DEF Holders
  <2> QED BY <1>8, <1>a, <2>1, InNext, SameHolders
<1>9. ASSUME NEW i \in Items, UNCHANGED status, Unref(i),
             \A j \in Items \ {i} : Holders(j)' = Holders(j) /\ base'[j] = base[j],
             ~closed[i], status[i] = "open",
             Cardinality(Holders(i)') + (IF base'[i] THEN 1 ELSE 0)
                = Cardinality(Holders(i)) + (IF base[i] THEN 1 ELSE 0) - 1,
             IsFiniteSet(Holders(i)'), base' \in [Items -> BOOLEAN]
      PROVE  RefsCountHolders'
  <2>1. /\ refs'[i] = refs[i] - 1 /\ closed'[i] = (closed[i] \/ refs[i] = 1)
        /\ \A j \in Items \ {i} : refs'[j] = refs[j] /\ closed'[j] = closed[j]
    BY <1>9, <1>a DEF Unref, CountTypes
  <2>2. Cardinality(Holders(i)) \in Nat /\ Cardinality(Holders(i)') \in Nat
    BY <1>9, HoldersFinite, FS_CardinalityType
  <2>3. Cardinality(Holders(i)') = 0 <=> Holders(i)' = {} BY <1>9, FS_EmptySet
  <2>4. refs[i] = Cardinality(Holders(i)) + (IF base[i] THEN 1 ELSE 0)
    BY <1>9, <1>a DEF RefsCountHolders
  <2>5. refs'[i] = Cardinality(Holders(i)') + (IF base'[i] THEN 1 ELSE 0)
    BY <1>9, <2>1, <2>2, <2>4
  <2>6. closed'[i] <=> refs[i] = 1 BY <1>9, <2>1
  <2>7. refs[i] = 1 <=> (Cardinality(Holders(i)') = 0 /\ ~base'[i])
    BY <1>9, <2>2, <2>4
  <2>8. \A j \in Items \ {i} :
            /\ refs'[j] = Cardinality(Holders(j)') + (IF base'[j] THEN 1 ELSE 0)
            /\ closed'[j] <=> (status'[j] = "open" /\ Holders(j)' = {} /\ ~base'[j])
    BY <1>9, <1>a, <2>1 DEF RefsCountHolders
  <2> QED BY <1>9, <2>3, <2>5, <2>6, <2>7, <2>8 DEF RefsCountHolders
<1>10. ASSUME NEW r \in Readers, Stop(r) PROVE RefsCountHolders'
  <2>0. PICK i \in Items : i = item[r] BY <1>10, <1>a DEF Stop, Opened
  <2>1. i \in Items /\ status[i] = "open" /\ Unref(i) /\ UNCHANGED <<base, status>>
    BY <1>10, <1>a, <2>0 DEF Stop, Opened, Holding
  <2>2. r \in Holders(i) /\ Holders(i)' = Holders(i) \ {r}
    BY <1>10, <1>a, <2>0 DEF Stop, Leave, Goto, Holders, Holding, CountTypes
  <2>3. \A j \in Items \ {i} : Holders(j)' = Holders(j)
    BY <1>10, <1>a, <2>0 DEF Stop, Leave, Goto, Holders, Holding, CountTypes
  <2>4. IsFiniteSet(Holders(i)') /\ Cardinality(Holders(i)') = Cardinality(Holders(i)) - 1
    BY <2>1, <2>2, HoldersFinite, FS_RemoveElement
  <2>5. ~closed[i] BY <1>a, <2>1, <2>2 DEF RefsCountHolders
  <2>6. Cardinality(Holders(i)) \in Nat BY <2>1, HoldersFinite
  <2>7. Cardinality(Holders(i)') + (IF base'[i] THEN 1 ELSE 0)
            = Cardinality(Holders(i)) + (IF base[i] THEN 1 ELSE 0) - 1
    BY <2>1, <2>4, <2>6
  <2>8. base' \in [Items -> BOOLEAN] BY <1>a, <2>1 DEF CountTypes
  <2> QED BY <1>9, <2>1, <2>3, <2>4, <2>5, <2>7, <2>8
<1>11. ASSUME NEW i \in Items, Expire(i) PROVE RefsCountHolders'
  <2>1. base[i] /\ status[i] = "open" /\ Unref(i) /\ UNCHANGED status
    BY <1>11, <1>a DEF Expire, Opened
  <2>2. \A j \in Items : Holders(j)' = Holders(j) BY <1>11 DEF Expire, readerVars, Holders
  <2>3. ~base'[i] /\ \A j \in Items \ {i} : base'[j] = base[j]
    BY <1>11, <1>a DEF Expire, CountTypes
  <2>4. ~closed[i] BY <1>a, <2>1 DEF RefsCountHolders
  <2>5. IsFiniteSet(Holders(i)') /\ Cardinality(Holders(i)) \in Nat BY <2>2, HoldersFinite
  <2>6. Cardinality(Holders(i)') + (IF base'[i] THEN 1 ELSE 0)
            = Cardinality(Holders(i)) + (IF base[i] THEN 1 ELSE 0) - 1
    BY <2>1, <2>2, <2>3, <2>5
  <2>7. base' \in [Items -> BOOLEAN] BY <1>11, <1>a DEF Expire, CountTypes
  <2> QED BY <1>9, <2>1, <2>2, <2>3, <2>4, <2>5, <2>6, <2>7
<1>12. ASSUME NEW i \in Items, Cleanup(i) PROVE RefsCountHolders'
  <2>1. \A j \in Items : Holders(j)' = Holders(j) BY <1>12 DEF Cleanup, readerVars, Holders
  <2> QED BY <1>12, <2>1, SameHolders DEF Cleanup
<1>13. CASE UNCHANGED vars
  <2>1. \A j \in Items : Holders(j)' = Holders(j) BY <1>13 DEF vars, readerVars, Holders
  <2> QED BY <1>13, <2>1, SameHolders DEF vars, itemVars
<1> QED
  BY <1>1, <1>2, <1>3, <1>4, <1>5, <1>6, <1>7, <1>8, <1>10, <1>11, <1>12, <1>13
     DEF Next, Opening, Reading, ReadStartingWithUser, ReadUsersetTuples, Read

LEMMA CountsInitially == Init => RInv
<1>1. ASSUME Init PROVE CountTypes /\ Opened
  BY <1>1, SharedAssumption DEF Init, CountTypes, Opened, Stages, Holding
<1>2. ASSUME Init PROVE RefsCountHolders
  <2>1. \A i \in Items : Holders(i) = {} BY <1>2 DEF Init, Holders, Holding
  <2>2. Cardinality({}) = 0 BY FS_EmptySet
  <2>3. \A i \in Items : refs[i] = 0 /\ status[i] = "free" BY <1>2 DEF Init
  <2>4. \A i \in Items : base[i] = FALSE /\ closed[i] = FALSE BY <1>2 DEF Init
  <2> QED BY <2>1, <2>2, <2>3, <2>4 DEF RefsCountHolders
<1> QED BY <1>1, <1>2 DEF RInv

(* The strengthened invariant holds in every reachable state.              *)
THEOREM CountsInductive == Spec => []RInv
<1>1. Init => RInv BY CountsInitially
<1>2. RInv /\ [Next]_vars => RInv' BY CountTypesStep, OpenedStep, RefsStep DEF RInv
<1> QED BY <1>1, <1>2, PTL DEF Spec

(* For any number of requests, queries and items the reference count of an *)
(* iterator is the number of instances that were not stopped, and the      *)
(* underlying iterator is stopped exactly when there is none.              *)
THEOREM RefsAreExact == Spec => []RefsCountHolders
<1>1. RInv => RefsCountHolders BY DEF RInv
<1> QED BY <1>1, CountsInductive, PTL

(* No request holds a clone of an iterator that was stopped.               *)
THEOREM ReadersAreSafe == Spec => []NoReadAfterStop
<1>1. RInv => NoReadAfterStop
  BY DEF RInv, Opened, RefsCountHolders, NoReadAfterStop, Holders, Holding
<1> QED BY <1>1, CountsInductive, PTL

-----------------------------------------------------------------------------
(* The counter of the storage. *)

Counting == {r \in Readers : pc[r] = "count"}
Stored   == {k \in Keys : slot[k] # NoItem}

(* An item is stored once: it was new when it was.                         *)
StoredOnce ==
    /\ \A k \in Keys : slot[k] \in Items => status[slot[k]] # "free"
    /\ \A k, l \in Keys : slot[k] = slot[l] /\ slot[k] # NoItem => k = l

AInv ==
    /\ RInv /\ StoredOnce
    /\ ctr \in Int /\ leaked \in Int /\ IsFiniteSet(Stored)
    /\ CounterAccounts

LEMMA CountingFinite == IsFiniteSet(Counting) /\ Cardinality(Counting) \in Nat
BY SharedAssumption, FS_Subset, FS_CardinalityType DEF Counting

(* Steps that leave the map alone.                                         *)
LEMMA MapStays ==
    ASSUME AInv, RInv', UNCHANGED mapVars, Counting' = Counting,
           \A i \in Items : status[i] # "free" => status'[i] # "free"
    PROVE  AInv'
<1>1. Stored' = Stored BY DEF Stored, mapVars
<1>2. StoredOnce' BY DEF AInv, StoredOnce, mapVars
<1>3. CounterAccounts' BY <1>1 DEF AInv, CounterAccounts, mapVars, Counting, Stored
<1> QED BY <1>1, <1>2, <1>3 DEF AInv, mapVars

LEMMA AccountsStep == AInv /\ [Next]_vars => AInv'
<1> SUFFICES ASSUME AInv, [Next]_vars PROVE AInv'
  OBVIOUS
<1>a. RInv' /\ CountTypes /\ Opened /\ CountTypes'
  BY CountTypesStep, OpenedStep, RefsStep DEF AInv, RInv
<1>b. ASSUME NEW r \in Readers, pc[r] # "count", pc'[r] # "count", \A q \in Readers \ {r} : pc'[q] = pc[q]
      PROVE  Counting' = Counting
  BY <1>b DEF Counting
<1>c. ctr \in Int /\ leaked \in Int /\ IsFiniteSet(Stored) /\ Cardinality(Stored) \in Nat
  BY FS_CardinalityType DEF AInv
<1>d. ctr + Cardinality(Counting) = Cardinality(Stored) + leaked
  BY DEF AInv, CounterAccounts, Counting, Stored
<1>1. ASSUME NEW r \in Readers, NEW k \in Keys, Admit(r, k) PROVE AInv'
  <2>1. Counting' = Counting BY <1>1, <1>a, <1>b DEF Admit, Goto, CountTypes
  <2> QED BY <1>1, <1>a, <2>1, MapStays DEF Admit, itemVars
<1>2. ASSUME NEW r \in Readers, LoadOrStore(r) PROVE AInv'
  <2>1. CASE slot[key[r]] # NoItem
    <3>1. UNCHANGED <<slot, status, ctr, leaked>> /\ Goto(r, "unwrap") BY <1>2, <2>1 DEF LoadOrStore
    <3>2. Counting' = Counting BY <1>2, <1>a, <1>b, <3>1 DEF LoadOrStore, Goto, CountTypes
    <3> QED BY <1>a, <3>1, <3>2, MapStays DEF mapVars
  <2>2. CASE slot[key[r]] = NoItem
    <3>1. PICK i \in Items : /\ status[i] = "free" /\ slot' = [slot EXCEPT ![key[r]] = i]
                             /\ status' = [status EXCEPT ![i] = "stored"]
      BY <1>2, <2>2 DEF LoadOrStore
    <3>2. pc[r] = "store" /\ pc' = [pc EXCEPT ![r] = "count"] /\ UNCHANGED <<ctr, leaked>> /\ key[r] \in Keys
      BY <1>2, <1>a, <2>2 DEF LoadOrStore, Goto, CountTypes
    <3>3. Counting' = Counting \cup {r} /\ r \notin Counting BY <1>a, <3>2 DEF Counting, CountTypes
    <3>4. Stored' = Stored \cup {key[r]} /\ key[r] \notin Stored
      BY <1>a, <2>2, <3>1, <3>2, SharedAssumption DEF Stored, CountTypes
    <3>5. Cardinality(Counting') = Cardinality(Counting) + 1
      BY <3>3, CountingFinite, FS_AddElement
    <3>6. IsFiniteSet(Stored') /\ Cardinality(Stored') = Cardinality(Stored) + 1
      BY <1>c, <3>4, FS_AddElement
    <3>7. ctr' + Cardinality(Counting') = Cardinality(Stored') + leaked'
      BY <1>c, <1>d, <3>2, <3>5, <3>6, CountingFinite
    <3>8. StoredOnce'
      BY <1>a, <3>1, <3>2, SharedAssumption DEF AInv, StoredOnce, CountTypes
    <3> QED BY <1>a, <1>c, <3>2, <3>6, <3>7, <3>8 DEF AInv, CounterAccounts, Counting, Stored
  <2> QED BY <2>1, <2>2
<1>3. ASSUME NEW r \in Readers, Count(r) PROVE AInv'
  <2>1. r \in Counting /\ Counting' = Counting \ {r} BY <1>3, <1>a DEF Count, Goto, Counting, CountTypes
  <2>2. Cardinality(Counting') = Cardinality(Counting) - 1 BY <2>1, CountingFinite, FS_RemoveElement
  <2>3. ctr' = ctr + 1 /\ UNCHANGED <<slot, leaked, status>> BY <1>3 DEF Count, itemVars
  <2>4. Stored' = Stored BY <2>3 DEF Stored
  <2>5. ctr' + Cardinality(Counting') = Cardinality(Stored') + leaked'
    BY <1>c, <1>d, <2>2, <2>3, <2>4, CountingFinite
  <2>6. StoredOnce' BY <2>3 DEF AInv, StoredOnce
  <2> QED BY <1>a, <1>c, <2>3, <2>4, <2>5, <2>6 DEF AInv, CounterAccounts, Counting, Stored
<1>4. ASSUME NEW r \in Readers, Produce(r) PROVE AInv'
  <2>1. Counting' = Counting BY <1>4 DEF Produce, readerVars, Counting
  <2>2. \A i \in Items : status[i] # "free" => status'[i] # "free"
    BY <1>4, <1>a DEF Produce, CountTypes
  <2> QED BY <1>4, <1>a, <2>1, <2>2, MapStays DEF Produce
<1>5. ASSUME NEW r \in Readers, Unwrapped(r) \/ Clone(r) PROVE AInv'
  <2>1. Counting' = Counting
    BY <1>5, <1>a, <1>b DEF Unwrapped, Clone, Leave, Goto, CountTypes
  <2> QED BY <1>5, <1>a, <2>1, MapStays DEF Unwrapped, Clone, itemVars
<1>6. ASSUME NEW r \in Readers, Drop(r) PROVE AInv'
  <2>1. Counting' = Counting BY <1>6, <1>a, <1>b DEF Drop, Leave, Goto, CountTypes
  <2>2. UNCHANGED <<status, ctr>> BY <1>6 DEF Drop, itemVars
  <2>3. CASE UNCHANGED <<slot, leaked>> BY <1>a, <2>1, <2>2, <2>3, MapStays DEF mapVars
  <2>4. CASE slot[key[r]] = item[r] /\ slot' = [slot EXCEPT ![key[r]] = NoItem] /\ leaked' = leaked + 1
    <3>1. item[r] \in Items /\ key[r] \in Keys BY <1>6, <1>a DEF Drop, Opened, CountTypes
    <3>2. key[r] \in Stored /\ Stored' = Stored \ {key[r]}
      BY <1>a, <2>4, <3>1, SharedAssumption DEF Stored, CountTypes
    <3>3. IsFiniteSet(Stored') /\ Cardinality(Stored') = Cardinality(Stored) - 1
      BY <1>c, <3>2, FS_RemoveElement
    <3>4. ctr' + Cardinality(Counting') = Cardinality(Stored') + leaked'
      BY <1>c, <1>d, <2>1, <2>2, <2>4, <3>3, CountingFinite
    <3>5. StoredOnce' BY <1>a, <2>2, <2>4, <3>1, SharedAssumption DEF AInv, StoredOnce, CountTypes
    <3> QED BY <1>a, <1>c, <2>2, <2>4, <3>3, <3>4, <3>5 DEF AInv, CounterAccounts, Counting, Stored
  <2> QED BY <1>6, <2>3, <2>4 DEF Drop
<1>8. ASSUME NEW r \in Readers, CallNext(r) \/ Load(r) \/ Do(r) \/ FetchRead(r)
                                 \/ FetchKeep(r) \/ FetchRelease(r)
      PROVE  AInv'
  <2>1. Counting' = Counting BY <1>8, <1>a, InNext DEF Counting, Holding
  <2>2. UNCHANGED mapVars
    BY <1>8 DEF CallNext, Load, Do, FetchRead, FetchKeep, FetchRelease
  <2> QED BY <1>8, <1>a, <2>1, <2>2, InNext, MapStays
<1>10. ASSUME NEW r \in Readers, Stop(r) PROVE AInv'
  <2>1. Counting' = Counting BY <1>10, <1>a, <1>b DEF Stop, Leave, Goto, CountTypes
  <2> QED BY <1>10, <1>a, <2>1, MapStays DEF Stop
<1>11. ASSUME NEW i \in Items, Expire(i) PROVE AInv'
  <2>1. Counting' = Counting BY <1>11 DEF Expire, readerVars, Counting
  <2> QED BY <1>11, <1>a, <2>1, MapStays DEF Expire
<1>12. ASSUME NEW i \in Items, Cleanup(i) PROVE AInv'
  <2>1. Counting' = Counting /\ UNCHANGED <<leaked, status>> BY <1>12 DEF Cleanup, readerVars, Counting
  <2>2. CASE UNCHANGED <<slot, ctr>> BY <1>a, <2>1, <2>2, MapStays DEF mapVars
  <2>3. CASE \E k \in Keys : slot[k] = i
    <3>1. PICK k \in Keys : slot[k] = i BY <2>3
    <3>2. /\ slot' = [l \in Keys |-> IF slot[l] = i THEN NoItem ELSE slot[l]] /\ ctr' = ctr - 1
      BY <1>12, <2>3 DEF Cleanup
    <3>3. k \in Stored /\ Stored' = Stored \ {k}
      BY <1>a, <3>1, <3>2, SharedAssumption DEF Stored, CountTypes, AInv, StoredOnce
    <3>4. IsFiniteSet(Stored') /\ Cardinality(Stored') = Cardinality(Stored) - 1
      BY <1>c, <3>3, FS_RemoveElement
    <3>5. ctr' + Cardinality(Counting') = Cardinality(Stored') + leaked'
      BY <1>c, <1>d, <2>1, <3>2, <3>4, CountingFinite
    <3>6. StoredOnce' BY <2>1, <3>2, SharedAssumption DEF AInv, StoredOnce
    <3> QED BY <1>a, <1>c, <2>1, <3>2, <3>4, <3>5, <3>6 DEF AInv, CounterAccounts, Counting, Stored
  <2> QED BY <1>12, <2>2, <2>3 DEF Cleanup
<1>13. CASE UNCHANGED vars
  <2>1. Counting' = Counting BY <1>13 DEF vars, readerVars, Counting
  <2> QED BY <1>13, <1>a, <2>1, MapStays DEF vars, itemVars
<1> QED
  BY <1>1, <1>2, <1>3, <1>4, <1>5, <1>6, <1>8, <1>10, <1>11, <1>12, <1>13
     DEF Next, Opening, Reading, ReadStartingWithUser, ReadUsersetTuples, Read

LEMMA AccountsInitially == Init => AInv
<1> SUFFICES ASSUME Init PROVE AInv
  OBVIOUS
<1>1. Counting = {} /\ Stored = {} BY DEF Init, Counting, Stored
<1>2. IsFiniteSet({}) /\ Cardinality({}) = 0 BY FS_EmptySet
<1>3. ctr = 0 /\ leaked = 0 BY DEF Init
<1>4. StoredOnce BY SharedAssumption DEF Init, StoredOnce
<1>5. CounterAccounts BY <1>1, <1>2, <1>3 DEF CounterAccounts, Counting, Stored
<1> QED BY <1>1, <1>2, <1>3, <1>4, <1>5, CountsInitially DEF AInv

(* How far Storage.ctr is off: it is the number of stored items, less the  *)
(* increments under way, and one more for every item that the error path   *)
(* took out without a decrement, which the comment on ctr does not allow.  *)
THEOREM CounterIsAccountedFor == Spec => []CounterAccounts
<1>1. AInv => CounterAccounts BY DEF AInv
<1> QED BY <1>1, AccountsInitially, AccountsStep, PTL DEF Spec

-----------------------------------------------------------------------------
(* The rows. *)

RowTypes ==
    /\ cursor \in [Items -> 0..Rows]
    /\ buffer \in [Items -> Seq(Nat)]
    /\ err \in [Items -> Errors]
    /\ fetcher \in [Items -> Readers \cup {NoReader}]
    /\ head \in [Readers -> Nat]
    /\ got \in [Readers -> [rows : Seq(Nat), err : Errors]]
    /\ answer \in [Readers -> Errors]

(* await.active names the one request that is in the fetch.                *)
InFetch == {"fetch", "keep", "release"}

OneFetches ==
    \A i \in Items, r \in Readers :
        fetcher[i] = r <=> (pc[r] \in InFetch /\ item[r] = i)

(* Between its Read and its store of the new state, a fetch has in its own *)
(* hands the rows that follow the buffer.                                  *)
Follows(i, r) ==
    /\ cursor[i] = Len(buffer[i]) + Len(got[r].rows)
    /\ \A j \in 1..Len(got[r].rows) : got[r].rows[j] = Len(buffer[i]) + j
    /\ got[r].err = "done" => cursor[i] = Rows

Taken ==
    \A r \in Readers : pc[r] = "keep" => Follows(item[r], r)

(* At any other time the buffer has all the rows that were taken.          *)
AllKept ==
    \A i \in Items :
        (\A r \in Readers : ~(pc[r] = "keep" /\ item[r] = i)) => cursor[i] = Len(buffer[i])

Numbered ==
    /\ \A i \in Items : \A j \in 1..Len(buffer[i]) : buffer[i][j] = j
    /\ \A i \in Items : err[i] = "done" => Len(buffer[i]) = Rows

(* A clone is within the buffer, and a new one is at its beginning.        *)
Within(r) ==
    IF pc[r] \in Holding
    THEN head[r] <= Len(buffer[item[r]]) /\ (answer[r] = "done" => head[r] = Rows)
    ELSE head[r] = 0 /\ answer[r] = "none"

Heads == \A r \in Readers : Within(r)

RowInv == RInv /\ RowTypes /\ OneFetches /\ Taken /\ AllKept /\ Numbered /\ Heads

(* A Read takes rows that are left, and says that it is done when it has   *)
(* taken them all.                                                         *)
LEMMA ReadsWhatIsLeft ==
    ASSUME RowTypes, NEW i \in Items, NEW e \in Reads(i)
    PROVE  /\ e.n \in Nat /\ e.err \in Errors /\ cursor[i] + e.n \in 0..Rows
           /\ e.err = "done" => (err[i] = "done" /\ e.n = 0) \/ cursor[i] + e.n = Rows
<1>1. cursor[i] \in 0..Rows /\ err[i] \in Errors BY DEF RowTypes
<1>2. Rows \in Nat /\ BufferSize \in Nat \ {0} BY SharedAssumption
<1>3. CASE err[i] # "none" BY <1>1, <1>2, <1>3 DEF Reads
<1>4. CASE err[i] = "none"
  <2>1. \/ e = [n |-> BufferSize, err |-> "none"] /\ Rows - cursor[i] >= BufferSize
        \/ e = [n |-> Rows - cursor[i], err |-> "done"]
        \/ \E m \in 0..(BufferSize - 1) : m <= Rows - cursor[i] /\ e = [n |-> m, err |-> "failed"]
    BY <1>4 DEF Reads
  <2> QED BY <1>1, <1>2, <2>1 DEF Errors
<1> QED BY <1>3, <1>4

(* Two requests are never in the fetch of one item.                        *)
LEMMA FetchesAlone ==
    ASSUME OneFetches, NEW i \in Items, NEW r \in Readers, pc[r] \in InFetch, item[r] = i
    PROVE  \A q \in Readers : pc[q] \in InFetch /\ item[q] = i => q = r
BY DEF OneFetches

(* A step of one request that leaves the buffers alone.                    *)
LEMMA OneHeadMoves ==
    ASSUME RowInv, NEW r \in Readers, UNCHANGED buffer, Within(r)',
           \A q \in Readers \ {r} : /\ pc'[q] = pc[q] /\ item'[q] = item[q]
                                    /\ head'[q] = head[q] /\ answer'[q] = answer[q]
    PROVE  Heads'
BY DEF RowInv, Heads, Within

(* A step that fetches nothing.                                            *)
LEMMA NothingFetched ==
    ASSUME RowInv, RInv', UNCHANGED <<cursor, buffer, err, fetcher, got>>,
           \A q \in Readers : pc[q] \in InFetch \/ pc'[q] \in InFetch
                                => pc'[q] = pc[q] /\ item'[q] = item[q],
           head' \in [Readers -> Nat], answer' \in [Readers -> Errors], Heads'
    PROVE  RowInv'
<1>1. RowTypes' BY DEF RowInv, RowTypes
<1>2. OneFetches'
  <2> SUFFICES ASSUME NEW i \in Items, NEW q \in Readers
               PROVE  fetcher'[i] = q <=> (pc'[q] \in InFetch /\ item'[q] = i)
    BY DEF OneFetches
  <2> QED BY DEF RowInv, OneFetches
<1>3. Taken'
  <2> SUFFICES ASSUME NEW q \in Readers, pc'[q] = "keep" PROVE Follows(item[q], q)' /\ item'[q] = item[q]
    BY DEF Taken
  <2>1. pc[q] = "keep" /\ item'[q] = item[q] BY DEF InFetch
  <2> QED BY <2>1 DEF RowInv, Taken, Follows
<1>4. AllKept'
  <2> SUFFICES ASSUME NEW i \in Items, \A q \in Readers : ~(pc'[q] = "keep" /\ item'[q] = i)
               PROVE  cursor'[i] = Len(buffer'[i])
    BY DEF AllKept
  <2>1. \A q \in Readers : ~(pc[q] = "keep" /\ item[q] = i) BY DEF InFetch
  <2> QED BY <2>1 DEF RowInv, AllKept
<1>5. Numbered' BY DEF RowInv, Numbered
<1> QED BY <1>1, <1>2, <1>3, <1>4, <1>5 DEF RowInv

LEMMA DoKeepsRows == ASSUME RowInv, RInv', NEW r \in Readers, Do(r) PROVE RowInv'
<1>a. CountTypes /\ Opened /\ RowTypes BY DEF RowInv, RInv
<1>0. PICK i \in Items : i = item[r] BY <1>a DEF Do, Opened
<1>1. pc[r] = "want" /\ UNCHANGED <<cursor, buffer, err, item, head, got, answer>>
  BY DEF Do
<1>2. PICK s \in {"fetch", "next", "waiting"} : pc' = [pc EXCEPT ![r] = s] BY DEF Do, Goto
<1>3. pc'[r] = s /\ \A q \in Readers \ {r} : pc'[q] = pc[q] BY <1>a, <1>2 DEF CountTypes
<1>4. Heads'
  <2>1. Within(r) BY DEF RowInv, Heads
  <2>2. Within(r)' BY <1>1, <1>3, <2>1 DEF Within, Holding
  <2> QED BY <1>1, <1>3, <2>2, OneHeadMoves
<1>5. CASE UNCHANGED fetcher /\ s # "fetch"
  BY <1>a, <1>1, <1>3, <1>4, <1>5, NothingFetched DEF InFetch, RowTypes
<1>6. CASE fetcher[i] = NoReader /\ fetcher' = [fetcher EXCEPT ![i] = r] /\ s = "fetch"
  <2>1. fetcher'[i] = r /\ \A j \in Items \ {i} : fetcher'[j] = fetcher[j]
    BY <1>a, <1>6 DEF RowTypes
  <2>2. RowTypes' BY <1>a, <1>1, <1>6 DEF RowTypes
  <2>3. \A q \in Readers : ~(pc[q] \in InFetch /\ item[q] = i)
    BY <1>6, SharedAssumption DEF RowInv, OneFetches
  <2>4. OneFetches'
    <3> SUFFICES ASSUME NEW j \in Items, NEW q \in Readers
                 PROVE  fetcher'[j] = q <=> (pc'[q] \in InFetch /\ item'[q] = j)
      BY DEF OneFetches
    <3>1. fetcher[j] = q <=> (pc[q] \in InFetch /\ item[q] = j) BY DEF RowInv, OneFetches
    <3>2. CASE q = r BY <1>0, <1>1, <1>3, <1>6, <2>1, <3>1, <3>2 DEF InFetch
    <3>3. CASE q # r BY <1>1, <1>3, <2>1, <2>3, <3>1, <3>3
    <3> QED BY <3>2, <3>3
  <2>5. Taken' BY <1>1, <1>3, <1>6 DEF RowInv, Taken, Follows
  <2>6. AllKept' BY <1>1, <1>3, <1>6 DEF RowInv, AllKept
  <2>7. Numbered' BY <1>1 DEF RowInv, Numbered
  <2> QED BY <1>4, <2>2, <2>4, <2>5, <2>6, <2>7 DEF RowInv
<1> QED
  <2>1. \/ UNCHANGED fetcher /\ s # "fetch"
        \/ fetcher[i] = NoReader /\ fetcher' = [fetcher EXCEPT ![i] = r] /\ s = "fetch"
    <3>1. CASE fetcher[i] = NoReader
      BY <1>a, <1>0, <1>2, <1>3, <3>1 DEF Do, Goto, CountTypes
    <3>2. CASE fetcher[i] # NoReader
      BY <1>a, <1>0, <1>2, <1>3, <3>2 DEF Do, Goto, CountTypes
    <3> QED BY <3>1, <3>2
  <2> QED BY <2>1, <1>5, <1>6

LEMMA ReadKeepsRows == ASSUME RowInv, RInv', NEW r \in Readers, FetchRead(r) PROVE RowInv'
<1>a. CountTypes /\ Opened /\ RowTypes BY DEF RowInv, RInv
<1>0. PICK i \in Items : i = item[r] BY <1>a DEF FetchRead, Opened
<1>1. pc[r] = "fetch" /\ UNCHANGED <<buffer, err, fetcher, item, head, answer>> BY DEF FetchRead
<1>2. PICK e \in Reads(i) :
        /\ cursor' = [cursor EXCEPT ![i] = @ + e.n]
        /\ got' = [got EXCEPT ![r] = [rows |-> [j \in 1..e.n |-> cursor[i] + j], err |-> e.err]]
  BY <1>0 DEF FetchRead
<1>3. pc'[r] = "keep" /\ \A q \in Readers \ {r} : pc'[q] = pc[q]
  BY <1>a DEF FetchRead, Goto, CountTypes
<1>4. /\ e.n \in Nat /\ e.err \in Errors /\ cursor[i] + e.n \in 0..Rows
      /\ e.err = "done" => (err[i] = "done" /\ e.n = 0) \/ cursor[i] + e.n = Rows
  BY <1>a, ReadsWhatIsLeft
<1> DEFINE rows == [j \in 1..e.n |-> cursor[i] + j]
<1>5. cursor[i] \in Nat /\ Len(buffer[i]) \in Nat BY <1>a DEF RowTypes
<1>6. rows \in Seq(Nat) /\ Len(rows) = e.n /\ \A j \in 1..e.n : rows[j] = cursor[i] + j
  BY <1>4, <1>5
<1>7. /\ cursor'[i] = cursor[i] + e.n /\ got'[r].rows = rows /\ got'[r].err = e.err
      /\ \A j \in Items \ {i} : cursor'[j] = cursor[j]
      /\ \A q \in Readers \ {r} : got'[q] = got[q]
  BY <1>a, <1>2 DEF RowTypes
<1>8. cursor[i] = Len(buffer[i])
  <2>1. \A q \in Readers : ~(pc[q] = "keep" /\ item[q] = i)
    BY <1>0, <1>1, FetchesAlone DEF RowInv, InFetch
  <2> QED BY <2>1 DEF RowInv, AllKept
<1>9. RowTypes'
  <2>1. cursor' \in [Items -> 0..Rows] BY <1>a, <1>2, <1>4 DEF RowTypes
  <2>2. [rows |-> rows, err |-> e.err] \in [rows : Seq(Nat), err : Errors] BY <1>4, <1>6
  <2>3. got' = [got EXCEPT ![r] = [rows |-> rows, err |-> e.err]] BY <1>2
  <2> HIDE DEF rows
  <2>4. got' \in [Readers -> [rows : Seq(Nat), err : Errors]] BY <1>a, <2>2, <2>3 DEF RowTypes
  <2> QED BY <1>a, <1>1, <2>1, <2>4 DEF RowTypes
<1> HIDE DEF rows
<1>10. OneFetches'
  <2>1. \A q \in Readers : pc'[q] \in InFetch <=> pc[q] \in InFetch BY <1>1, <1>3 DEF InFetch
  <2> QED BY <1>1, <2>1 DEF RowInv, OneFetches
<1>11. Follows(i, r)'
  <2>1. e.err = "done" => cursor'[i] = Rows
    BY <1>4, <1>5, <1>7, <1>8, SharedAssumption DEF RowInv, Numbered
  <2>2. \A j \in 1..Len(rows) : rows[j] = Len(buffer[i]) + j BY <1>6, <1>8
  <2> QED BY <1>1, <1>6, <1>7, <1>8, <2>1, <2>2 DEF Follows
<1>12. Taken'
  <2> SUFFICES ASSUME NEW q \in Readers, pc'[q] = "keep" PROVE Follows(item[q], q)'
    BY DEF Taken
  <2>1. CASE q = r BY <1>0, <1>1, <1>11, <2>1 DEF Follows
  <2>2. CASE q # r
    <3>1. pc[q] = "keep" BY <1>3, <2>2
    <3>2. item[q] \in Items /\ item[q] # i
      BY <1>a, <1>0, <1>1, <2>2, <3>1, FetchesAlone DEF RowInv, InFetch, Opened
    <3>3. Follows(item[q], q) BY <3>1 DEF RowInv, Taken
    <3> QED BY <1>1, <1>7, <2>2, <3>2, <3>3 DEF Follows
  <2> QED BY <2>1, <2>2
<1>13. AllKept'
  <2> SUFFICES ASSUME NEW j \in Items, \A q \in Readers : ~(pc'[q] = "keep" /\ item'[q] = j)
               PROVE  cursor'[j] = Len(buffer'[j])
    BY DEF AllKept
  <2>1. j # i BY <1>0, <1>1, <1>3
  <2>2. \A q \in Readers : ~(pc[q] = "keep" /\ item[q] = j) BY <1>1, <1>3
  <2> QED BY <1>1, <1>7, <2>1, <2>2 DEF RowInv, AllKept
<1>14. Numbered' BY <1>1 DEF RowInv, Numbered
<1>15. Heads'
  <2>1. Within(r) BY DEF RowInv, Heads
  <2>2. Within(r)' BY <1>1, <1>3, <2>1 DEF Within, Holding
  <2> QED BY <1>1, <1>3, <2>2, OneHeadMoves
<1> QED BY <1>9, <1>10, <1>12, <1>13, <1>14, <1>15 DEF RowInv

(* Rows numbered from one, and the rows that follow them.                  *)
LEMMA RowsJoin ==
    ASSUME NEW s \in Seq(Nat), NEW t \in Seq(Nat),
           \A j \in 1..Len(s) : s[j] = j, \A j \in 1..Len(t) : t[j] = Len(s) + j
    PROVE  /\ s \o t \in Seq(Nat) /\ Len(s \o t) = Len(s) + Len(t)
           /\ Len(s) \in Nat /\ Len(t) \in Nat
           /\ \A j \in 1..Len(s \o t) : (s \o t)[j] = j
<1>1. Len(s) \in Nat /\ Len(t) \in Nat OBVIOUS
<1>2. s \o t \in Seq(Nat) /\ Len(s \o t) = Len(s) + Len(t) OBVIOUS
<1>3. ASSUME NEW j \in 1..(Len(s) + Len(t)) PROVE (s \o t)[j] = j
  <2>1. (s \o t)[j] = IF j <= Len(s) THEN s[j] ELSE t[j - Len(s)] OBVIOUS
  <2>2. CASE j <= Len(s) BY <1>1, <2>1, <2>2
  <2>3. CASE ~(j <= Len(s))
    <3>1. j - Len(s) \in 1..Len(t) /\ Len(s) + (j - Len(s)) = j BY <1>1, <2>3
    <3>2. t[j - Len(s)] = j BY <3>1
    <3> QED BY <2>1, <2>3, <3>2
  <2> QED BY <2>2, <2>3
<1> QED BY <1>1, <1>2, <1>3

LEMMA KeepKeepsRows == ASSUME RowInv, RInv', NEW r \in Readers, FetchKeep(r) PROVE RowInv'
<1>a. CountTypes /\ Opened /\ RowTypes BY DEF RowInv, RInv
<1>0. PICK i \in Items : i = item[r] BY <1>a DEF FetchKeep, Opened
<1> DEFINE b == buffer[i] \o got[r].rows
<1> DEFINE f == IF got[r].err # "none" THEN got[r].err ELSE err[i]
<1>1. pc[r] = "keep" /\ UNCHANGED <<cursor, fetcher, item, head, answer>> BY DEF FetchKeep
<1>2. /\ buffer' = [buffer EXCEPT ![i] = b] /\ err' = [err EXCEPT ![i] = f]
      /\ got' = [got EXCEPT ![r] = Nothing]
  BY <1>0 DEF FetchKeep
<1>3. /\ pc'[r] = "release"
      /\ \A q \in Readers \ {r} : pc'[q] = pc[q] \/ (pc[q] = "waiting" /\ pc'[q] = "next")
  BY <1>a DEF FetchKeep, CountTypes
<1>4. /\ buffer[i] \in Seq(Nat) /\ got[r].rows \in Seq(Nat)
      /\ got[r].err \in Errors /\ err[i] \in Errors /\ cursor[i] \in 0..Rows
  BY <1>a DEF RowTypes
<1>5. Follows(i, r) BY <1>0, <1>1 DEF RowInv, Taken
<1>6. /\ b \in Seq(Nat) /\ Len(b) = Len(buffer[i]) + Len(got[r].rows)
      /\ Len(buffer[i]) \in Nat /\ Len(got[r].rows) \in Nat
      /\ \A j \in 1..Len(b) : b[j] = j
  <2>1. \A j \in 1..Len(buffer[i]) : buffer[i][j] = j BY DEF RowInv, Numbered
  <2> QED BY <1>4, <1>5, <2>1, RowsJoin DEF Follows
<1>7. f \in Errors BY <1>4
<1>8. Len(b) = cursor[i] /\ Len(buffer[i]) <= Len(b)
  <2> HIDE DEF b
  <2>1. Len(b) = cursor[i] BY <1>5, <1>6 DEF Follows
  <2>2. \A x, y \in Nat : x <= x + y OBVIOUS
  <2>3. Len(buffer[i]) <= Len(buffer[i]) + Len(got[r].rows) BY <1>6, <2>2
  <2> QED BY <1>6, <2>1, <2>3
<1>10. f = "done" => Len(b) = Rows
  <2> HIDE DEF b
  <2>1. CASE got[r].err = "done" BY <1>5, <1>8, <2>1 DEF Follows
  <2>2. CASE f = "done" /\ err[i] = "done"
    <3>1. Len(buffer[i]) = Rows BY <2>2 DEF RowInv, Numbered
    <3> QED BY <1>4, <1>8, <3>1, SharedAssumption
  <2> QED BY <2>1, <2>2
<1> HIDE DEF b, f
<1>11. /\ buffer'[i] = b /\ err'[i] = f
       /\ \A j \in Items \ {i} : buffer'[j] = buffer[j] /\ err'[j] = err[j]
       /\ \A q \in Readers \ {r} : got'[q] = got[q]
  BY <1>a, <1>2 DEF RowTypes
<1>12. RowTypes'
  <2>1. Nothing \in [rows : Seq(Nat), err : Errors]
    <3>1. <<>> \in Seq(Nat) OBVIOUS
    <3> QED BY <3>1 DEF Nothing, Errors
  <2>2. got' \in [Readers -> [rows : Seq(Nat), err : Errors]] BY <1>a, <1>2, <2>1 DEF RowTypes
  <2>3. buffer' \in [Items -> Seq(Nat)] BY <1>a, <1>2, <1>6 DEF RowTypes
  <2>4. err' \in [Items -> Errors] BY <1>a, <1>2, <1>7 DEF RowTypes
  <2> QED BY <1>a, <1>1, <2>2, <2>3, <2>4 DEF RowTypes
<1>13. OneFetches'
  <2>1. \A q \in Readers : pc'[q] \in InFetch <=> pc[q] \in InFetch BY <1>1, <1>3 DEF InFetch
  <2> QED BY <1>1, <2>1 DEF RowInv, OneFetches
<1>14. Taken'
  <2> SUFFICES ASSUME NEW q \in Readers, pc'[q] = "keep" PROVE Follows(item[q], q)'
    BY DEF Taken
  <2>1. q # r /\ pc[q] = "keep" BY <1>3
  <2>2. item[q] \in Items /\ item[q] # i
    BY <1>a, <1>0, <1>1, <2>1, FetchesAlone DEF RowInv, InFetch, Opened
  <2>3. Follows(item[q], q) BY <2>1 DEF RowInv, Taken
  <2> QED BY <1>1, <1>11, <2>1, <2>2, <2>3 DEF Follows
<1>15. AllKept'
  <2> SUFFICES ASSUME NEW j \in Items, \A q \in Readers : ~(pc'[q] = "keep" /\ item'[q] = j)
               PROVE  cursor'[j] = Len(buffer'[j])
    BY DEF AllKept
  <2>1. CASE j = i BY <1>1, <1>8, <1>11, <2>1
  <2>2. CASE j # i
    <3>1. \A q \in Readers : ~(pc[q] = "keep" /\ item[q] = j) BY <1>0, <1>1, <1>3, <2>2
    <3> QED BY <1>1, <1>11, <2>2, <3>1 DEF RowInv, AllKept
  <2> QED BY <2>1, <2>2
<1>16. Numbered' BY <1>6, <1>10, <1>11 DEF RowInv, Numbered
<1>17. Heads'
  <2> SUFFICES ASSUME NEW q \in Readers PROVE Within(q)'
    BY DEF Heads
  <2>1. Within(q) /\ head[q] \in Nat BY <1>a DEF RowInv, Heads, RowTypes
  <2>2. pc'[q] \in Holding <=> pc[q] \in Holding BY <1>1, <1>3 DEF Holding
  <2>3. CASE pc[q] \in Holding
    <3>1. item[q] \in Items BY <1>a, <2>3 DEF Opened, Holding
    <3>2. head[q] <= Len(buffer[item[q]]) /\ Len(buffer[item[q]]) \in Nat
      BY <1>a, <2>1, <2>3, <3>1 DEF Within, RowTypes
    <3>3. head[q] <= Len(buffer'[item[q]])
      <4>1. CASE item[q] = i
        <5>1. \A x, y, z \in Nat : x <= y /\ y <= z => x <= z OBVIOUS
        <5>2. Len(b) \in Nat BY <1>4, <1>8, SharedAssumption
        <5>3. head[q] <= Len(buffer[i]) /\ Len(buffer[i]) \in Nat BY <3>2, <4>1
        <5>4. head[q] <= Len(b) BY <1>8, <2>1, <5>1, <5>2, <5>3
        <5> QED BY <1>11, <4>1, <5>4
      <4>2. CASE item[q] # i BY <1>11, <3>1, <3>2, <4>2
      <4> QED BY <4>1, <4>2
    <3> QED BY <1>1, <2>1, <2>2, <2>3, <3>3 DEF Within
  <2>4. CASE pc[q] \notin Holding BY <1>1, <2>1, <2>2, <2>4 DEF Within
  <2> QED BY <2>3, <2>4
<1> QED BY <1>12, <1>13, <1>14, <1>15, <1>16, <1>17 DEF RowInv

LEMMA ReleaseKeepsRows == ASSUME RowInv, RInv', NEW r \in Readers, FetchRelease(r) PROVE RowInv'
<1>a. CountTypes /\ Opened /\ RowTypes BY DEF RowInv, RInv
<1>0. PICK i \in Items : i = item[r] BY <1>a DEF FetchRelease, Opened
<1>1. /\ pc[r] = "release" /\ fetcher' = [fetcher EXCEPT ![i] = NoReader]
      /\ UNCHANGED <<cursor, buffer, err, item, head, got, answer>>
  BY <1>0 DEF FetchRelease
<1>2. pc'[r] = "next" /\ \A q \in Readers \ {r} : pc'[q] = pc[q]
  BY <1>a DEF FetchRelease, Goto, CountTypes
<1>3. fetcher'[i] = NoReader /\ \A j \in Items \ {i} : fetcher'[j] = fetcher[j]
  BY <1>a, <1>1 DEF RowTypes
<1>4. RowTypes' BY <1>a, <1>1 DEF RowTypes
<1>5. OneFetches'
  <2> SUFFICES ASSUME NEW j \in Items, NEW q \in Readers
               PROVE  fetcher'[j] = q <=> (pc'[q] \in InFetch /\ item'[q] = j)
    BY DEF OneFetches
  <2>1. fetcher[j] = q <=> (pc[q] \in InFetch /\ item[q] = j) BY DEF RowInv, OneFetches
  <2>2. fetcher[i] = r BY <1>0, <1>1 DEF RowInv, OneFetches, InFetch
  <2>3. CASE q = r BY <1>0, <1>1, <1>2, <1>3, <2>1, <2>3, SharedAssumption DEF InFetch
  <2>4. CASE q # r BY <1>1, <1>2, <1>3, <2>1, <2>2, <2>4, SharedAssumption
  <2> QED BY <2>3, <2>4
<1>6. Taken' BY <1>1, <1>2 DEF RowInv, Taken, Follows
<1>7. AllKept' BY <1>1, <1>2 DEF RowInv, AllKept
<1>8. Numbered' BY <1>1 DEF RowInv, Numbered
<1>9. Heads'
  <2>1. Within(r) BY DEF RowInv, Heads
  <2>2. Within(r)' BY <1>1, <1>2, <2>1 DEF Within, Holding
  <2> QED BY <1>1, <1>2, <2>2, OneHeadMoves
<1> QED BY <1>4, <1>5, <1>6, <1>7, <1>8, <1>9 DEF RowInv

LEMMA LoadKeepsRows == ASSUME RowInv, RInv', NEW r \in Readers, Load(r) PROVE RowInv'
<1>a. CountTypes /\ Opened /\ RowTypes BY DEF RowInv, RInv
<1>0. PICK i \in Items : i = item[r] BY <1>a DEF Load, Opened
<1>1. /\ pc[r] = "next"
      /\ UNCHANGED <<cursor, buffer, err, fetcher, item, got>>
  BY DEF Load, itemVars
<1>2. PICK s \in {"open", "want"} : pc' = [pc EXCEPT ![r] = s] BY DEF Load, Goto
<1>3. pc'[r] = s /\ \A q \in Readers \ {r} : pc'[q] = pc[q] BY <1>a, <1>2 DEF CountTypes
<1>4. /\ head[r] \in Nat /\ head[r] <= Len(buffer[i]) /\ Len(buffer[i]) \in Nat
      /\ answer[r] = "done" => head[r] = Rows
  BY <1>a, <1>0, <1>1 DEF RowInv, RowTypes, Heads, Within, Holding
<1>5. \E h \in Nat, a \in Errors :
        /\ head' = [head EXCEPT ![r] = h] /\ answer' = [answer EXCEPT ![r] = a]
        /\ h <= Len(buffer[i]) /\ (a = "done" => h = Rows)
  <2>1. head = [head EXCEPT ![r] = head[r]] /\ answer = [answer EXCEPT ![r] = answer[r]]
    BY <1>a DEF RowTypes
  <2>2. CASE head[r] < Len(buffer[i])
    <3>1. PICK step \in {0, 1} : head' = [head EXCEPT ![r] = head[r] + step]
      BY <1>0, <1>4, <2>2 DEF Load
    <3>2. answer' = [answer EXCEPT ![r] = "none"] BY <1>0, <1>4, <2>2 DEF Load
    <3>3. head[r] + step \in Nat /\ head[r] + step <= Len(buffer[i]) BY <1>4, <2>2
    <3> QED BY <3>1, <3>2, <3>3 DEF Errors
  <2>3. CASE ~(head[r] < Len(buffer[i]))
    <3>1. head' = head BY <1>0, <1>4, <2>3 DEF Load
    <3>2. answer' = answer \/ answer' = [answer EXCEPT ![r] = err[i]]
      BY <1>0, <1>4, <2>3 DEF Load
    <3>3. err[i] \in Errors /\ answer[r] \in Errors BY <1>a DEF RowTypes
    <3>4. err[i] = "done" => head[r] = Rows
      BY <1>4, <2>3 DEF RowInv, Numbered
    <3>5. CASE answer' = answer BY <1>4, <2>1, <3>1, <3>3, <3>5
    <3>6. CASE answer' = [answer EXCEPT ![r] = err[i]] BY <1>4, <2>1, <3>1, <3>3, <3>4, <3>6
    <3> QED BY <3>2, <3>5, <3>6
  <2> QED BY <2>2, <2>3
<1>6. PICK h \in Nat, a \in Errors :
        /\ head' = [head EXCEPT ![r] = h] /\ answer' = [answer EXCEPT ![r] = a]
        /\ h <= Len(buffer[i]) /\ (a = "done" => h = Rows)
  BY <1>5
<1>7. head' \in [Readers -> Nat] /\ answer' \in [Readers -> Errors] BY <1>a, <1>6 DEF RowTypes
<1>8. Within(r)' BY <1>a, <1>0, <1>1, <1>3, <1>6 DEF Within, Holding, RowTypes
<1>9. Heads' BY <1>a, <1>1, <1>3, <1>6, <1>8, OneHeadMoves DEF RowTypes
<1> QED BY <1>1, <1>3, <1>7, <1>9, NothingFetched DEF InFetch

LEMMA RowsStep == RowInv /\ [Next]_vars => RowInv'
<1> SUFFICES ASSUME RowInv, [Next]_vars PROVE RowInv'
  OBVIOUS
<1>a. RInv' /\ CountTypes /\ Opened /\ RowTypes
  BY CountTypesStep, OpenedStep, RefsStep DEF RowInv, RInv
<1>b. ASSUME NEW r \in Readers, pc[r] \notin Holding, pc'[r] \notin Holding,
             UNCHANGED <<cursor, buffer, err, fetcher, got>>,
             \A q \in Readers \ {r} : pc'[q] = pc[q] /\ item'[q] = item[q],
             \/ UNCHANGED <<head, answer>>
             \/ /\ head' = [head EXCEPT ![r] = 0]
                /\ answer' = [answer EXCEPT ![r] = "none"]
      PROVE  RowInv'
  <2>1. head[r] = 0 /\ answer[r] = "none" BY <1>b DEF RowInv, Heads, Within
  <2>2. UNCHANGED <<head, answer>> BY <1>a, <1>b, <2>1 DEF RowTypes
  <2>3. Within(r)' BY <1>b, <2>1, <2>2 DEF Within
  <2>4. Heads' BY <1>b, <2>2, <2>3, OneHeadMoves
  <2> QED BY <1>a, <1>b, <2>2, <2>4, NothingFetched DEF RowTypes, Holding, InFetch
<1>1. ASSUME NEW r \in Readers, NEW k \in Keys, Admit(r, k) PROVE RowInv'
  BY <1>1, <1>a, <1>b DEF Admit, Goto, itemVars, Holding, CountTypes
<1>2. ASSUME NEW r \in Readers, LoadOrStore(r) PROVE RowInv'
  BY <1>2, <1>a, <1>b DEF LoadOrStore, Goto, Holding, CountTypes
<1>3. ASSUME NEW r \in Readers, Count(r) \/ Unwrapped(r) PROVE RowInv'
  BY <1>3, <1>a, <1>b DEF Count, Unwrapped, Goto, itemVars, Holding, CountTypes
<1>4. ASSUME UNCHANGED <<cursor, buffer, err, fetcher, readerVars>> PROVE RowInv'
  <2>1. Heads' BY <1>4 DEF RowInv, Heads, Within, readerVars
  <2> QED BY <1>4, <1>a, <2>1, NothingFetched DEF readerVars, RowTypes
<1>5. ASSUME NEW r \in Readers, Produce(r) PROVE RowInv'
  BY <1>4, <1>5 DEF Produce
<1>6. ASSUME NEW r \in Readers, Drop(r) PROVE RowInv'
  BY <1>6, <1>a, <1>b DEF Drop, Leave, Goto, itemVars, Holding, CountTypes
<1>7. ASSUME NEW r \in Readers, Clone(r) PROVE RowInv'
  <2>1. UNCHANGED <<cursor, buffer, err, fetcher>> /\ pc[r] = "clone" BY <1>7 DEF Clone
  <2>2. CASE base[item[r]]
    <3>1. pc' = [pc EXCEPT ![r] = "open"] /\ UNCHANGED <<item, head, got, answer>>
      BY <1>7, <2>2 DEF Clone, Goto
    <3>2. pc'[r] = "open" /\ \A q \in Readers \ {r} : pc'[q] = pc[q] BY <1>a, <3>1 DEF CountTypes
    <3>3. item[r] \in Items /\ head[r] = 0 /\ answer[r] = "none"
      BY <1>a, <2>1 DEF RowInv, Heads, Within, Holding, Opened
    <3>4. Len(buffer[item[r]]) \in Nat BY <1>a, <3>3 DEF RowTypes
    <3>5. Within(r)' BY <2>1, <3>1, <3>2, <3>3, <3>4 DEF Within, Holding
    <3>6. Heads' BY <2>1, <3>1, <3>2, <3>5, OneHeadMoves
    <3> QED BY <1>a, <2>1, <3>1, <3>2, <3>6, NothingFetched DEF RowTypes, InFetch
  <2>3. CASE ~base[item[r]]
    BY <1>7, <1>a, <1>b, <2>1, <2>3 DEF Clone, Leave, Goto, Holding, CountTypes
  <2> QED BY <2>2, <2>3
<1>8. ASSUME NEW r \in Readers, CallNext(r) PROVE RowInv'
  <2>1. /\ pc[r] = "open" /\ pc'[r] = "next" /\ \A q \in Readers \ {r} : pc'[q] = pc[q]
        /\ UNCHANGED <<cursor, buffer, err, fetcher, item, head, got, answer>>
    BY <1>8, <1>a DEF CallNext, Goto, itemVars, CountTypes
  <2>2. Within(r)' BY <2>1 DEF RowInv, Heads, Within, Holding
  <2>3. Heads' BY <2>1, <2>2, OneHeadMoves
  <2> QED BY <1>a, <2>1, <2>3, NothingFetched DEF RowTypes, InFetch
<1>9. ASSUME NEW r \in Readers, Stop(r) PROVE RowInv'
  <2>1. /\ pc[r] = "open" /\ pc'[r] = "idle" /\ head'[r] = 0 /\ answer'[r] = "none"
        /\ \A q \in Readers \ {r} : /\ pc'[q] = pc[q] /\ item'[q] = item[q]
                                    /\ head'[q] = head[q] /\ answer'[q] = answer[q]
        /\ UNCHANGED <<cursor, buffer, err, fetcher, got>>
    BY <1>9, <1>a DEF Stop, Leave, Goto, CountTypes, RowTypes
  <2>2. Within(r)' BY <2>1 DEF Within, Holding
  <2>3. Heads' BY <2>1, <2>2, OneHeadMoves
  <2>4. head' \in [Readers -> Nat] /\ answer' \in [Readers -> Errors]
    BY <1>9, <1>a DEF Stop, Leave, RowTypes, Errors
  <2> QED BY <1>a, <2>1, <2>3, <2>4, NothingFetched DEF InFetch
<1>10. ASSUME NEW i \in Items, Expire(i) \/ Cleanup(i) PROVE RowInv'
  BY <1>4, <1>10 DEF Expire, Cleanup
<1>11. CASE UNCHANGED vars BY <1>4, <1>11 DEF vars, itemVars
<1> QED
  BY <1>a, <1>1, <1>2, <1>3, <1>5, <1>6, <1>7, <1>8, <1>9, <1>10, <1>11,
     LoadKeepsRows, DoKeepsRows, ReadKeepsRows, KeepKeepsRows, ReleaseKeepsRows
     DEF Next, Opening, Reading, ReadStartingWithUser, ReadUsersetTuples, Read

LEMMA RowsInitially == Init => RowInv
<1> SUFFICES ASSUME Init PROVE RowInv
  OBVIOUS
<1>1. RowTypes
  <2>1. <<>> \in Seq(Nat) OBVIOUS
  <2>2. Nothing \in [rows : Seq(Nat), err : Errors] BY <2>1 DEF Nothing, Errors
  <2>3. got \in [Readers -> [rows : Seq(Nat), err : Errors]] BY <2>2 DEF Init
  <2> QED BY <2>1, <2>3, SharedAssumption DEF Init, RowTypes, Errors
<1>2. OneFetches BY SharedAssumption DEF Init, OneFetches, InFetch
<1>3. Taken /\ Heads BY DEF Init, Taken, Heads, Within, Holding
<1>4. \A i \in Items : Len(buffer[i]) = 0 /\ cursor[i] = 0 /\ err[i] = "none" BY DEF Init
<1>5. AllKept /\ Numbered BY <1>4 DEF AllKept, Numbered
<1> QED BY <1>1, <1>2, <1>3, <1>5, CountsInitially DEF RowInv

(* However the clones of an iterator fetch, wait and arrive late, the      *)
(* buffer they share is the rows of the underlying iterator in order, and  *)
(* a clone is told that it is done only when it has had the last of them.  *)
THEOREM RowsComeInOrder == Spec => []SharedRowsInOrder
<1>1. RowInv => SharedRowsInOrder
  BY DEF RowInv, Numbered, Heads, Within, SharedRowsInOrder
<1> QED BY <1>1, RowsInitially, RowsStep, PTL DEF Spec

-----------------------------------------------------------------------------
(* Types. *)

(* Only between its Read and the store of the new state has a request rows *)
(* in hand.                                                                *)
InHand ==
    /\ leaked \in Nat /\ own \in [Readers -> BOOLEAN]
    /\ \A r \in Readers : pc[r] # "keep" => got[r] = Nothing

(* The buffer has no more rows than were taken from the iterator.          *)
LEMMA BufferWithin == ASSUME RowInv, NEW i \in Items PROVE Len(buffer[i]) <= cursor[i]
<1>0. RowTypes BY DEF RowInv
<1>1. buffer[i] \in Seq(Nat) /\ cursor[i] \in 0..Rows BY <1>0 DEF RowTypes
<1>2. CASE \A r \in Readers : ~(pc[r] = "keep" /\ item[r] = i)
  BY <1>1, <1>2 DEF RowInv, AllKept
<1>3. ASSUME NEW r \in Readers, pc[r] = "keep", item[r] = i PROVE Len(buffer[i]) <= cursor[i]
  <2>1. got[r] \in [rows : Seq(Nat), err : Errors] BY <1>0 DEF RowTypes
  <2>2. got[r].rows \in Seq(Nat) BY <2>1
  <2>3. Len(got[r].rows) \in Nat /\ Len(buffer[i]) \in Nat BY <1>1, <2>2
  <2>4. cursor[i] = Len(buffer[i]) + Len(got[r].rows) BY <1>3 DEF RowInv, Taken, Follows
  <2>5. PICK a \in Nat, b \in Nat : a = Len(buffer[i]) /\ b = Len(got[r].rows) BY <2>3
  <2>6. cursor[i] = a + b BY <2>4, <2>5
  <2>7. a <= a + b OBVIOUS
  <2>8. a <= cursor[i] BY <2>6, <2>7, Zenon
  <2> QED BY <2>5, <2>8, Zenon
<1> QED BY <1>2, <1>3

(* Rows that follow the first n, as far as m.                              *)
LEMMA RowsUpTo ==
    ASSUME NEW n \in Nat, NEW m \in Nat, NEW s \in Seq(Nat), n + Len(s) <= m,
           \A j \in 1..Len(s) : s[j] = n + j
    PROVE  s \in Seq(1..m)
<1>1. PICK k \in Nat : k = Len(s) OBVIOUS
<1>2. \A j \in 1..k : n + j \in 1..m BY <1>1
<1>3. s \in [1..k -> 1..m] BY <1>1, <1>2
<1> QED BY <1>3

LEMMA InHandStep == RowInv /\ InHand /\ [Next]_vars => InHand'
<1> SUFFICES ASSUME RowInv, InHand, [Next]_vars PROVE InHand'
  OBVIOUS
<1>0. pc \in [Readers -> Stages] /\ got \in [Readers -> [rows : Seq(Nat), err : Errors]]
  BY DEF RowInv, RInv, CountTypes, RowTypes
<1> USE <1>0 DEF InHand
<1>1. ASSUME UNCHANGED <<leaked, own, pc, got>> PROVE InHand' BY <1>1
<1>2. ASSUME NEW r \in Readers, UNCHANGED got, NEW a, Goto(r, a), pc[r] # "keep",
             leaked' \in {leaked, leaked + 1}, own' \in [Readers -> BOOLEAN]
      PROVE  InHand'
  BY <1>2 DEF Goto
<1>3. ASSUME NEW r \in Readers, NEW k \in Keys,
             ReadStartingWithUser(r, k) \/ ReadUsersetTuples(r, k) \/ Read(r, k)
      PROVE  InHand'
  BY <1>2, <1>3 DEF ReadStartingWithUser, ReadUsersetTuples, Read, Admit, mapVars
<1>4. ASSUME NEW r \in Readers, Count(r) \/ LoadOrStore(r) \/ Unwrapped(r) \/ CallNext(r) PROVE InHand'
  BY <1>2, <1>4 DEF Count, LoadOrStore, Unwrapped, CallNext, mapVars
<1>5. ASSUME NEW r \in Readers, Produce(r) PROVE InHand'
  BY <1>1, <1>5 DEF Produce, mapVars, readerVars
<1>6. ASSUME NEW r \in Readers, Drop(r) \/ Clone(r) \/ Stop(r) PROVE InHand'
  BY <1>2, <1>6 DEF Drop, Clone, Stop, Leave, mapVars
<1>7. ASSUME NEW r \in Readers, Load(r) \/ Do(r) \/ FetchRelease(r) PROVE InHand'
  BY <1>2, <1>7 DEF Load, Do, FetchRelease, mapVars
<1>8. ASSUME NEW r \in Readers, FetchRead(r) PROVE InHand'
  <2>1. \A q \in Readers \ {r} : got'[q] = got[q] /\ pc'[q] = pc[q] BY <1>8 DEF FetchRead, Goto
  <2>2. pc'[r] = "keep" /\ UNCHANGED <<leaked, own>> BY <1>8 DEF FetchRead, Goto, mapVars
  <2> QED BY <2>1, <2>2
<1>9. ASSUME NEW r \in Readers, FetchKeep(r) PROVE InHand'
  <2>1. \A q \in Readers \ {r} : got'[q] = got[q] /\ (pc'[q] # "keep" => pc[q] # "keep")
    BY <1>9 DEF FetchKeep
  <2>2. got'[r] = Nothing /\ UNCHANGED <<leaked, own>> BY <1>9 DEF FetchKeep, mapVars
  <2> QED BY <2>1, <2>2
<1>10. ASSUME NEW i \in Items, Expire(i) \/ Cleanup(i) PROVE InHand'
  BY <1>1, <1>10 DEF Expire, Cleanup, mapVars, readerVars
<1>11. CASE UNCHANGED vars BY <1>1, <1>11 DEF vars, mapVars, readerVars
<1> QED BY <1>3, <1>4, <1>5, <1>6, <1>7, <1>8, <1>9, <1>10, <1>11 DEF Next, Opening, Reading

(* The variables keep their types: no buffer, no clone and no Read in      *)
(* progress ever has more than the rows there are.                         *)
THEOREM SharedTypes == Spec => []TypeOK
<1>1. Init => InHand BY DEF Init, InHand
<1>2. AInv /\ RowInv /\ InHand => TypeOK
  <2> SUFFICES ASSUME AInv, RowInv, InHand PROVE TypeOK
    OBVIOUS
  <2>1. RowTypes /\ CountTypes /\ Rows \in Nat BY SharedAssumption DEF RowInv, RInv
  <2>2. ASSUME NEW i \in Items PROVE Len(buffer[i]) \in 0..Rows /\ buffer[i] \in Seq(1..Rows)
    <3>1. buffer[i] \in Seq(Nat) /\ cursor[i] \in 0..Rows BY <2>1 DEF RowTypes
    <3>2. Len(buffer[i]) <= cursor[i] BY BufferWithin
    <3>3. \A j \in 1..Len(buffer[i]) : buffer[i][j] = 0 + j BY <3>1 DEF RowInv, Numbered
    <3>4. Len(buffer[i]) \in Nat /\ 0 + Len(buffer[i]) <= Rows BY <2>1, <3>1, <3>2
    <3>5. buffer[i] \in Seq(1..Rows) BY <2>1, <3>1, <3>3, <3>4, RowsUpTo
    <3> QED BY <2>1, <3>4, <3>5
  <2>3. ASSUME NEW r \in Readers PROVE head[r] \in 0..Rows
    <3>1. head[r] \in Nat BY <2>1 DEF RowTypes
    <3>2. CASE pc[r] \in Holding
      <4>1. item[r] \in Items /\ head[r] <= Len(buffer[item[r]])
        BY <3>2 DEF RowInv, RInv, Opened, Heads, Within, Holding
      <4> QED BY <2>1, <2>2, <3>1, <4>1
    <3>3. CASE pc[r] \notin Holding BY <2>1, <3>3 DEF RowInv, Heads, Within
    <3> QED BY <3>2, <3>3
  <2>4. ASSUME NEW r \in Readers PROVE got[r] \in [rows : Seq(1..Rows), err : Errors]
    <3>1. got[r] \in [rows : Seq(Nat), err : Errors] BY <2>1 DEF RowTypes
    <3>2. CASE pc[r] # "keep"
      <4>1. <<>> \in Seq(1..Rows) OBVIOUS
      <4>2. Nothing \in [rows : Seq(1..Rows), err : Errors] BY <4>1 DEF Nothing, Errors
      <4> QED BY <3>2, <4>2 DEF InHand
    <3>3. CASE pc[r] = "keep"
      <4>1. PICK i \in Items : i = item[r] BY <3>3 DEF RowInv, RInv, Opened
      <4>2. /\ cursor[i] = Len(buffer[i]) + Len(got[r].rows) /\ cursor[i] \in 0..Rows
            /\ \A j \in 1..Len(got[r].rows) : got[r].rows[j] = Len(buffer[i]) + j
        BY <2>1, <3>3, <4>1 DEF RowInv, Taken, Follows, RowTypes
      <4>3. Len(buffer[i]) \in Nat BY <2>2
      <4>4. got[r].rows \in Seq(Nat) /\ Len(got[r].rows) \in Nat BY <3>1
      <4>5. Len(buffer[i]) + Len(got[r].rows) <= Rows
        <5>1. PICK c \in 0..Rows : c = cursor[i] BY <4>2
        <5>2. c <= Rows BY <2>1
        <5>3. c = Len(buffer[i]) + Len(got[r].rows) BY <4>2, <5>1, Zenon
        <5> QED BY <5>2, <5>3, Zenon
      <4>6. got[r].rows \in Seq(1..Rows) BY <2>1, <4>2, <4>3, <4>4, <4>5, RowsUpTo
      <4> QED BY <3>1, <4>6
    <3> QED BY <3>2, <3>3
  <2>5. buffer \in [Items -> Seq(1..Rows)] BY <2>1, <2>2 DEF RowTypes
  <2>6. head \in [Readers -> 0..Rows] BY <2>1, <2>3 DEF RowTypes
  <2>7. got \in [Readers -> [rows : Seq(1..Rows), err : Errors]] BY <2>1, <2>4 DEF RowTypes
  <2> QED BY <2>1, <2>5, <2>6, <2>7 DEF TypeOK, RowTypes, CountTypes, InHand, AInv
<1> QED BY <1>1, <1>2, AccountsInitially, AccountsStep, RowsInitially, RowsStep, InHandStep, PTL DEF Spec

-----------------------------------------------------------------------------
(* Sharing is not seen: every clone is an iterator of the request's own.   *)

(* A clone that was told of an end or an error has had all there is, and   *)
(* nothing is added to what has ended: a Read after it brings no rows and  *)
(* the same error.                                                         *)
Sticky(r) ==
    pc[r] \in Holding /\ answer[r] # "none"
        => err[item[r]] = answer[r] /\ head[r] = Len(buffer[item[r]])

KeepsError(r) ==
    pc[r] = "keep" /\ err[item[r]] # "none"
        => got[r].rows = <<>> /\ got[r].err = err[item[r]]

Settled == \A r \in Readers : Sticky(r) /\ KeepsError(r)

(* A request that is left alone, or that holds no clone afterwards.        *)
LEMMA StaysSettled ==
    ASSUME NEW q \in Readers, Sticky(q), KeepsError(q), UNCHANGED <<buffer, err>>,
           \/ pc'[q] \notin Holding
           \/ /\ item'[q] = item[q] /\ head'[q] = head[q]
              /\ answer'[q] = answer[q] /\ got'[q] = got[q]
              /\ pc[q] \in Holding \/ answer[q] = "none"
              /\ pc'[q] = "keep" => pc[q] = "keep"
    PROVE  Sticky(q)' /\ KeepsError(q)'
BY DEF Sticky, KeepsError, Holding

LEMMA LoadSettles == ASSUME RowInv, Settled, NEW r \in Readers, Load(r) PROVE Settled'
<1>a. CountTypes /\ Opened /\ RowTypes BY DEF RowInv, RInv
<1>0. PICK i \in Items : i = item[r] BY <1>a DEF Load, Opened
<1>1. pc[r] = "next" /\ UNCHANGED <<buffer, err, item, got>> BY DEF Load, itemVars
<1>2. PICK s \in {"open", "want"} : pc' = [pc EXCEPT ![r] = s] BY DEF Load, Goto
<1>3. pc'[r] = s /\ \A q \in Readers \ {r} : pc'[q] = pc[q] BY <1>a, <1>2 DEF CountTypes
<1>4. \A q \in Readers \ {r} : head'[q] = head[q] /\ answer'[q] = answer[q]
  BY <1>a DEF Load, RowTypes
<1>5. ASSUME NEW q \in Readers \ {r} PROVE Sticky(q)' /\ KeepsError(q)'
  <2>1. Sticky(q) /\ KeepsError(q) BY DEF Settled
  <2>2. pc[q] \notin Holding => pc'[q] \notin Holding BY <1>3
  <2>3. CASE pc[q] \in Holding BY <1>1, <1>3, <1>4, <2>1, <2>3, StaysSettled
  <2>4. CASE pc[q] \notin Holding BY <1>1, <2>1, <2>2, <2>4, StaysSettled
  <2> QED BY <2>3, <2>4
<1>6. KeepsError(r)' BY <1>3 DEF KeepsError
<1>7. Sticky(r)'
  <2>1. head[r] \in Nat /\ Len(buffer[i]) \in Nat /\ head[r] <= Len(buffer[i])
    BY <1>a, <1>0, <1>1 DEF RowInv, RowTypes, Heads, Within, Holding
  <2>2. CASE head[r] < Len(buffer[i])
    <3>1. answer' = [answer EXCEPT ![r] = "none"] BY <1>0, <2>1, <2>2 DEF Load
    <3>2. answer'[r] = "none" BY <1>a, <3>1 DEF RowTypes
    <3> QED BY <3>2 DEF Sticky
  <2>3. CASE ~(head[r] < Len(buffer[i]))
    <3>1. head' = head /\ head[r] = Len(buffer[i]) BY <1>0, <2>1, <2>3 DEF Load
    <3>2. answer'[r] = err[i] \/ answer'[r] = answer[r] BY <1>a, <1>0, <2>1, <2>3 DEF Load, RowTypes
    <3>3. CASE answer'[r] = err[i] BY <1>0, <1>1, <3>1, <3>3 DEF Sticky
    <3>4. CASE answer'[r] = answer[r]
      <4>1. Sticky(r) BY DEF Settled
      <4> QED BY <1>0, <1>1, <3>1, <3>4, <4>1 DEF Sticky, Holding
    <3> QED BY <3>2, <3>3, <3>4
  <2> QED BY <2>2, <2>3
<1> QED BY <1>5, <1>6, <1>7 DEF Settled

LEMMA ReadSettles == ASSUME RowInv, Settled, NEW r \in Readers, FetchRead(r) PROVE Settled'
<1>a. CountTypes /\ Opened /\ RowTypes BY DEF RowInv, RInv
<1>0. PICK i \in Items : i = item[r] BY <1>a DEF FetchRead, Opened
<1>1. pc[r] = "fetch" /\ pc' = [pc EXCEPT ![r] = "keep"] /\ UNCHANGED <<buffer, err, item, head, answer>>
  BY DEF FetchRead, Goto
<1>2. PICK e \in Reads(i) : got' = [got EXCEPT ![r] = [rows |-> [j \in 1..e.n |-> cursor[i] + j],
                                                      err |-> e.err]]
  BY <1>0 DEF FetchRead
<1>3. \A q \in Readers \ {r} : pc'[q] = pc[q] /\ got'[q] = got[q]
  BY <1>a, <1>1, <1>2 DEF CountTypes, RowTypes
<1>4. ASSUME NEW q \in Readers \ {r} PROVE Sticky(q)' /\ KeepsError(q)'
  <2>1. Sticky(q) /\ KeepsError(q) BY DEF Settled
  <2> QED BY <1>1, <1>3, <2>1, StaysSettled
<1>5. Sticky(r)'
  <2>1. Sticky(r) BY DEF Settled
  <2> QED BY <1>1, <2>1 DEF Sticky, Holding
<1>6. KeepsError(r)'
  <2> SUFFICES ASSUME err[i] # "none" PROVE got'[r].rows = <<>> /\ got'[r].err = err[i]
    BY <1>0, <1>1 DEF KeepsError
  <2>1. e = [n |-> 0, err |-> err[i]] BY <1>2 DEF Reads
  <2>2. e.n = 0 /\ e.err = err[i] BY <2>1
  <2>3. got'[r] = [rows |-> [j \in 1..e.n |-> cursor[i] + j], err |-> e.err] BY <1>a, <1>2 DEF RowTypes
  <2>4. [j \in 1..e.n |-> cursor[i] + j] = <<>> BY <2>2
  <2> QED BY <2>2, <2>3, <2>4
<1> QED BY <1>4, <1>5, <1>6 DEF Settled

LEMMA KeepSettles == ASSUME RowInv, Settled, NEW r \in Readers, FetchKeep(r) PROVE Settled'
<1>a. CountTypes /\ Opened /\ RowTypes /\ OneFetches BY DEF RowInv, RInv
<1>0. PICK i \in Items : i = item[r] BY <1>a DEF FetchKeep, Opened
<1>1. /\ pc[r] = "keep" /\ pc'[r] = "release" /\ UNCHANGED <<item, head, answer>>
      /\ \A q \in Readers \ {r} : got'[q] = got[q]
      /\ \A q \in Readers \ {r} : \/ pc'[q] = pc[q]
                                  \/ pc[q] = "waiting" /\ pc'[q] = "next"
  BY <1>a DEF FetchKeep, RowTypes
<1>2. /\ buffer' = [buffer EXCEPT ![i] = buffer[i] \o got[r].rows]
      /\ err' = [err EXCEPT ![i] = IF got[r].err # "none" THEN got[r].err ELSE err[i]]
  BY <1>0 DEF FetchKeep
<1>3. \A q \in Readers : /\ pc'[q] \in Holding <=> pc[q] \in Holding
                         /\ pc'[q] = "keep" => pc[q] = "keep" /\ q # r
  BY <1>1 DEF Holding
<1>4. \A q \in Readers : Sticky(q) /\ KeepsError(q) BY DEF Settled
<1>5. CASE err[i] # "none"
  <2>1. got[r].rows = <<>> /\ got[r].err = err[i] BY <1>0, <1>1, <1>4, <1>5 DEF KeepsError
  <2>2. buffer[i] \in Seq(Nat) BY <1>a DEF RowTypes
  <2>3. buffer[i] \o <<>> = buffer[i] BY <2>2
  <2>4. buffer' = buffer /\ err' = err BY <1>a, <1>2, <2>1, <2>3 DEF RowTypes
  <2>5. ASSUME NEW q \in Readers PROVE Sticky(q)' BY <1>1, <1>3, <1>4, <2>4 DEF Sticky
  <2>6. ASSUME NEW q \in Readers PROVE KeepsError(q)' BY <1>1, <1>3, <1>4, <2>4 DEF KeepsError
  <2> QED BY <2>5, <2>6 DEF Settled
<1>6. CASE err[i] = "none"
  <2>1. \A k \in Items \ {i} : buffer'[k] = buffer[k] /\ err'[k] = err[k] BY <1>a, <1>2 DEF RowTypes
  <2>2. ASSUME NEW q \in Readers PROVE Sticky(q)'
    <3> SUFFICES ASSUME pc'[q] \in Holding, answer'[q] # "none"
                 PROVE  err'[item'[q]] = answer'[q] /\ head'[q] = Len(buffer'[item'[q]])
      BY DEF Sticky
    <3>1. pc[q] \in Holding /\ answer[q] # "none" BY <1>1, <1>3
    <3>2. err[item[q]] = answer[q] /\ head[q] = Len(buffer[item[q]]) BY <1>4, <3>1 DEF Sticky
    <3>3. item[q] \in Items \ {i} BY <1>a, <1>6, <3>1, <3>2 DEF Opened, Holding
    <3> QED BY <1>1, <2>1, <3>2, <3>3
  <2>3. ASSUME NEW q \in Readers PROVE KeepsError(q)'
    <3> SUFFICES ASSUME pc'[q] = "keep", err'[item'[q]] # "none"
                 PROVE  got'[q].rows = <<>> /\ got'[q].err = err'[item'[q]]
      BY DEF KeepsError
    <3>1. pc[q] = "keep" /\ q # r BY <1>3
    <3>2. item[q] # i BY <1>a, <1>0, <1>1, <3>1, FetchesAlone DEF InFetch
    <3>3. item[q] \in Items \ {i} BY <1>a, <3>1, <3>2 DEF Opened
    <3> QED BY <1>1, <1>4, <2>1, <3>1, <3>3 DEF KeepsError
  <2> QED BY <2>2, <2>3 DEF Settled
<1> QED BY <1>5, <1>6

LEMMA SettledStep == RowInv /\ Settled /\ [Next]_vars => Settled'
<1> SUFFICES ASSUME RowInv, Settled, [Next]_vars PROVE Settled'
  OBVIOUS
<1>a. CountTypes /\ Opened /\ RowTypes /\ Heads BY DEF RowInv, RInv
<1>b. ASSUME UNCHANGED <<buffer, err>>, NEW r \in Readers,
             \A q \in Readers \ {r} : /\ pc'[q] = pc[q] /\ item'[q] = item[q] /\ got'[q] = got[q]
                                      /\ head'[q] = head[q] /\ answer'[q] = answer[q],
             \/ pc'[r] \notin Holding
             \/ /\ UNCHANGED <<item, got, head, answer>>
                /\ pc'[r] # "keep"
      PROVE  Settled'
  <2>1. ASSUME NEW q \in Readers PROVE Sticky(q)' /\ KeepsError(q)'
    <3>1. Sticky(q) /\ KeepsError(q) BY DEF Settled
    <3>2. pc[q] \in Holding \/ answer[q] = "none" BY <1>a DEF Heads, Within
    <3>3. CASE q = r BY <1>b, <3>1, <3>2, <3>3, StaysSettled
    <3>4. CASE q # r BY <1>b, <3>1, <3>2, <3>4, StaysSettled
    <3> QED BY <3>3, <3>4
  <2> QED BY <2>1 DEF Settled
<1>1. ASSUME NEW r \in Readers, NEW k \in Keys, Admit(r, k) PROVE Settled'
  BY <1>1, <1>a, <1>b DEF Admit, Goto, itemVars, Holding, CountTypes
<1>2. ASSUME NEW r \in Readers, LoadOrStore(r) PROVE Settled'
  BY <1>2, <1>a, <1>b DEF LoadOrStore, Goto, Holding, CountTypes
<1>3. ASSUME NEW r \in Readers, Count(r) \/ Unwrapped(r) PROVE Settled'
  BY <1>3, <1>a, <1>b DEF Count, Unwrapped, Goto, itemVars, Holding, CountTypes
<1>4. ASSUME UNCHANGED <<buffer, err, readerVars>> PROVE Settled'
  BY <1>4 DEF Settled, Sticky, KeepsError, readerVars
<1>5. ASSUME NEW r \in Readers, Produce(r) PROVE Settled' BY <1>4, <1>5 DEF Produce
<1>6. ASSUME NEW r \in Readers, Drop(r) PROVE Settled'
  BY <1>6, <1>a, <1>b DEF Drop, Leave, Goto, itemVars, Holding, CountTypes, RowTypes
<1>7. ASSUME NEW r \in Readers, Clone(r) PROVE Settled'
  <2>1. CASE base[item[r]]
    BY <1>7, <1>a, <1>b, <2>1 DEF Clone, Goto, CountTypes
  <2>2. CASE ~base[item[r]]
    BY <1>7, <1>a, <1>b, <2>2 DEF Clone, Leave, Goto, Holding, CountTypes, RowTypes
  <2> QED BY <2>1, <2>2
<1>8. ASSUME NEW r \in Readers, CallNext(r) \/ FetchRelease(r) PROVE Settled'
  BY <1>8, <1>a, <1>b DEF CallNext, FetchRelease, Goto, itemVars, CountTypes
<1>9. ASSUME NEW r \in Readers, Do(r) PROVE Settled'
  <2>1. PICK s \in {"fetch", "next", "waiting"} : pc' = [pc EXCEPT ![r] = s] BY <1>9 DEF Do, Goto
  <2>2. UNCHANGED <<buffer, err, item, got, head, answer>> BY <1>9 DEF Do
  <2> QED BY <1>a, <1>b, <2>1, <2>2 DEF CountTypes
<1>10. ASSUME NEW r \in Readers, Stop(r) PROVE Settled'
  BY <1>10, <1>a, <1>b DEF Stop, Leave, Goto, Holding, CountTypes, RowTypes
<1>11. ASSUME NEW i \in Items, Expire(i) \/ Cleanup(i) PROVE Settled'
  BY <1>4, <1>11 DEF Expire, Cleanup
<1>12. CASE UNCHANGED vars BY <1>4, <1>12 DEF vars, itemVars
<1> QED
  BY <1>1, <1>2, <1>3, <1>5, <1>6, <1>7, <1>8, <1>9, <1>10, <1>11, <1>12,
     LoadSettles, ReadSettles, KeepSettles
     DEF Next, Opening, Reading, ReadStartingWithUser, ReadUsersetTuples, Read

(* What a clone has been given is the first rows, as many as its head says. *)
FirstRows(n) == [j \in 1..n |-> j]

RowsRead == readBar = [r \in Readers |-> FirstRows(head[r])]

LEMMA ClonesReadRows == RowInv => RowsRead
<1> SUFFICES ASSUME RowInv PROVE RowsRead
  OBVIOUS
<1>a. CountTypes /\ Opened /\ RowTypes /\ Heads /\ Numbered BY DEF RowInv, RInv
<1>1. ASSUME NEW s \in Seq(Nat), NEW h \in Nat, h <= Len(s), \A j \in 1..Len(s) : s[j] = j
      PROVE  SubSeq(s, 1, h) = FirstRows(h)
  <2>1. SubSeq(s, 1, h) = [j \in 1..h |-> s[j]] BY <1>1
  <2>2. \A j \in 1..h : s[j] = j BY <1>1
  <2> QED BY <2>1, <2>2 DEF FirstRows
<1>2. ASSUME NEW r \in Readers PROVE readBar[r] = FirstRows(head[r])
  <2>1. CASE pc[r] \in Holding
    <3>1. PICK i \in Items : i = item[r] BY <1>a, <2>1 DEF Opened, Holding
    <3>2. PICK s \in Seq(Nat) : s = buffer[i] BY <1>a DEF RowTypes
    <3>3. PICK h \in Nat : h = head[r] BY <1>a DEF RowTypes
    <3>4. h <= Len(s) /\ \A j \in 1..Len(s) : s[j] = j
      BY <1>a, <2>1, <3>1, <3>2, <3>3 DEF Heads, Within, Numbered
    <3>5. SubSeq(s, 1, h) = FirstRows(h) BY <1>1, <3>4
    <3> QED BY <2>1, <3>1, <3>2, <3>3, <3>5, Zenon DEF readBar
  <2>2. CASE pc[r] \notin Holding
    <3>1. head[r] = 0 BY <1>a, <2>2 DEF Heads, Within
    <3>2. FirstRows(0) = <<>> BY DEF FirstRows
    <3> QED BY <2>2, <3>1, <3>2 DEF readBar
  <2> QED BY <2>1, <2>2
<1> QED BY <1>2 DEF RowsRead, readBar

LEMMA ClonesReadRowsNext == RowInv' => RowsRead'
BY ClonesReadRows, PTL

LEMMA NextOfFirstRows ==
    ASSUME NEW n \in Nat
    PROVE  Len(FirstRows(n)) = n /\ FirstRows(n + 1) = Append(FirstRows(n), n + 1)
<1>1. FirstRows(n) \in Seq(Nat) /\ Len(FirstRows(n)) = n BY DEF FirstRows
<1>2. Append(FirstRows(n), n + 1) \in Seq(Nat) /\ Len(Append(FirstRows(n), n + 1)) = n + 1 BY <1>1
<1>3. FirstRows(n + 1) \in Seq(Nat) /\ Len(FirstRows(n + 1)) = n + 1 BY DEF FirstRows
<1>4. ASSUME NEW j \in 1..(n + 1) PROVE FirstRows(n + 1)[j] = Append(FirstRows(n), n + 1)[j]
  <2>1. CASE j = n + 1 BY <1>1, <2>1 DEF FirstRows
  <2>2. CASE j # n + 1
    <3>1. j \in 1..n BY <2>2
    <3>2. Append(FirstRows(n), n + 1)[j] = FirstRows(n)[j] BY <1>1, <3>1
    <3> QED BY <3>1, <3>2 DEF FirstRows
  <2> QED BY <2>1, <2>2
<1> QED BY <1>1, <1>2, <1>3, <1>4

(* A step that leaves the heads and the answers alone, and takes or gives  *)
(* up no clone, is not seen.                                               *)
LEMMA NotSeen ==
    ASSUME RowInv, RowInv', UNCHANGED <<head, answer>>,
           \A q \in Readers : pc'[q] \in Holding <=> pc[q] \in Holding
    PROVE  UNCHANGED Private!privateVars
<1>1. readBar' = readBar BY ClonesReadRows, ClonesReadRowsNext DEF RowsRead
<1>2. heldBar' = heldBar BY DEF heldBar
<1> QED BY <1>1, <1>2 DEF Private!privateVars

LEMMA LoadYieldsOrEnds ==
    ASSUME RowInv, RowInv', Settled, NEW r \in Readers, Load(r)
    PROVE  [Private!PrivateNext]_(Private!privateVars)
<1>a. CountTypes /\ Opened /\ RowTypes /\ Heads /\ Numbered BY DEF RowInv, RInv
<1>0. PICK i \in Items : i = item[r] BY <1>a DEF Load, Opened
<1>1. pc[r] = "next" BY DEF Load
<1>2. \A q \in Readers : pc'[q] \in Holding <=> pc[q] \in Holding BY <1>a, InNext
<1>3. heldBar' = heldBar /\ heldBar[r]
  <2>1. heldBar' = heldBar BY <1>2 DEF heldBar
  <2>2. pc[r] \in Holding BY <1>1 DEF Holding
  <2> QED BY <2>1, <2>2, Zenon DEF heldBar
<1>4. /\ head[r] \in Nat /\ Len(buffer[i]) \in Nat /\ head[r] <= Len(buffer[i])
      /\ answer[r] # "none" => err[i] = answer[r] /\ head[r] = Len(buffer[i])
  BY <1>a, <1>0, <1>1 DEF RowTypes, Heads, Within, Holding, Settled, Sticky
<1>5. PICK n \in Nat : n = head[r] BY <1>4
<1>6. readBar[r] = FirstRows(n) /\ Len(readBar[r]) = n BY <1>5, ClonesReadRows, NextOfFirstRows DEF RowsRead
<1>7. CASE head[r] < Len(buffer[i])
  <2>1. PICK step \in {0, 1} : head' = [head EXCEPT ![r] = head[r] + step] BY <1>0, <1>4, <1>7 DEF Load
  <2>2. answer[r] = "none" BY <1>4, <1>7
  <2>3. answer' = answer BY <1>a, <1>0, <1>4, <1>7, <2>2 DEF Load, RowTypes
  <2>4. CASE step = 0
    <3>1. head' = head BY <1>a, <1>4, <2>1, <2>4 DEF RowTypes
    <3> QED BY <1>2, <2>3, <3>1, NotSeen
  <2>5. CASE step = 1
    <3>1. head' = [head EXCEPT ![r] = n + 1] BY <1>5, <2>1, <2>5
    <3>2. n < Rows
      <4>1. pc'[r] \in Holding /\ item'[r] = i BY <1>0, <1>1, <1>2 DEF Load, Holding
      <4>2. buffer' = buffer BY DEF Load, itemVars
      <4>3. Len(buffer[i]) <= cursor[i] /\ cursor[i] \in 0..Rows
        <5>1. cursor[i] \in 0..Rows /\ buffer[i] \in Seq(Nat) BY <1>a DEF RowTypes
        <5> QED BY <5>1, BufferWithin
      <4> QED BY <1>4, <1>5, <1>7, <4>3, SharedAssumption
    <3>3. readBar' = [readBar EXCEPT ![r] = FirstRows(n + 1)]
      <4>1. readBar' = [q \in Readers |-> FirstRows(head'[q])] BY ClonesReadRowsNext DEF RowsRead
      <4>2. readBar = [q \in Readers |-> FirstRows(head[q])] BY ClonesReadRows DEF RowsRead
      <4>3. \A q \in Readers : head'[q] = IF q = r THEN n + 1 ELSE head[q] BY <1>a, <3>1 DEF RowTypes
      <4> QED BY <4>1, <4>2, <4>3
    <3>4. readBar' = [readBar EXCEPT ![r] = Append(readBar[r], Len(readBar[r]) + 1)]
      BY <1>6, <3>3, NextOfFirstRows
    <3>5. Private!Yield(r) BY <1>3, <1>6, <2>2, <2>3, <3>2, <3>4 DEF Private!Yield
    <3> QED BY <3>5 DEF Private!PrivateNext
  <2> QED BY <2>4, <2>5
<1>8. CASE ~(head[r] < Len(buffer[i]))
  <2>1. head' = head BY <1>0, <1>4, <1>8 DEF Load
  <2>2. readBar' = readBar BY <2>1, ClonesReadRows, ClonesReadRowsNext DEF RowsRead
  <2>3. answer' = answer \/ (err[i] # "none" /\ answer' = [answer EXCEPT ![r] = err[i]])
    BY <1>0, <1>4, <1>8 DEF Load
  <2>4. CASE answer' = answer BY <1>2, <2>1, <2>4, NotSeen
  <2>5. CASE err[i] # "none" /\ answer' = [answer EXCEPT ![r] = err[i]]
    <3>1. CASE answer[r] # "none"
      <4>1. answer' = answer BY <1>a, <1>4, <2>5, <3>1 DEF RowTypes
      <4> QED BY <2>4, <4>1
    <3>2. CASE answer[r] = "none"
      <4>1. err[i] \in {"done", "failed"} BY <1>a, <2>5 DEF RowTypes, Errors
      <4>2. err[i] = "done" => n = Rows BY <1>a, <1>4, <1>5, <1>8 DEF Numbered
      <4>3. Private!End(r) BY <1>3, <1>6, <2>2, <2>5, <3>2, <4>1, <4>2 DEF Private!End
      <4> QED BY <4>3 DEF Private!PrivateNext
    <3> QED BY <3>1, <3>2
  <2> QED BY <2>3, <2>4, <2>5
<1> QED BY <1>7, <1>8

LEMMA StepIsPrivate ==
    RowInv /\ RowInv' /\ Settled /\ [Next]_vars => [Private!PrivateNext]_(Private!privateVars)
<1> SUFFICES ASSUME RowInv, RowInv', Settled, [Next]_vars
             PROVE  [Private!PrivateNext]_(Private!privateVars)
  OBVIOUS
<1>a. CountTypes /\ Opened /\ RowTypes /\ Heads BY DEF RowInv, RInv
<1>b. ASSUME NEW r \in Readers, pc[r] \notin Holding, pc'[r] \notin Holding,
             \A q \in Readers \ {r} : pc'[q] = pc[q],
             \/ UNCHANGED <<head, answer>>
             \/ /\ head' = [head EXCEPT ![r] = 0]
                /\ answer' = [answer EXCEPT ![r] = "none"]
      PROVE  UNCHANGED Private!privateVars
  <2>1. head[r] = 0 /\ answer[r] = "none" BY <1>a, <1>b DEF Heads, Within
  <2>2. UNCHANGED <<head, answer>> BY <1>a, <1>b, <2>1 DEF RowTypes
  <2> QED BY <1>b, <2>2, NotSeen
<1>1. ASSUME NEW r \in Readers, NEW k \in Keys, Admit(r, k) PROVE UNCHANGED Private!privateVars
  BY <1>1, <1>a, <1>b DEF Admit, Goto, Holding, CountTypes
<1>2. ASSUME NEW r \in Readers, LoadOrStore(r) PROVE UNCHANGED Private!privateVars
  BY <1>2, <1>a, <1>b DEF LoadOrStore, Goto, Holding, CountTypes
<1>3. ASSUME NEW r \in Readers, Count(r) \/ Unwrapped(r) PROVE UNCHANGED Private!privateVars
  BY <1>3, <1>a, <1>b DEF Count, Unwrapped, Goto, Holding, CountTypes
<1>4. ASSUME UNCHANGED readerVars PROVE UNCHANGED Private!privateVars
  BY <1>4, NotSeen DEF readerVars
<1>5. ASSUME NEW r \in Readers, Produce(r) PROVE UNCHANGED Private!privateVars BY <1>4, <1>5 DEF Produce
<1>6. ASSUME NEW r \in Readers, Drop(r) PROVE UNCHANGED Private!privateVars
  BY <1>6, <1>a, <1>b DEF Drop, Leave, Goto, Holding, CountTypes
<1>7. ASSUME NEW r \in Readers, Clone(r) PROVE [Private!PrivateNext]_(Private!privateVars)
  <2>1. CASE ~base[item[r]]
    BY <1>7, <1>a, <1>b, <2>1 DEF Clone, Leave, Goto, Holding, CountTypes
  <2>2. CASE base[item[r]]
    <3>1. pc[r] = "clone" /\ pc' = [pc EXCEPT ![r] = "open"] /\ UNCHANGED <<head, answer>>
      BY <1>7, <2>2 DEF Clone, Goto
    <3>2. readBar' = readBar BY <3>1, ClonesReadRows, ClonesReadRowsNext DEF RowsRead
    <3>3. ~heldBar[r] /\ heldBar' = [heldBar EXCEPT ![r] = TRUE]
      BY <1>a, <3>1 DEF heldBar, Holding, CountTypes
    <3>4. Private!OpenOwn(r) BY <3>1, <3>2, <3>3 DEF Private!OpenOwn
    <3> QED BY <3>4 DEF Private!PrivateNext
  <2> QED BY <2>1, <2>2
<1>8. ASSUME NEW r \in Readers, CallNext(r) \/ Do(r) \/ FetchRead(r) \/ FetchKeep(r) \/ FetchRelease(r)
      PROVE  UNCHANGED Private!privateVars
  <2>1. UNCHANGED <<head, answer>> BY <1>8 DEF CallNext, Do, FetchRead, FetchKeep, FetchRelease
  <2> QED BY <1>8, <1>a, <2>1, InNext, NotSeen
<1>9. ASSUME NEW r \in Readers, Stop(r) PROVE Private!PrivateNext
  <2>1. /\ pc[r] = "open" /\ pc' = [pc EXCEPT ![r] = "idle"]
        /\ head' = [head EXCEPT ![r] = 0] /\ answer' = [answer EXCEPT ![r] = "none"]
    BY <1>9 DEF Stop, Leave, Goto
  <2>2. heldBar[r] /\ heldBar' = [heldBar EXCEPT ![r] = FALSE]
    <3>1. pc[r] \in Holding /\ (pc'[r] \in Holding) = FALSE
      BY <1>a, <2>1 DEF Holding, CountTypes
    <3>2. \A q \in Readers \ {r} : (pc'[q] \in Holding) = (pc[q] \in Holding)
      BY <1>a, <2>1 DEF CountTypes
    <3>3. heldBar[r] BY <3>1, Zenon DEF heldBar
    <3>4. heldBar' = [heldBar EXCEPT ![r] = FALSE] BY <3>1, <3>2, Zenon DEF heldBar
    <3> QED BY <3>3, <3>4
  <2>3. readBar' = [readBar EXCEPT ![r] = <<>>]
    <3>1. readBar' = [q \in Readers |-> FirstRows(head'[q])] BY ClonesReadRowsNext DEF RowsRead
    <3>2. readBar = [q \in Readers |-> FirstRows(head[q])] BY ClonesReadRows DEF RowsRead
    <3>3. \A q \in Readers : head'[q] = IF q = r THEN 0 ELSE head[q] BY <1>a, <2>1 DEF RowTypes
    <3>4. FirstRows(0) = <<>> BY DEF FirstRows
    <3> QED BY <3>1, <3>2, <3>3, <3>4
  <2>4. Private!StopOwn(r) BY <2>1, <2>2, <2>3 DEF Private!StopOwn
  <2> QED BY <2>4 DEF Private!PrivateNext
<1>10. ASSUME NEW i \in Items, Expire(i) \/ Cleanup(i) PROVE UNCHANGED Private!privateVars
  BY <1>4, <1>10 DEF Expire, Cleanup
<1>11. CASE UNCHANGED vars BY <1>4, <1>11 DEF vars
<1> QED
  BY <1>1, <1>2, <1>3, <1>5, <1>6, <1>7, <1>8, <1>9, <1>10, <1>11, LoadYieldsOrEnds
     DEF Next, Opening, Reading, ReadStartingWithUser, ReadUsersetTuples, Read

(* Requests that share an iterator, its buffer and its timers cannot tell: *)
(* each sees a behaviour of an iterator of its own, with every row once    *)
(* and in order, an end only after the last row, and an end or an error    *)
(* that stays.                                                             *)
THEOREM SharingIsNotSeen == Spec => ImplementsPrivate
<1>1. Init => Private!PrivateInit
  <2> SUFFICES ASSUME Init PROVE Private!PrivateInit
    OBVIOUS
  <2>1. heldBar = [r \in Readers |-> FALSE]
    <3>1. \A r \in Readers : (pc[r] \in Holding) = FALSE BY DEF Init, Holding
    <3> QED BY <3>1, Zenon DEF heldBar
  <2>2. readBar = [r \in Readers |-> <<>>] BY DEF Init, readBar, Holding
  <2> QED BY <2>1, <2>2 DEF Init, Private!PrivateInit
<1>2. Init => Settled BY DEF Init, Settled, Sticky, KeepsError, Holding
<1> QED
  BY <1>1, <1>2, RowsInitially, RowsStep, SettledStep, StepIsPrivate, PTL
     DEF Spec, ImplementsPrivate, Private!PrivateSpec

-----------------------------------------------------------------------------
(* No wake-up is lost. *)

(* Whoever waits, waits for a fetch of its own item that has not stored    *)
(* the new state yet, by another request, and that fetch does not wait for *)
(* anyone: its Read has an outcome. This is the part of NextReturns that   *)
(* is a matter of safety.                                                  *)
Fetching(i) == {r \in Readers : item[r] = i /\ pc[r] \in {"fetch", "keep"}}

NoWakeUpIsLost ==
    /\ \A r \in Readers : pc[r] = "waiting" => Fetching(item[r]) # {} /\ r \notin Fetching(item[r])
    /\ \A i \in Items : Reads(i) # {}

Awaited == \A r \in Readers : pc[r] = "waiting" => Fetching(item[r]) # {}

(* A step of one request that is not in a fetch and does not begin to wait. *)
LEMMA OthersFetchOn ==
    ASSUME Awaited, NEW r \in Readers, pc[r] \notin {"fetch", "keep"}, pc'[r] # "waiting",
           \A q \in Readers \ {r} : pc'[q] = pc[q] /\ item'[q] = item[q]
    PROVE  Awaited'
<1> SUFFICES ASSUME NEW w \in Readers, pc'[w] = "waiting" PROVE Fetching(item[w])' # {} /\ item'[w] = item[w]
  BY DEF Awaited, Fetching
<1>1. w # r /\ pc[w] = "waiting" /\ item'[w] = item[w] OBVIOUS
<1>2. PICK f \in Readers : f \in Fetching(item[w]) BY <1>1 DEF Awaited, Fetching
<1>3. f # r BY <1>2 DEF Fetching
<1>4. f \in Fetching(item[w])' BY <1>1, <1>2, <1>3 DEF Fetching
<1> QED BY <1>1, <1>4

LEMMA AwaitedStep == RowInv /\ Awaited /\ [Next]_vars => Awaited'
<1> SUFFICES ASSUME RowInv, Awaited, [Next]_vars PROVE Awaited'
  OBVIOUS
<1>a. CountTypes /\ Opened /\ RowTypes /\ OneFetches BY DEF RowInv, RInv
<1>1. ASSUME NEW r \in Readers, NEW k \in Keys, Admit(r, k) PROVE Awaited'
  BY <1>1, <1>a, OthersFetchOn DEF Admit, Goto, CountTypes
<1>2. ASSUME NEW r \in Readers, LoadOrStore(r) PROVE Awaited'
  BY <1>2, <1>a, OthersFetchOn DEF LoadOrStore, Goto, CountTypes
<1>3. ASSUME NEW r \in Readers, Count(r) \/ Unwrapped(r) \/ CallNext(r) \/ FetchRelease(r) PROVE Awaited'
  BY <1>3, <1>a, OthersFetchOn DEF Count, Unwrapped, CallNext, FetchRelease, Goto, CountTypes
<1>4. ASSUME UNCHANGED <<pc, item>> PROVE Awaited'
  BY <1>4 DEF Awaited, Fetching
<1>5. ASSUME NEW r \in Readers, Produce(r) PROVE Awaited' BY <1>4, <1>5 DEF Produce, readerVars
<1>6. ASSUME NEW r \in Readers, Drop(r) \/ Stop(r) PROVE Awaited'
  BY <1>6, <1>a, OthersFetchOn DEF Drop, Stop, Leave, Goto, CountTypes
<1>7. ASSUME NEW r \in Readers, Clone(r) PROVE Awaited'
  BY <1>7, <1>a, OthersFetchOn DEF Clone, Leave, Goto, CountTypes
<1>8. ASSUME NEW r \in Readers, Load(r) PROVE Awaited'
  <2>1. PICK s \in {"open", "want"} : pc' = [pc EXCEPT ![r] = s] BY <1>8 DEF Load, Goto
  <2>2. pc[r] = "next" /\ item' = item BY <1>8 DEF Load
  <2> QED BY <1>a, <2>1, <2>2, OthersFetchOn DEF CountTypes
<1>9. ASSUME NEW r \in Readers, Do(r) PROVE Awaited'
  <2>0. PICK i \in Items : i = item[r] BY <1>9, <1>a DEF Do, Opened
  <2>1. PICK s \in {"fetch", "next", "waiting"} : pc' = [pc EXCEPT ![r] = s] BY <1>9 DEF Do, Goto
  <2>2. pc[r] = "want" /\ item' = item BY <1>9 DEF Do
  <2>3. CASE s # "waiting" BY <1>a, <2>1, <2>2, <2>3, OthersFetchOn DEF CountTypes
  <2>4. CASE s = "waiting"
    <3>1. PICK f \in Readers : f = fetcher[i] /\ pc[f] # "release"
      <4>1. fetcher[i] \in Readers \cup {NoReader} BY <1>a DEF RowTypes
      <4>2. pc'[r] = "waiting" BY <1>a, <2>1, <2>4 DEF CountTypes
      <4>3. fetcher[i] # NoReader /\ pc[fetcher[i]] # "release"
        BY <1>9, <1>a, <2>0, <4>2 DEF Do, Goto, CountTypes
      <4> QED BY <4>1, <4>3
    <3>2. pc[f] \in {"fetch", "keep"} /\ item[f] = i BY <1>a, <3>1 DEF OneFetches, InFetch
    <3>3. f # r BY <2>2, <3>2
    <3>4. \A q \in Readers \ {r} : pc'[q] = pc[q] BY <1>a, <2>1 DEF CountTypes
    <3>5. f \in Fetching(item[r])' BY <2>0, <2>2, <3>2, <3>3, <3>4 DEF Fetching
    <3>6. ASSUME NEW w \in Readers, pc'[w] = "waiting" PROVE Fetching(item[w])' # {}
      <4>1. CASE w = r BY <3>5, <4>1
      <4>2. CASE w # r
        <5>1. pc[w] = "waiting" BY <3>4, <3>6, <4>2
        <5>2. PICK g \in Readers : g \in Fetching(item[w]) BY <5>1 DEF Awaited, Fetching
        <5>3. g # r BY <2>2, <5>2 DEF Fetching
        <5>4. g \in Fetching(item[w])' BY <2>2, <3>4, <5>2, <5>3 DEF Fetching
        <5> QED BY <5>4
      <4> QED BY <4>1, <4>2
    <3> QED BY <2>2, <3>6 DEF Awaited, Fetching
  <2> QED BY <2>3, <2>4
<1>10. ASSUME NEW r \in Readers, FetchRead(r) PROVE Awaited'
  <2>1. pc[r] = "fetch" /\ pc' = [pc EXCEPT ![r] = "keep"] /\ item' = item
    BY <1>10 DEF FetchRead, Goto
  <2>2. \A i : Fetching(i)' = Fetching(i) BY <1>a, <2>1 DEF Fetching, CountTypes
  <2> QED BY <1>a, <2>1, <2>2 DEF Awaited, CountTypes
<1>11. ASSUME NEW r \in Readers, FetchKeep(r) PROVE Awaited'
  <2>1. /\ pc[r] = "keep" /\ item' = item /\ pc'[r] = "release"
        /\ \A q \in Readers \ {r} : pc'[q] = IF pc[q] = "waiting" /\ item[q] = item[r] THEN "next" ELSE pc[q]
    BY <1>11, <1>a DEF FetchKeep, CountTypes
  <2>2. ASSUME NEW w \in Readers, pc'[w] = "waiting" PROVE Fetching(item[w])' # {}
    <3>1. w # r /\ pc[w] = "waiting" /\ item[w] # item[r] BY <2>1, <2>2
    <3>2. PICK g \in Readers : g \in Fetching(item[w]) BY <3>1 DEF Awaited, Fetching
    <3>3. g # r BY <3>1, <3>2 DEF Fetching
    <3>4. pc'[g] = pc[g] BY <2>1, <3>2, <3>3 DEF Fetching
    <3>5. g \in Fetching(item[w])' BY <2>1, <3>2, <3>4 DEF Fetching
    <3> QED BY <3>5
  <2> QED BY <2>1, <2>2 DEF Awaited, Fetching
<1>12. ASSUME NEW i \in Items, Expire(i) \/ Cleanup(i) PROVE Awaited'
  BY <1>4, <1>12 DEF Expire, Cleanup, readerVars
<1>13. CASE UNCHANGED vars BY <1>4, <1>13 DEF vars, readerVars
<1> QED
  BY <1>1, <1>2, <1>3, <1>5, <1>6, <1>7, <1>8, <1>9, <1>10, <1>11, <1>12, <1>13
     DEF Next, Opening, Reading, ReadStartingWithUser, ReadUsersetTuples, Read

(* A request that waits for a fetch is never forgotten: as long as it      *)
(* waits, the fetch it waits for is under way and can go on, whatever      *)
(* stops, expires or arrives in the meantime.                              *)
THEOREM WaitersAreWoken == Spec => []NoWakeUpIsLost
<1>1. Init => Awaited BY DEF Init, Awaited
<1>2. RowInv /\ Awaited => NoWakeUpIsLost
  <2> SUFFICES ASSUME RowInv, Awaited PROVE NoWakeUpIsLost
    OBVIOUS
  <2>1. ASSUME NEW i \in Items PROVE Reads(i) # {}
    <3>1. CASE err[i] # "none" BY <3>1 DEF Reads
    <3>2. CASE err[i] = "none"
      <4>1. PICK x : x \in {IF Rows - cursor[i] >= BufferSize THEN [n |-> BufferSize, err |-> "none"]
                            ELSE [n |-> Rows - cursor[i], err |-> "done"]}
        OBVIOUS
      <4>2. x \in Reads(i) BY <3>2, <4>1 DEF Reads
      <4> QED BY <4>2
    <3> QED BY <3>1, <3>2
  <2>2. \A r \in Readers : pc[r] = "waiting" => r \notin Fetching(item[r]) BY DEF Fetching
  <2> QED BY <2>1, <2>2 DEF NoWakeUpIsLost, Awaited
<1> QED BY <1>1, <1>2, RowsInitially, RowsStep, AwaitedStep, PTL DEF Spec
=============================================================================
