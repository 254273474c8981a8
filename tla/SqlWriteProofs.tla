--------------------------- MODULE SqlWriteProofs ---------------------------
(***************************************************************************)
(* SqlWrite is correct for any number of keys, conditions and concurrent   *)
(* calls.  The safety invariants are not inductive: they rest on what a    *)
(* call holds at each of its stages (Held below).                          *)
(***************************************************************************)
EXTENDS ChangesReader, SortingProofs

(* A call that is not running holds nothing.                               *)
IdleHoldsNothing(w) ==
    pc[w] = "idle" => \A k \in Keys : lock[k] # w /\ existing[w][k] = Absent

(* A running call deletes and writes different keys.                       *)
DisjointRequest(w) ==
    pc[w] # "idle" => \A k \in req[w].deletes : req[w].writes[k] = Absent

(* Past the plan, what the call found allows what it will do.              *)
PlanHolds(w) ==
    pc[w] \in {"delete", "insert", "commit"} =>
        /\ \A k \in req[w].deletes :
            existing[w][k] # Absent \/ req[w].onMissing = "ignore"
        /\ \A k \in WrittenKeys(req[w]) :
            existing[w][k] = Absent \/ existing[w][k] = req[w].writes[k]

(* A key the call has inserted is locked by it, and has no committed row.  *)
InsertsHeld(w) ==
    /\ pc[w] = "insert" => \A k \in PlannedInserts(w) \ todo[w] :
                                lock[k] = w /\ tuples[k] = Absent
    /\ pc[w] = "commit" => \A k \in PlannedInserts(w) :
                                lock[k] = w /\ tuples[k] = Absent

Held == \A w \in Writers :
            IdleHoldsNothing(w) /\ DisjointRequest(w) /\ PlanHolds(w) /\ InsertsHeld(w)

IInv == TypeOK /\ FoundRowsAreStable /\ Held /\ DeleteNeverConflicts

-----------------------------------------------------------------------------
(* Types.                                                                  *)

(* The request of a call that is not running is a request.                 *)
LEMMA EmptyRequestType == EmptyRequest \in Request
BY DEF EmptyRequest, Request, Value

(* The keys of a request are keys.                                         *)
LEMMA LockKeysType == ASSUME NEW r \in Request PROVE LockKeys(r) \subseteq Keys
BY DEF LockKeys, WrittenKeys, Request

(* The end of a call keeps the types of everything but the tables.         *)
LEMMA FinishType ==
    ASSUME TypeOK, NEW w \in Writers, NEW r \in Results, Finish(w, r)
    PROVE  /\ lock' \in [Keys -> Writers \cup {NoWriter}]
           /\ clock' \in 0..MaxClock
           /\ pc' \in [Writers -> States]
           /\ req' \in [Writers -> Request]
           /\ now' \in [Writers -> Nat]
           /\ logAt' \in [Writers -> Nat]
           /\ existing' \in [Writers -> [Keys -> Value]]
           /\ todo' \in [Writers -> SUBSET Keys]
           /\ result' \in [Writers -> Results]
<1>1. lock' \in [Keys -> Writers \cup {NoWriter}] BY DEF TypeOK, Finish
<1>2. clock' \in 0..MaxClock BY DEF TypeOK, Finish
<1>3. pc' \in [Writers -> States] BY DEF TypeOK, Finish, States
<1>4. req' \in [Writers -> Request] BY EmptyRequestType DEF TypeOK, Finish
<1>5. now' \in [Writers -> Nat] /\ logAt' \in [Writers -> Nat] BY DEF TypeOK, Finish
<1>6. existing' \in [Writers -> [Keys -> Value]] BY DEF TypeOK, Finish, Value
<1>7. todo' \in [Writers -> SUBSET Keys] BY DEF TypeOK, Finish
<1>8. result' \in [Writers -> Results] BY DEF TypeOK, Finish
<1> QED BY <1>1, <1>2, <1>3, <1>4, <1>5, <1>6, <1>7, <1>8

(* A call that rolls back keeps the types.                                 *)
LEMMA RollbackType ==
    ASSUME TypeOK, NEW w \in Writers, NEW r \in Results, Rollback(w, r)
    PROVE  TypeOK'
BY FinishType DEF TypeOK, Rollback

(* What a commit writes is a row of each table.                            *)
LEMMA ApplyType ==
    ASSUME TypeOK, NEW w \in Writers, Apply(w)
    PROVE  tuples' \in [Keys -> Value] /\ changelog' \in [Keys -> Seq(Row)]
<1>1. \A k \in Keys : Outcome(w, k) \in Value
  BY DEF TypeOK, Outcome, PlannedInserts, WrittenKeys, Request, Value
<1>2. \A k \in Keys : ChangelogRow(w, k) \in Row
  BY <1>1 DEF TypeOK, ChangelogRow, Row
<1>3. tuples' \in [Keys -> Value] BY <1>1 DEF TypeOK, Apply
<1>4. \A k \in Keys : Append(changelog[k], ChangelogRow(w, k)) \in Seq(Row)
  BY <1>2 DEF TypeOK
<1>5. changelog' \in [Keys -> Seq(Row)] BY <1>4 DEF TypeOK, Apply
<1> QED BY <1>3, <1>5

(* Every step keeps the types.                                             *)
LEMMA TypeStep == TypeOK /\ [Next]_vars => TypeOK'
<1> SUFFICES ASSUME TypeOK, [Next]_vars PROVE TypeOK'
  OBVIOUS
<1> USE SqlWriteAssumption
<1>1. ASSUME NEW w \in Writers, NEW r \in Requests, Reject(w, r) PROVE TypeOK'
  BY <1>1, RollbackType DEF Reject, Results
<1>2. ASSUME NEW w \in Writers, NEW r \in Requests, Begin(w, r) PROVE TypeOK'
  <2>1. r \in Request /\ LockKeys(r) \subseteq Keys BY LockKeysType
  <2>2. clock' \in 0..MaxClock /\ now' \in [Writers -> Nat] BY <1>2 DEF TypeOK, Begin
  <2> QED BY <1>2, <2>1, <2>2 DEF TypeOK, Begin, States, Active, Results
<1>3. ASSUME NEW w \in Writers, NEW k \in Keys, SelectRow(w, k) PROVE TypeOK'
  <2>1. existing' \in [Writers -> [Keys -> Value]] BY <1>3 DEF TypeOK, SelectRow
  <2>2. lock' \in [Keys -> Writers \cup {NoWriter}] BY <1>3 DEF TypeOK, SelectRow
  <2> QED BY <1>3, <2>1, <2>2 DEF TypeOK, SelectRow, States, Active
<1>4. ASSUME NEW w \in Writers, Plan(w) PROVE TypeOK'
  BY <1>4 DEF TypeOK, Plan, States, Active
<1>5. ASSUME NEW w \in Writers, PlanFails(w) PROVE TypeOK'
  <2>1. DuplicateError(w) \in Results BY DEF DuplicateError, Results
  <2> QED BY <1>5, <2>1, RollbackType DEF PlanFails, Results
<1>6. ASSUME NEW w \in Writers, ExecDeletes(w) PROVE TypeOK'
  <2>1. CASE RowsAffected(w) = PlannedDeletes(w)
    <3>1. PlannedInserts(w) \subseteq Keys BY DEF PlannedInserts, WrittenKeys
    <3>2. lock' \in [Keys -> Writers \cup {NoWriter}]
      <4>1. lock' = [k \in Keys |-> IF k \in RowsAffected(w) THEN w ELSE lock[k]]
        BY <1>6, <2>1 DEF ExecDeletes
      <4>2. lock \in [Keys -> Writers \cup {NoWriter}] BY DEF TypeOK
      <4> QED BY <4>1, <4>2
    <3>3. todo' \in [Writers -> SUBSET Keys]
      BY <1>6, <2>1, <3>1 DEF TypeOK, ExecDeletes
    <3>4. pc' \in [Writers -> States]
      BY <1>6, <2>1 DEF TypeOK, ExecDeletes, States, Active
    <3> QED BY <1>6, <2>1, <3>2, <3>3, <3>4 DEF TypeOK, ExecDeletes
  <2>2. CASE RowsAffected(w) # PlannedDeletes(w)
    BY <1>6, <2>2, RollbackType DEF ExecDeletes, Results
  <2> QED BY <2>1, <2>2
<1>7. ASSUME NEW w \in Writers, NEW k \in Keys, InsertRow(w, k) PROVE TypeOK'
  BY <1>7 DEF TypeOK, InsertRow
<1>8. ASSUME NEW w \in Writers, NEW k \in Keys, InsertConflict(w, k) PROVE TypeOK'
  BY <1>8, RollbackType DEF InsertConflict, Results
<1>9. ASSUME NEW w \in Writers, ExecChangelog(w) PROVE TypeOK'
  BY <1>9 DEF TypeOK, ExecChangelog, States, Active
<1>10. ASSUME NEW w \in Writers, Commit(w) PROVE TypeOK'
  <2>1. PICK r \in {"ok", "sql_error"} : Finish(w, r) BY <1>10 DEF Commit
  <2>2. r \in Results BY DEF Results
  <2>3. tuples' \in [Keys -> Value] /\ changelog' \in [Keys -> Seq(Row)]
    BY <1>10, ApplyType DEF Commit
  <2> QED BY <2>1, <2>2, <2>3, FinishType DEF TypeOK
<1>11. ASSUME NEW w \in Writers, Abort(w) PROVE TypeOK'
  BY <1>11, RollbackType DEF Abort, Results
<1>12. ASSUME NEW w \in Writers, DeadlockVictim(w) PROVE TypeOK'
  BY <1>12, RollbackType DEF DeadlockVictim, Results
<1>13. CASE UNCHANGED vars
  BY <1>13 DEF TypeOK, vars, txnVars
<1> QED
  BY <1>1, <1>2, <1>3, <1>4, <1>5, <1>6, <1>7, <1>8, <1>9, <1>10, <1>11, <1>12, <1>13
     DEF Next, Step

(* The tables, the locks and the local variables of the calls have their   *)
(* types in every reachable state.                                         *)
THEOREM TypeCorrect == Spec => []TypeOK
<1>1. Init => TypeOK
  BY SqlWriteAssumption, EmptyRequestType
     DEF Init, TypeOK, Value, States, Results, Row
<1> QED BY <1>1, TypeStep, PTL DEF Spec

-----------------------------------------------------------------------------
(* What each call holds.                                                   *)

(* A call that ends without touching the tables takes nothing from others. *)
LEMMA RollbackHeld ==
    ASSUME IInv, NEW w \in Writers, NEW r \in Results \ {"conflict_on_delete"},
           Rollback(w, r)
    PROVE  FoundRowsAreStable' /\ Held' /\ DeleteNeverConflicts'
<1> USE SqlWriteAssumption DEF IInv, TypeOK
<1>1. FoundRowsAreStable'
  BY DEF FoundRowsAreStable, Rollback, Finish, Active
<1>2. ASSUME NEW u \in Writers
      PROVE  IdleHoldsNothing(u)' /\ DisjointRequest(u)' /\ PlanHolds(u)' /\ InsertsHeld(u)'
  <2>1. CASE u = w
    BY <2>1 DEF Rollback, Finish, IdleHoldsNothing, DisjointRequest, PlanHolds, InsertsHeld
  <2>2. CASE u # w
    <3>1. /\ pc'[u] = pc[u] /\ req'[u] = req[u] /\ existing'[u] = existing[u]
          /\ todo'[u] = todo[u] /\ tuples' = tuples
          /\ \A k \in Keys : lock'[k] = u <=> lock[k] = u
      BY <2>2 DEF Rollback, Finish
    <3>2. PlannedInserts(u)' = PlannedInserts(u) BY <3>1 DEF PlannedInserts, WrittenKeys
    <3>3. PlannedInserts(u) \subseteq Keys BY DEF PlannedInserts, WrittenKeys
    <3>4. IdleHoldsNothing(u) /\ DisjointRequest(u) /\ PlanHolds(u) /\ InsertsHeld(u)
      BY DEF Held
    <3> QED BY <3>1, <3>2, <3>3, <3>4
            DEF IdleHoldsNothing, DisjointRequest, PlanHolds, InsertsHeld, WrittenKeys
  <2> QED BY <2>1, <2>2
<1>3. DeleteNeverConflicts' BY DEF DeleteNeverConflicts, Rollback, Finish
<1> QED BY <1>1, <1>2, <1>3 DEF Held

(* What the others hold is theirs as long as their variables, their locks  *)
(* and the rows under their locks stay.                                    *)
LEMMA OthersHeld ==
    ASSUME IInv, NEW w \in Writers, NEW u \in Writers, u # w,
           pc'[u] = pc[u], req'[u] = req[u], existing'[u] = existing[u],
           todo'[u] = todo[u],
           \A k \in Keys : (lock'[k] = u <=> lock[k] = u),
           \A k \in Keys : lock[k] = u => tuples'[k] = tuples[k]
    PROVE  /\ \A k \in Keys : (pc'[u] \in Active /\ existing'[u][k] # Absent)
                                => (lock'[k] = u /\ tuples'[k] = existing'[u][k])
           /\ IdleHoldsNothing(u)' /\ DisjointRequest(u)' /\ PlanHolds(u)' /\ InsertsHeld(u)'
<1>1. PlannedInserts(u)' = PlannedInserts(u) BY DEF PlannedInserts, WrittenKeys
<1>2. PlannedInserts(u) \subseteq Keys BY DEF PlannedInserts, WrittenKeys
<1>3. IdleHoldsNothing(u) /\ DisjointRequest(u) /\ PlanHolds(u) /\ InsertsHeld(u)
  BY DEF IInv, Held
<1>4. \A k \in Keys : (pc'[u] \in Active /\ existing'[u][k] # Absent)
                        => (lock'[k] = u /\ tuples'[k] = existing'[u][k])
  BY DEF IInv, FoundRowsAreStable
<1> QED BY <1>1, <1>2, <1>3, <1>4
        DEF IdleHoldsNothing, DisjointRequest, PlanHolds, InsertsHeld, WrittenKeys

(* The call that steps still holds what its stage needs: with the others'  *)
(* part above this gives the invariant.                                    *)
LEMMA FromOneCall ==
    ASSUME IInv, NEW w \in Writers,
           \A k \in Keys : (pc'[w] \in Active /\ existing'[w][k] # Absent)
                                => (lock'[k] = w /\ tuples'[k] = existing'[w][k]),
           IdleHoldsNothing(w)', DisjointRequest(w)', PlanHolds(w)', InsertsHeld(w)',
           \A u \in Writers \ {w} :
                /\ pc'[u] = pc[u] /\ req'[u] = req[u] /\ existing'[u] = existing[u]
                /\ todo'[u] = todo[u]
                /\ \A k \in Keys : (lock'[k] = u <=> lock[k] = u)
                /\ \A k \in Keys : lock[k] = u => tuples'[k] = tuples[k]
    PROVE  FoundRowsAreStable' /\ Held'
<1>1. ASSUME NEW u \in Writers, u # w
      PROVE  /\ \A k \in Keys : (pc'[u] \in Active /\ existing'[u][k] # Absent)
                                  => (lock'[k] = u /\ tuples'[k] = existing'[u][k])
             /\ IdleHoldsNothing(u)' /\ DisjointRequest(u)' /\ PlanHolds(u)' /\ InsertsHeld(u)'
  BY <1>1, OthersHeld
<1>2. FoundRowsAreStable' BY <1>1 DEF FoundRowsAreStable
<1>3. Held' BY <1>1 DEF Held
<1> QED BY <1>2, <1>3

(* Every step keeps what the calls hold, and no DELETE misses a row.       *)
LEMMA HeldStep == IInv /\ [Next]_vars => FoundRowsAreStable' /\ Held' /\ DeleteNeverConflicts'
<1> SUFFICES ASSUME IInv, [Next]_vars
             PROVE  FoundRowsAreStable' /\ Held' /\ DeleteNeverConflicts'
  OBVIOUS
<1> USE SqlWriteAssumption
<1> DEFINE Goal == FoundRowsAreStable' /\ Held' /\ DeleteNeverConflicts'
<1>a. TypeOK BY DEF IInv
<1>1. ASSUME NEW w \in Writers, NEW r \in Requests, Reject(w, r) PROVE Goal
  BY <1>1, RollbackHeld DEF Reject, Results
<1>2. ASSUME NEW w \in Writers, NEW r \in Requests, Begin(w, r) PROVE Goal
  <2>1. \A u \in Writers \ {w} :
            /\ pc'[u] = pc[u] /\ req'[u] = req[u] /\ existing'[u] = existing[u]
            /\ todo'[u] = todo[u]
            /\ \A k \in Keys : (lock'[k] = u <=> lock[k] = u)
            /\ \A k \in Keys : lock[k] = u => tuples'[k] = tuples[k]
    BY <1>2, <1>a DEF Begin, TypeOK
  <2>2. pc'[w] = "select" /\ req'[w] = r /\ existing' = existing
    BY <1>2, <1>a DEF Begin, TypeOK
  <2>3. \A k \in Keys : existing[w][k] = Absent
    BY <1>2 DEF Begin, IInv, Held, IdleHoldsNothing
  <2>4. \A k \in r.deletes : r.writes[k] = Absent
    BY <1>2 DEF Begin, ValidRequest, WrittenKeys, Request
  <2>5. FoundRowsAreStable' /\ Held'
    BY <2>1, <2>2, <2>3, <2>4, FromOneCall
       DEF IdleHoldsNothing, DisjointRequest, PlanHolds, InsertsHeld
  <2>6. DeleteNeverConflicts'
    BY <1>2, <1>a DEF Begin, IInv, DeleteNeverConflicts, TypeOK
  <2> QED BY <2>5, <2>6
<1>3. ASSUME NEW w \in Writers, NEW k \in Keys, SelectRow(w, k) PROVE Goal
  <2>1. /\ pc[w] = "select" /\ pc'[w] \in {"select", "plan"} /\ req' = req
        /\ tuples' = tuples /\ result' = result
        /\ \A j \in Keys : existing'[w][j] = IF j = k THEN tuples[k] ELSE existing[w][j]
        /\ \A j \in Keys : lock'[j] = IF j = k /\ tuples[k] # Absent THEN w ELSE lock[j]
    BY <1>3, <1>a DEF SelectRow, TypeOK
  <2>2. lock[k] \in {NoWriter, w} BY <1>3 DEF SelectRow, Free
  <2>3. \A u \in Writers \ {w} :
            /\ pc'[u] = pc[u] /\ existing'[u] = existing[u] /\ todo'[u] = todo[u]
            /\ \A j \in Keys : (lock'[j] = u <=> lock[j] = u)
    BY <1>3, <1>a, <2>1, <2>2 DEF SelectRow, TypeOK
  <2>4. \A j \in Keys : (pc'[w] \in Active /\ existing'[w][j] # Absent)
                            => (lock'[j] = w /\ tuples'[j] = existing'[w][j])
    BY <2>1 DEF IInv, FoundRowsAreStable, Active
  <2>5. DisjointRequest(w)' BY <2>1 DEF IInv, Held, DisjointRequest
  <2>6. IdleHoldsNothing(w)' /\ PlanHolds(w)' /\ InsertsHeld(w)'
    BY <2>1 DEF IdleHoldsNothing, PlanHolds, InsertsHeld
  <2>7. FoundRowsAreStable' /\ Held'
    BY <2>1, <2>3, <2>4, <2>5, <2>6, FromOneCall
  <2>8. DeleteNeverConflicts' BY <2>1 DEF IInv, DeleteNeverConflicts
  <2> QED BY <2>7, <2>8
<1>4. ASSUME NEW w \in Writers, Plan(w) PROVE Goal
  <2>1. /\ pc[w] = "plan" /\ pc'[w] = "delete" /\ \A u \in Writers \ {w} : pc'[u] = pc[u]
        /\ UNCHANGED <<tuples, lock, req, existing, todo, result>>
    BY <1>4, <1>a DEF Plan, TypeOK
  <2>2. PlanHolds(w)'
    <3>1. \A k \in req[w].deletes : existing[w][k] # Absent \/ req[w].onMissing = "ignore"
      BY <1>4, <1>a DEF Plan, MissingDelete, PlannedDeletes, TypeOK, Request
    <3>2. \A k \in WrittenKeys(req[w]) :
            existing[w][k] = Absent \/ existing[w][k] = req[w].writes[k]
      BY <1>4, <1>a DEF Plan, DuplicateError, ExistingWrites, PlannedInserts
    <3> QED BY <2>1, <3>1, <3>2 DEF PlanHolds, WrittenKeys
  <2>3. DisjointRequest(w)' BY <2>1 DEF IInv, Held, DisjointRequest
  <2>4. IdleHoldsNothing(w)' /\ InsertsHeld(w)' BY <2>1 DEF IdleHoldsNothing, InsertsHeld
  <2>5. \A k \in Keys : (pc'[w] \in Active /\ existing'[w][k] # Absent)
                            => (lock'[k] = w /\ tuples'[k] = existing'[w][k])
    BY <2>1 DEF IInv, FoundRowsAreStable, Active
  <2>6. FoundRowsAreStable' /\ Held' BY <2>1, <2>2, <2>3, <2>4, <2>5, FromOneCall
  <2>7. DeleteNeverConflicts' BY <2>1 DEF IInv, DeleteNeverConflicts
  <2> QED BY <2>6, <2>7
<1>5. ASSUME NEW w \in Writers, PlanFails(w) PROVE Goal
  <2>1. DuplicateError(w) \in Results \ {"conflict_on_delete"} BY DEF DuplicateError, Results
  <2> QED BY <1>5, <2>1, RollbackHeld DEF PlanFails, Results
<1>6. ASSUME NEW w \in Writers, ExecDeletes(w) PROVE Goal
  <2>1. pc[w] = "delete" BY <1>6 DEF ExecDeletes
  <2>2. \A k \in PlannedDeletes(w) : k \in Keys /\ tuples[k] # Absent /\ lock[k] = w
    BY <1>a, <2>1 DEF IInv, FoundRowsAreStable, PlannedDeletes, Active, TypeOK, Request
  <2>3. RowsAffected(w) = PlannedDeletes(w) BY <2>2 DEF RowsAffected
  <2>4. /\ pc'[w] = "insert" /\ \A u \in Writers \ {w} : pc'[u] = pc[u] /\ todo'[u] = todo[u]
        /\ todo'[w] = PlannedInserts(w)
        /\ \A k \in Keys : lock'[k] = lock[k]
        /\ UNCHANGED <<tuples, req, existing, result>>
    BY <1>6, <1>a, <2>2, <2>3 DEF ExecDeletes, TypeOK
  <2>5. PlannedInserts(w)' = PlannedInserts(w) BY <2>4 DEF PlannedInserts, WrittenKeys
  <2>6. IdleHoldsNothing(w)' /\ InsertsHeld(w)'
    BY <2>4, <2>5 DEF IdleHoldsNothing, InsertsHeld
  <2>7. DisjointRequest(w)' /\ PlanHolds(w)'
    BY <2>1, <2>4 DEF IInv, Held, DisjointRequest, PlanHolds, WrittenKeys
  <2>8. \A k \in Keys : (pc'[w] \in Active /\ existing'[w][k] # Absent)
                            => (lock'[k] = w /\ tuples'[k] = existing'[w][k])
    BY <2>1, <2>4 DEF IInv, FoundRowsAreStable, Active
  <2>9. FoundRowsAreStable' /\ Held' BY <2>4, <2>6, <2>7, <2>8, FromOneCall
  <2>10. DeleteNeverConflicts' BY <2>4 DEF IInv, DeleteNeverConflicts
  <2> QED BY <2>9, <2>10
<1>7. ASSUME NEW w \in Writers, NEW k \in Keys, InsertRow(w, k) PROVE Goal
  <2>1. /\ pc[w] = "insert" /\ tuples[k] = Absent /\ lock[k] \in {NoWriter, w}
        /\ \A j \in Keys : lock'[j] = IF j = k THEN w ELSE lock[j]
        /\ todo'[w] = todo[w] \ {k} /\ \A u \in Writers \ {w} : todo'[u] = todo[u]
        /\ UNCHANGED <<tuples, pc, req, existing, result>>
    BY <1>7, <1>a DEF InsertRow, Free, TypeOK
  <2>2. \A u \in Writers \ {w} : \A j \in Keys : (lock'[j] = u <=> lock[j] = u)
    BY <2>1
  <2>3. InsertsHeld(w)'
    <3>1. PlannedInserts(w)' = PlannedInserts(w) /\ PlannedInserts(w) \subseteq Keys
      BY <2>1 DEF PlannedInserts, WrittenKeys
    <3> QED BY <2>1, <3>1 DEF IInv, Held, InsertsHeld
  <2>4. IdleHoldsNothing(w)' /\ DisjointRequest(w)' /\ PlanHolds(w)'
    BY <2>1 DEF IInv, Held, IdleHoldsNothing, DisjointRequest, PlanHolds, WrittenKeys
  <2>5. \A j \in Keys : (pc'[w] \in Active /\ existing'[w][j] # Absent)
                            => (lock'[j] = w /\ tuples'[j] = existing'[w][j])
    BY <2>1 DEF IInv, FoundRowsAreStable
  <2>6. FoundRowsAreStable' /\ Held' BY <2>1, <2>2, <2>3, <2>4, <2>5, FromOneCall
  <2>7. DeleteNeverConflicts' BY <2>1 DEF IInv, DeleteNeverConflicts
  <2> QED BY <2>6, <2>7
<1>8. ASSUME NEW w \in Writers, NEW k \in Keys, InsertConflict(w, k) PROVE Goal
  BY <1>8, RollbackHeld DEF InsertConflict, Results
<1>9. ASSUME NEW w \in Writers, ExecChangelog(w) PROVE Goal
  <2>1. /\ pc[w] = "insert" /\ todo[w] = {} /\ pc'[w] = "commit"
        /\ \A u \in Writers \ {w} : pc'[u] = pc[u]
        /\ UNCHANGED <<tuples, lock, req, existing, todo, result>>
    BY <1>9, <1>a DEF ExecChangelog, TypeOK
  <2>2. InsertsHeld(w)'
    <3>1. PlannedInserts(w)' = PlannedInserts(w) BY <2>1 DEF PlannedInserts, WrittenKeys
    <3> QED BY <2>1, <3>1 DEF IInv, Held, InsertsHeld
  <2>3. IdleHoldsNothing(w)' /\ DisjointRequest(w)' /\ PlanHolds(w)'
    BY <2>1 DEF IInv, Held, IdleHoldsNothing, DisjointRequest, PlanHolds, WrittenKeys
  <2>4. \A k \in Keys : (pc'[w] \in Active /\ existing'[w][k] # Absent)
                            => (lock'[k] = w /\ tuples'[k] = existing'[w][k])
    BY <2>1 DEF IInv, FoundRowsAreStable, Active
  <2>5. FoundRowsAreStable' /\ Held' BY <2>1, <2>2, <2>3, <2>4, FromOneCall
  <2>6. DeleteNeverConflicts' BY <2>1 DEF IInv, DeleteNeverConflicts
  <2> QED BY <2>5, <2>6
<1>10. ASSUME NEW w \in Writers, Commit(w) PROVE Goal
  <2>1. PICK r \in {"ok", "sql_error"} : Finish(w, r) BY <1>10 DEF Commit
  <2>2. pc[w] = "commit" BY <1>10 DEF Commit
  <2>3. \A k \in Planned(w) : k \in Keys /\ lock[k] = w
    <3>1. \A k \in PlannedDeletes(w) : k \in Keys /\ lock[k] = w
      BY <1>a, <2>2 DEF IInv, FoundRowsAreStable, PlannedDeletes, Active, TypeOK, Request
    <3>2. \A k \in PlannedInserts(w) : k \in Keys /\ lock[k] = w
      BY <2>2 DEF IInv, Held, InsertsHeld, PlannedInserts, WrittenKeys
    <3> QED BY <3>1, <3>2 DEF Planned
  <2>4. \A k \in Keys : lock[k] # w => tuples'[k] = tuples[k]
    BY <1>10, <2>3 DEF Commit, Apply
  <2>5. \A u \in Writers \ {w} :
            /\ pc'[u] = pc[u] /\ req'[u] = req[u] /\ existing'[u] = existing[u]
            /\ todo'[u] = todo[u]
            /\ \A k \in Keys : (lock'[k] = u <=> lock[k] = u)
    BY <1>a, <2>1 DEF Finish, TypeOK
  <2>6. /\ pc'[w] = "idle" /\ \A k \in Keys : existing'[w][k] = Absent /\ lock'[k] # w
    BY <1>a, <2>1 DEF Finish, TypeOK
  <2>7. IdleHoldsNothing(w)' /\ DisjointRequest(w)' /\ PlanHolds(w)' /\ InsertsHeld(w)'
    BY <2>6 DEF IdleHoldsNothing, DisjointRequest, PlanHolds, InsertsHeld
  <2>8. FoundRowsAreStable' /\ Held' BY <2>4, <2>5, <2>6, <2>7, FromOneCall
  <2>9. DeleteNeverConflicts'
    BY <1>a, <2>1 DEF Finish, IInv, DeleteNeverConflicts, TypeOK
  <2> QED BY <2>8, <2>9
<1>11. ASSUME NEW w \in Writers, Abort(w) PROVE Goal
  BY <1>11, RollbackHeld DEF Abort, Results
<1>12. ASSUME NEW w \in Writers, DeadlockVictim(w) PROVE Goal
  BY <1>12, RollbackHeld DEF DeadlockVictim, Results
<1>13. CASE UNCHANGED vars
  BY <1>13 DEF IInv, FoundRowsAreStable, Held, DeleteNeverConflicts, IdleHoldsNothing,
               DisjointRequest, PlanHolds, InsertsHeld, PlannedInserts, WrittenKeys,
               vars, txnVars
<1> QED
  BY <1>1, <1>2, <1>3, <1>4, <1>5, <1>6, <1>7, <1>8, <1>9, <1>10, <1>11, <1>12, <1>13
     DEF Next, Step

(* The strengthened invariant holds in every reachable state.              *)
THEOREM Inductive == Spec => []IInv
<1>1. Init => IInv
  <2>1. ASSUME Init PROVE TypeOK
    BY <2>1, SqlWriteAssumption, EmptyRequestType DEF Init, TypeOK, Value, States, Results, Row
  <2>2. ASSUME Init PROVE FoundRowsAreStable /\ DeleteNeverConflicts
    BY <2>2 DEF Init, FoundRowsAreStable, DeleteNeverConflicts
  <2>3. ASSUME Init PROVE Held
    BY <2>3, SqlWriteAssumption
       DEF Init, Held, IdleHoldsNothing, DisjointRequest, PlanHolds, InsertsHeld
  <2> QED BY <2>1, <2>2, <2>3 DEF IInv
<1>2. IInv /\ [Next]_vars => IInv' BY TypeStep, HeldStep DEF IInv
<1> QED BY <1>1, <1>2, PTL DEF Spec

(* For any number of concurrent calls, the rows a call found under         *)
(* UPDLOCK stay as it found them until it ends.                            *)
THEOREM RowsAreStable == Spec => []FoundRowsAreStable
<1>1. IInv => FoundRowsAreStable BY DEF IInv
<1> QED BY <1>1, Inductive, PTL

(* The race write guards against after its DELETE cannot happen.           *)
THEOREM NoDeleteConflict == Spec => []DeleteNeverConflicts
<1>1. IInv => DeleteNeverConflicts BY DEF IInv
<1> QED BY <1>1, Inductive, PTL

-----------------------------------------------------------------------------
(* What a commit does to the tables.                                       *)

(* A planned delete removes a row that is there; a planned insert adds one *)
(* where none is; no key is both.                                          *)
LEMMA PlannedChange ==
    ASSUME IInv, NEW w \in Writers, pc[w] = "commit", NEW k \in Planned(w)
    PROVE  k \in Keys /\ ((tuples[k] = Absent) <=> (Outcome(w, k) # Absent))
<1>a. TypeOK BY DEF IInv
<1>1. CASE k \in PlannedInserts(w)
  <2>1. k \in Keys /\ tuples[k] = Absent
    BY <1>1 DEF IInv, Held, InsertsHeld, PlannedInserts, WrittenKeys
  <2>2. Outcome(w, k) # Absent BY <1>1 DEF Outcome, PlannedInserts, WrittenKeys
  <2> QED BY <2>1, <2>2
<1>2. CASE k \notin PlannedInserts(w)
  <2>1. k \in PlannedDeletes(w) BY <1>2 DEF Planned
  <2>2. k \in Keys /\ tuples[k] # Absent
    BY <1>a, <2>1 DEF IInv, FoundRowsAreStable, PlannedDeletes, Active, TypeOK, Request
  <2> QED BY <1>2, <2>2 DEF Outcome
<1> QED BY <1>1, <1>2

(* A step that is not a commit leaves the tables alone.                    *)
LEMMA OnlyCommitWrites ==
    ASSUME [Next]_vars, \A w \in Writers : ~Commit(w)
    PROVE  UNCHANGED <<tuples, changelog>>
BY DEF Next, Step, vars, Reject, Begin, SelectRow, Plan, PlanFails, ExecDeletes, InsertRow,
       InsertConflict, ExecChangelog, Abort, DeadlockVictim, Rollback

(* The changelog of one key after a row is added to it.                    *)
LEMMA AppendedRow ==
    ASSUME NEW old \in Seq(Row), NEW row \in Row
    PROVE  /\ Len(Append(old, row)) = Len(old) + 1
           /\ \A i \in 1..Len(old) : Append(old, row)[i] = old[i]
           /\ Append(old, row)[Len(old) + 1] = row
OBVIOUS

(* Every step keeps the changelog true.                                    *)
LEMMA ChangelogStep ==
    IInv /\ ChangelogMatchesTable /\ [Next]_vars => ChangelogMatchesTable'
<1> SUFFICES ASSUME IInv, ChangelogMatchesTable, [Next]_vars PROVE ChangelogMatchesTable'
  OBVIOUS
<1>a. TypeOK BY DEF IInv
<1>1. CASE \A w \in Writers : ~Commit(w)
  <2>1. UNCHANGED <<tuples, changelog>> BY <1>1, OnlyCommitWrites
  <2> QED BY <2>1 DEF ChangelogMatchesTable
<1>2. ASSUME NEW w \in Writers, Commit(w) PROVE ChangelogMatchesTable'
  <2> SUFFICES ASSUME NEW k \in Keys
               PROVE  LET n == Len(changelog'[k]) IN
                      /\ tuples'[k] = IF n = 0 THEN Absent ELSE changelog'[k][n].val
                      /\ \A i \in 1..n : (changelog'[k][i].val = Absent)
                            <=> (i > 1 /\ changelog'[k][i - 1].val # Absent)
    BY DEF ChangelogMatchesTable
  <2>1. CASE k \notin Planned(w)
    <3>1. tuples'[k] = tuples[k] /\ changelog'[k] = changelog[k]
      BY <1>2, <2>1 DEF Commit, Apply
    <3> QED BY <3>1 DEF ChangelogMatchesTable
  <2>2. CASE k \in Planned(w)
    <3> DEFINE n == Len(changelog[k])
               row == ChangelogRow(w, k)
    <3>1. tuples'[k] = Outcome(w, k) /\ changelog'[k] = Append(changelog[k], row)
      BY <1>2, <2>2 DEF Commit, Apply
    <3>2. (tuples[k] = Absent) <=> (Outcome(w, k) # Absent)
      BY <1>2, <2>2, PlannedChange DEF Commit
    <3>3. row.val = Outcome(w, k) BY DEF ChangelogRow
    <3>4. changelog[k] \in Seq(Row) /\ row \in Row
      <4>1. Outcome(w, k) \in Value
        BY <1>a DEF TypeOK, Outcome, PlannedInserts, WrittenKeys, Request, Value
      <4> QED BY <1>a, <4>1 DEF TypeOK, ChangelogRow, Row
    <3>5. /\ n \in Nat /\ Len(changelog'[k]) = n + 1
          /\ \A i \in 1..n : changelog'[k][i] = changelog[k][i]
          /\ changelog'[k][n + 1] = row
      BY <3>1, <3>4, AppendedRow
    <3>6. /\ tuples[k] = IF n = 0 THEN Absent ELSE changelog[k][n].val
          /\ \A i \in 1..n : (changelog[k][i].val = Absent)
                <=> (i > 1 /\ changelog[k][i - 1].val # Absent)
      BY DEF ChangelogMatchesTable
    <3>7. \A i \in 1..n : (changelog'[k][i].val = Absent)
                <=> (i > 1 /\ changelog'[k][i - 1].val # Absent)
      <4> HIDE DEF n, row
      <4> TAKE i \in 1..n
      <4>1. changelog'[k][i] = changelog[k][i] BY <3>5
      <4>2. i > 1 => changelog'[k][i - 1] = changelog[k][i - 1] BY <3>5
      <4> QED BY <3>6, <4>1, <4>2
    <3>8. (changelog'[k][n + 1].val = Absent) <=> (n + 1 > 1 /\ changelog'[k][n].val # Absent)
      BY <3>2, <3>3, <3>5, <3>6
    <3> HIDE DEF n, row
    <3>9. \A i \in 1..(n + 1) : (changelog'[k][i].val = Absent)
                <=> (i > 1 /\ changelog'[k][i - 1].val # Absent)
      BY <3>5, <3>7, <3>8
    <3> QED BY <3>1, <3>3, <3>5, <3>9
  <2> QED BY <2>1, <2>2
<1> QED BY <1>1, <1>2

(* The changelog announces what the tuple table holds, for any number of   *)
(* concurrent, failing and deadlocking calls.                              *)
THEOREM ChangelogIsTrue == Spec => []ChangelogMatchesTable
<1>1. Init => ChangelogMatchesTable BY DEF Init, ChangelogMatchesTable
<1> QED BY <1>1, ChangelogStep, Inductive, PTL DEF Spec

(* A call that returns without error leaves the store as it asked.         *)
THEOREM CommitsMeetRequests == Spec => CommitMeetsRequest
<1> DEFINE Meets(w) ==
      (pc[w] # "idle" /\ pc'[w] = "idle" /\ result'[w] = "ok") =>
        /\ \A k \in WrittenKeys(req[w]) : tuples'[k] = req[w].writes[k]
        /\ \A k \in req[w].deletes :
            (req[w].onMissing = "error" \/ existing[w][k] # Absent) => tuples'[k] = Absent
<1>1. ASSUME IInv, IInv', [Next]_vars, NEW w \in Writers PROVE Meets(w)
  <2> SUFFICES ASSUME pc[w] # "idle", pc'[w] = "idle", result'[w] = "ok"
               PROVE  /\ \A k \in WrittenKeys(req[w]) : tuples'[k] = req[w].writes[k]
                      /\ \A k \in req[w].deletes :
                          (req[w].onMissing = "error" \/ existing[w][k] # Absent)
                            => tuples'[k] = Absent
    OBVIOUS
  <2>a. TypeOK BY <1>1 DEF IInv
  <2>1. Commit(w)
    BY <1>1, <2>a
       DEF Next, Step, vars, txnVars, Reject, Begin, SelectRow, Plan, PlanFails, ExecDeletes,
           InsertRow, InsertConflict, ExecChangelog, Commit, Abort, DeadlockVictim,
           DuplicateError, Rollback, Finish, TypeOK, States, Active
  <2>2. pc[w] = "commit" BY <2>1 DEF Commit
  <2>3. \A k \in Keys : tuples'[k] = IF k \in Planned(w) THEN Outcome(w, k) ELSE tuples[k]
    BY <2>1 DEF Commit, Apply
  <2>4. DisjointRequest(w) /\ PlanHolds(w) BY <1>1 DEF IInv, Held
  <2>5. ASSUME NEW k \in WrittenKeys(req[w]) PROVE tuples'[k] = req[w].writes[k]
    <3>1. k \in Keys BY DEF WrittenKeys
    <3>2. k \notin PlannedDeletes(w)
      BY <2>2, <2>4 DEF DisjointRequest, PlannedDeletes, WrittenKeys
    <3>3. CASE existing[w][k] = Absent
      BY <2>3, <3>1, <3>3 DEF Planned, PlannedInserts, Outcome
    <3>4. CASE existing[w][k] # Absent
      <4>1. k \notin Planned(w) BY <3>2, <3>4 DEF Planned, PlannedInserts
      <4>2. tuples[k] = existing[w][k]
        BY <1>1, <2>2, <3>1, <3>4 DEF IInv, FoundRowsAreStable, Active
      <4>3. existing[w][k] = req[w].writes[k] BY <2>2, <2>4, <3>4 DEF PlanHolds
      <4> QED BY <2>3, <3>1, <4>1, <4>2, <4>3
    <3> QED BY <3>3, <3>4
  <2>6. ASSUME NEW k \in req[w].deletes,
               req[w].onMissing = "error" \/ existing[w][k] # Absent
        PROVE  tuples'[k] = Absent
    <3>1. k \in Keys BY <2>a DEF TypeOK, Request
    <3>2. existing[w][k] # Absent BY <2>2, <2>4, <2>6 DEF PlanHolds
    <3>3. k \in Planned(w) /\ k \notin PlannedInserts(w)
      BY <3>2 DEF Planned, PlannedDeletes, PlannedInserts
    <3> QED BY <2>3, <3>1, <3>3 DEF Outcome
  <2> QED BY <2>5, <2>6
<1>2. IInv /\ IInv' /\ [Next]_vars => [\A w \in Writers : Meets(w)]_vars
  BY <1>1
<1> QED BY <1>2, Inductive, PTL DEF Spec, CommitMeetsRequest

-----------------------------------------------------------------------------
(* Refinement.                                                             *)

(* Adding a row to the changelog of a key adds its value to the history.   *)
LEMMA ValuesOfAppend ==
    ASSUME NEW rows \in Seq(Row), NEW row \in Row
    PROVE  ValuesOf(Append(rows, row)) = Append(ValuesOf(rows), row.val)
<1>1. \A i \in 1..Len(rows) : rows[i].val \in Value
  <2>1. \A i \in 1..Len(rows) : rows[i] \in Row OBVIOUS
  <2> QED BY <2>1 DEF Row
<1>2. ValuesOf(rows) \in Seq(Value) /\ Len(ValuesOf(rows)) = Len(rows)
  BY <1>1 DEF ValuesOf
<1> QED BY <1>2, AppendedRow DEF ValuesOf, Row

(* The transactions implement one-step writes: what readers see of any     *)
(* interleaving is a behaviour of TupleStore.                              *)
THEOREM RefinesStore == Spec => ImplementsStore
<1>1. Init => Store!StoreInit
  BY DEF Init, Store!StoreInit, historyBar, ValuesOf
<1>2. IInv /\ [Next]_vars => [Store!StoreNext]_(Store!storeVars)
  <2> SUFFICES ASSUME IInv, [Next]_vars PROVE [Store!StoreNext]_(Store!storeVars)
    OBVIOUS
  <2>a. TypeOK BY DEF IInv
  <2>1. CASE \A w \in Writers : ~Commit(w)
    <3>1. UNCHANGED <<tuples, changelog>> BY <2>1, OnlyCommitWrites
    <3> QED BY <3>1 DEF Store!storeVars, historyBar
  <2>2. ASSUME NEW w \in Writers, Commit(w) PROVE Store!StoreNext
    <3> DEFINE batch == [k \in Keys |-> Outcome(w, k)]
               changed == Planned(w)
    <3>1. \A k \in Keys : Outcome(w, k) \in Value
      BY <2>a DEF TypeOK, Outcome, PlannedInserts, WrittenKeys, Request, Value
    <3>2. batch \in [Keys -> Store!Value] BY <3>1 DEF Store!Value, Value
    <3>3. changed \in SUBSET Keys
      BY <2>2, PlannedChange DEF Commit
    <3>4. \A k \in changed : (tuples[k] = Absent) <=> (batch[k] # Absent)
      BY <2>2, PlannedChange DEF Commit
    <3>5. tuples' = [k \in Keys |-> IF k \in changed THEN batch[k] ELSE tuples[k]]
      BY <2>2 DEF Commit, Apply
    <3>6. \A k \in Keys : k \in changed =>
              ValuesOf(changelog'[k]) = Append(ValuesOf(changelog[k]), batch[k])
      <4> SUFFICES ASSUME NEW k \in Keys, k \in changed
                   PROVE  ValuesOf(changelog'[k]) = Append(ValuesOf(changelog[k]), batch[k])
        OBVIOUS
      <4>1. changelog'[k] = Append(changelog[k], ChangelogRow(w, k))
        BY <2>2 DEF Commit, Apply
      <4>2. changelog[k] \in Seq(Row) /\ ChangelogRow(w, k) \in Row
        BY <2>a, <3>1 DEF TypeOK, ChangelogRow, Row
      <4>3. ChangelogRow(w, k).val = batch[k] BY DEF ChangelogRow
      <4> QED BY <4>1, <4>2, <4>3, ValuesOfAppend
    <3>7. \A k \in Keys : k \notin changed => changelog'[k] = changelog[k]
      BY <2>2 DEF Commit, Apply
    <3>8. historyBar' = [k \in Keys |-> IF k \in changed
                                        THEN Append(historyBar[k], batch[k])
                                        ELSE historyBar[k]]
      BY <3>6, <3>7 DEF historyBar
    <3> HIDE DEF batch, changed
    <3> QED BY <3>2, <3>3, <3>4, <3>5, <3>8 DEF Store!StoreNext, Store!StoreWrite
  <2> QED BY <2>1, <2>2
<1> QED BY <1>1, <1>2, Inductive, PTL DEF Spec, ImplementsStore, Store!StoreSpec

-----------------------------------------------------------------------------
(* A client that follows the changelog. *)

Running(w) == pc[w] # "idle"
Logged == {e \in Entry : e[2] <= Len(changelog[e[1]])}
RowAt(e) == changelog[e[1]][e[2]]

(* The calls that run and the rows of a key have times of their own, all   *)
(* of the past.                                                            *)
OwnTimes ==
    /\ \A w \in Writers : Running(w) => now[w] < clock
    /\ \A w, v \in Writers : w # v /\ Running(w) /\ Running(v) => now[w] # now[v]
RowTimes ==
    /\ \A e \in Logged : RowAt(e).ulid < clock
    /\ \A e \in Logged, w \in Writers : Running(w) => RowAt(e).ulid # now[w]
    /\ \A e, f \in Logged : e[1] = f[1] /\ e # f => RowAt(e).ulid # RowAt(f).ulid
LogTimes ==
    /\ \A w \in Writers : logAt[w] <= clock
    /\ \A e \in Logged : RowAt(e).insertedAt <= clock
Times == TypeOK /\ OwnTimes /\ RowTimes /\ LogTimes

(* Rows are only ever added.                                               *)
Keeps == \A e \in Logged : e \in Logged' /\ RowAt(e)' = RowAt(e)

LEMMA RowTypes ==
    ASSUME TypeOK, NEW e \in Logged
    PROVE  /\ e \in Entry /\ e[1] \in Keys /\ e[2] \in 1..Len(changelog[e[1]])
           /\ RowAt(e) \in Row /\ RowAt(e).ulid \in Nat /\ RowAt(e).insertedAt \in Nat
<1>1. e[1] \in Keys /\ e[2] \in Nat \ {0} /\ e[2] <= Len(changelog[e[1]]) /\ e \in Entry
  BY DEF Logged, Entry
<1>2. changelog[e[1]] \in Seq(Row) BY <1>1 DEF TypeOK
<1>3. e[2] \in 1..Len(changelog[e[1]]) BY <1>1, <1>2
<1>4. RowAt(e) \in Row BY <1>2, <1>3 DEF RowAt
<1> QED BY <1>1, <1>3, <1>4 DEF Row

(* Steps that write no row.                                                *)
LEMMA QuietTimes ==
    ASSUME Times, TypeOK', UNCHANGED changelog, clock' >= clock,
           \A w \in Writers : pc'[w] # "idle" => pc[w] # "idle" /\ now'[w] = now[w],
           \A w \in Writers : logAt'[w] <= clock'
    PROVE  Times' /\ Keeps
<1>1. Logged' = Logged /\ \A e : RowAt(e)' = RowAt(e) BY DEF Logged, RowAt
<1>2. clock \in Nat /\ clock' \in Nat /\ \A w \in Writers : now[w] \in Nat
  BY SqlWriteAssumption DEF Times, TypeOK
<1>3. OwnTimes' BY <1>2 DEF Times, OwnTimes, Running
<1>4. \A e \in Logged : RowAt(e).ulid \in Nat /\ RowAt(e).insertedAt \in Nat
  BY RowTypes DEF Times
<1>5. RowTimes'
  <2>1. \A e \in Logged : RowAt(e).ulid < clock' BY <1>2, <1>4 DEF Times, RowTimes
  <2>2. \A e \in Logged, w \in Writers : pc'[w] # "idle" => RowAt(e).ulid # now'[w]
    BY DEF Times, RowTimes, Running
  <2> QED BY <1>1, <2>1, <2>2 DEF Times, RowTimes, Running
<1>6. LogTimes'
  <2>1. \A e \in Logged : RowAt(e).insertedAt <= clock' BY <1>2, <1>4 DEF Times, LogTimes
  <2> QED BY <1>1, <2>1 DEF LogTimes
<1> QED BY <1>1, <1>3, <1>5, <1>6 DEF Times, Keeps

LEMMA RollbackTimes ==
    ASSUME Times, TypeOK', NEW w \in Writers, NEW r, Rollback(w, r)
    PROVE  Times' /\ Keeps
<1>1. clock \in Nat /\ clock' = clock /\ UNCHANGED changelog
  BY SqlWriteAssumption DEF Rollback, Finish, Times, TypeOK
<1>2. \A v \in Writers : pc'[v] # "idle" => pc[v] # "idle" /\ now'[v] = now[v]
  BY DEF Rollback, Finish, Times, TypeOK
<1>3. \A v \in Writers : logAt'[v] <= clock'
  <2>1. \A v \in Writers : logAt'[v] = 0 \/ logAt'[v] = logAt[v]
    BY DEF Rollback, Finish, Times, TypeOK
  <2> QED BY <1>1, <2>1 DEF Times, LogTimes
<1> QED BY <1>1, <1>2, <1>3, QuietTimes

(* The ULIDs of a call are of a tick that no other has.                    *)
LEMMA BeginTimes ==
    ASSUME Times, TypeOK', NEW w \in Writers, NEW r, Begin(w, r)
    PROVE  Times' /\ Keeps
<1>1. /\ clock \in Nat /\ clock' = clock + 1 /\ UNCHANGED <<changelog, logAt>>
      /\ \A v \in Writers : now[v] \in Nat /\ logAt[v] \in Nat
  BY SqlWriteAssumption DEF Begin, Times, TypeOK
<1>2. Logged' = Logged /\ \A e : RowAt(e)' = RowAt(e) BY <1>1 DEF Logged, RowAt
<1>3. \A v \in Writers : /\ v = w => now'[v] = clock
                         /\ v # w => pc'[v] = pc[v] /\ now'[v] = now[v]
  BY DEF Begin, Times, TypeOK
<1>4. OwnTimes'
  <2>1. \A v \in Writers : pc'[v] # "idle" => now'[v] < clock'
    BY <1>1, <1>3 DEF Times, OwnTimes, Running
  <2>2. ASSUME NEW u \in Writers, NEW v \in Writers, u # v, pc'[u] # "idle", pc'[v] # "idle"
        PROVE  now'[u] # now'[v]
    BY <1>1, <1>3, <2>2 DEF Times, OwnTimes, Running
  <2> QED BY <2>1, <2>2 DEF OwnTimes, Running
<1>5. \A e \in Logged : /\ RowAt(e).ulid \in Nat /\ RowAt(e).insertedAt \in Nat
                        /\ RowAt(e).ulid < clock /\ RowAt(e).insertedAt <= clock
  BY RowTypes DEF Times, RowTimes, LogTimes
<1>6. RowTimes'
  <2>1. \A e \in Logged : RowAt(e).ulid < clock' BY <1>1, <1>5
  <2>2. ASSUME NEW e \in Logged, NEW v \in Writers, pc'[v] # "idle" PROVE RowAt(e).ulid # now'[v]
    <3>1. CASE v = w BY <1>1, <1>3, <1>5, <3>1
    <3>2. CASE v # w BY <1>3, <2>2, <3>2 DEF Times, RowTimes, Running
    <3> QED BY <3>1, <3>2
  <2> QED BY <1>2, <2>1, <2>2 DEF Times, RowTimes, Running
<1>7. LogTimes'
  <2>1. \A e \in Logged : RowAt(e).insertedAt <= clock' BY <1>1, <1>5
  <2>2. \A v \in Writers : logAt[v] <= clock' BY <1>1 DEF Times, LogTimes
  <2> QED BY <1>1, <1>2, <2>1, <2>2 DEF LogTimes
<1> QED BY <1>2, <1>4, <1>6, <1>7 DEF Times, Keeps

(* A commit adds a row to each key it changes, of its own time.            *)
LEMMA CommitTimes ==
    ASSUME Times, TypeOK', NEW w \in Writers, Commit(w)
    PROVE  Times' /\ Keeps
<1>1. /\ clock \in Nat /\ clock' = clock /\ Running(w) /\ now[w] \in Nat /\ logAt[w] \in Nat
      /\ now[w] < clock /\ logAt[w] <= clock
  BY SqlWriteAssumption DEF Commit, Finish, Times, TypeOK, OwnTimes, LogTimes, Running
<1>2. \A v \in Writers : pc'[v] # "idle" => pc[v] # "idle" /\ now'[v] = now[v] /\ v # w
  BY DEF Commit, Finish, Times, TypeOK
<1>3. \A k \in Keys : changelog[k] \in Seq(Row) BY DEF Times, TypeOK
<1>4. \A k \in Keys : \/ changelog'[k] = changelog[k]
                      \/ changelog'[k] = Append(changelog[k], ChangelogRow(w, k))
  BY DEF Commit, Apply
<1>5. \A k \in Keys : ChangelogRow(w, k).ulid = now[w] /\ ChangelogRow(w, k).insertedAt = logAt[w]
  BY DEF ChangelogRow
<1>6. Keeps
  <2> SUFFICES ASSUME NEW e \in Logged PROVE e \in Logged' /\ RowAt(e)' = RowAt(e)
    BY DEF Keeps
  <2>1. e \in Entry /\ e[1] \in Keys /\ e[2] \in 1..Len(changelog[e[1]]) BY RowTypes DEF Times
  <2>2. PICK s \in Seq(Row) : s = changelog[e[1]] BY <1>3, <2>1
  <2>3. PICK x : x = ChangelogRow(w, e[1]) OBVIOUS
  <2>4. \A i \in 1..Len(s) : Append(s, x)[i] = s[i] /\ i <= Len(Append(s, x)) OBVIOUS
  <2>5. changelog'[e[1]][e[2]] = changelog[e[1]][e[2]] /\ e[2] <= Len(changelog'[e[1]])
    BY <1>4, <2>1, <2>2, <2>3, <2>4
  <2> QED BY <2>1, <2>5 DEF Logged, RowAt
<1>7. ASSUME NEW e \in Logged', e \notin Logged
      PROVE  /\ e[1] \in Keys /\ e = <<e[1], Len(changelog[e[1]]) + 1>>
             /\ RowAt(e)'.ulid = now[w] /\ RowAt(e)'.insertedAt = logAt[w]
  <2>1. e \in Entry /\ e[1] \in Keys /\ e[2] \in Nat \ {0} /\ e[2] <= Len(changelog'[e[1]])
        /\ e = <<e[1], e[2]>>
    BY <1>7 DEF Logged, Entry
  <2>2. PICK s \in Seq(Row) : s = changelog[e[1]] BY <1>3, <2>1
  <2>3. PICK x : x = ChangelogRow(w, e[1]) OBVIOUS
  <2>4. ~(e[2] <= Len(s)) BY <1>7, <2>1, <2>2 DEF Logged
  <2>5. Len(Append(s, x)) = Len(s) + 1 /\ Append(s, x)[Len(s) + 1] = x /\ Len(s) \in Nat OBVIOUS
  <2>6. changelog'[e[1]] = Append(s, x) BY <1>4, <2>1, <2>2, <2>3, <2>4
  <2>7. e[2] = Len(s) + 1 BY <2>1, <2>4, <2>5, <2>6
  <2>8. RowAt(e)' = x BY <2>5, <2>6, <2>7 DEF RowAt
  <2> QED BY <1>5, <2>1, <2>2, <2>3, <2>7, <2>8
<1>8. OwnTimes' BY <1>1, <1>2 DEF Times, OwnTimes, Running
<1>9. \A e \in Logged : /\ RowAt(e)' = RowAt(e) /\ RowAt(e).ulid # now[w]
                        /\ RowAt(e).ulid < clock /\ RowAt(e).insertedAt <= clock
  BY <1>1, <1>6 DEF Keeps, Times, RowTimes, LogTimes
<1>10. RowTimes'
  <2>1. \A e \in Logged' : RowAt(e)'.ulid < clock' BY <1>1, <1>7, <1>9
  <2>2. ASSUME NEW e \in Logged', NEW v \in Writers, pc'[v] # "idle" PROVE RowAt(e)'.ulid # now'[v]
    <3>1. pc[v] # "idle" /\ now'[v] = now[v] /\ v # w BY <1>2, <2>2
    <3>2. now[v] # now[w] BY <1>1, <3>1 DEF Times, OwnTimes, Running
    <3>3. CASE e \in Logged BY <1>9, <3>1, <3>3 DEF Times, RowTimes, Running
    <3>4. CASE e \notin Logged BY <1>7, <3>1, <3>2, <3>4
    <3> QED BY <3>3, <3>4
  <2>3. ASSUME NEW e \in Logged', NEW f \in Logged', e[1] = f[1], e # f
        PROVE  RowAt(e)'.ulid # RowAt(f)'.ulid
    <3>1. CASE e \in Logged /\ f \in Logged BY <1>9, <2>3, <3>1 DEF Times, RowTimes
    <3>2. CASE e \in Logged /\ f \notin Logged BY <1>7, <1>9, <3>2
    <3>3. CASE e \notin Logged /\ f \in Logged BY <1>7, <1>9, <3>3
    <3>4. CASE e \notin Logged /\ f \notin Logged BY <1>7, <2>3, <3>4
    <3> QED BY <3>1, <3>2, <3>3, <3>4
  <2> QED BY <2>1, <2>2, <2>3 DEF RowTimes, Running
<1>11. LogTimes'
  <2>1. \A e \in Logged' : RowAt(e)'.insertedAt <= clock' BY <1>1, <1>7, <1>9
  <2>2. \A v \in Writers : logAt'[v] = 0 \/ logAt'[v] = logAt[v]
    BY DEF Commit, Finish, Times, TypeOK
  <2>3. \A v \in Writers : logAt'[v] <= clock' BY <1>1, <2>2 DEF Times, LogTimes
  <2> QED BY <2>1, <2>3 DEF LogTimes
<1> QED BY <1>6, <1>8, <1>10, <1>11 DEF Times

LEMMA TimesStep == Times /\ [Next]_vars => Times' /\ Keeps
<1> SUFFICES ASSUME Times, [Next]_vars PROVE Times' /\ Keeps
  OBVIOUS
<1>0. TypeOK /\ TypeOK' BY TypeStep DEF Times
<1>a. clock \in Nat BY <1>0, SqlWriteAssumption DEF TypeOK
<1>1. ASSUME NEW w \in Writers, UNCHANGED <<changelog, clock, now, logAt>>, pc[w] # "idle",
             \A v \in Writers : v # w => pc'[v] = pc[v]
      PROVE  Times' /\ Keeps
  <2>1. \A v \in Writers : pc'[v] # "idle" => pc[v] # "idle" /\ now'[v] = now[v] BY <1>1
  <2>2. \A v \in Writers : logAt'[v] <= clock' BY <1>1 DEF Times, LogTimes
  <2> QED BY <1>0, <1>1, <1>a, <2>1, <2>2, QuietTimes
<1>2. ASSUME NEW w \in Writers, NEW r \in Requests, Reject(w, r) \/ Begin(w, r) PROVE Times' /\ Keeps
  BY <1>0, <1>2, RollbackTimes, BeginTimes DEF Reject
<1>3. ASSUME NEW w \in Writers, NEW k \in Keys, SelectRow(w, k) \/ InsertRow(w, k) PROVE Times' /\ Keeps
  BY <1>0, <1>1, <1>3 DEF SelectRow, InsertRow, TypeOK
<1>4. ASSUME NEW w \in Writers, NEW k \in Keys, InsertConflict(w, k) PROVE Times' /\ Keeps
  BY <1>0, <1>4, RollbackTimes DEF InsertConflict
<1>5. ASSUME NEW w \in Writers, Plan(w) PROVE Times' /\ Keeps
  BY <1>0, <1>1, <1>5 DEF Plan, TypeOK
<1>6. ASSUME NEW w \in Writers, PlanFails(w) \/ Abort(w) \/ DeadlockVictim(w) PROVE Times' /\ Keeps
  BY <1>0, <1>6, RollbackTimes DEF PlanFails, Abort, DeadlockVictim
<1>7. ASSUME NEW w \in Writers, ExecDeletes(w) PROVE Times' /\ Keeps
  BY <1>0, <1>1, <1>7, RollbackTimes DEF ExecDeletes, TypeOK
<1>8. ASSUME NEW w \in Writers, ExecChangelog(w) PROVE Times' /\ Keeps
  <2>1. \A v \in Writers : pc'[v] # "idle" => pc[v] # "idle" /\ now'[v] = now[v]
    BY <1>0, <1>8 DEF ExecChangelog, TypeOK
  <2>2. \A v \in Writers : logAt'[v] = clock \/ logAt'[v] = logAt[v]
    BY <1>0, <1>8 DEF ExecChangelog, TypeOK
  <2>3. \A v \in Writers : logAt'[v] <= clock'
    BY <1>8, <1>a, <2>2 DEF ExecChangelog, Times, LogTimes
  <2> QED BY <1>0, <1>8, <1>a, <2>1, <2>3, QuietTimes DEF ExecChangelog
<1>9. ASSUME NEW w \in Writers, Commit(w) PROVE Times' /\ Keeps BY <1>0, <1>9, CommitTimes
<1>10. CASE UNCHANGED vars
  <2>1. UNCHANGED <<changelog, clock, now, logAt, pc>> BY <1>10 DEF vars, txnVars
  <2>2. \A v \in Writers : logAt'[v] <= clock' BY <2>1 DEF Times, LogTimes
  <2> QED BY <1>0, <1>a, <2>1, <2>2, QuietTimes
<1> QED BY <1>2, <1>3, <1>4, <1>5, <1>6, <1>7, <1>8, <1>9, <1>10 DEF Next, Step

(* The order of ULIDs.                                                     *)
LEMMA BeforeFacts ==
    \A a, b, c \in Ulid : /\ ~Before(a, a)
                          /\ Before(a, b) => ~Before(b, a)
                          /\ Before(a, b) \/ Before(b, a) \/ a = b
                          /\ Before(a, b) /\ Before(b, c) => Before(a, c)
                          /\ ~Before(b, a) /\ Before(b, c) => Before(a, c)
                          /\ ~Before(b, a) /\ ~Before(c, b) => ~Before(c, a)
<1> SUFFICES ASSUME NEW a \in Ulid, NEW b \in Ulid, NEW c \in Ulid
             PROVE  /\ ~Before(a, a)
                    /\ Before(a, b) => ~Before(b, a)
                    /\ Before(a, b) \/ Before(b, a) \/ a = b
                    /\ Before(a, b) /\ Before(b, c) => Before(a, c)
                    /\ ~Before(b, a) /\ Before(b, c) => Before(a, c)
                    /\ ~Before(b, a) /\ ~Before(c, b) => ~Before(c, a)
  OBVIOUS
<1>1. /\ a[1] \in Int /\ a[2] \in Int /\ b[1] \in Int /\ b[2] \in Int /\ c[1] \in Int /\ c[2] \in Int
      /\ a = <<a[1], a[2]>> /\ b = <<b[1], b[2]>>
  BY DEF Ulid
<1>2. a[1] = b[1] /\ a[2] = b[2] => a = b BY <1>1
<1> QED BY <1>1, <1>2 DEF Before

(* Every row has a ULID of its own.                                        *)
LEMMA UlidFacts ==
    ASSUME Times
    PROVE  /\ \A e \in Logged : UlidOf(e) \in Ulid /\ UlidOf(e) = <<RowAt(e).ulid, e[1]>>
           /\ \A e, f \in Logged : UlidOf(e) = UlidOf(f) => e = f
<1>1. \A e \in Logged : UlidOf(e) = <<RowAt(e).ulid, e[1]>> BY DEF UlidOf, RowAt
<1>2. \A e \in Logged : RowAt(e).ulid \in Nat /\ e[1] \in Nat
  BY RowTypes, SqlWriteAssumption DEF Times
<1>3. \A e \in Logged : UlidOf(e) \in Ulid BY <1>1, <1>2 DEF Ulid
<1>4. ASSUME NEW e \in Logged, NEW f \in Logged, UlidOf(e) = UlidOf(f) PROVE e = f
  <2>1. RowAt(e).ulid = RowAt(f).ulid /\ e[1] = f[1] BY <1>1, <1>4
  <2> QED BY <2>1 DEF Times, RowTimes
<1> QED BY <1>1, <1>3, <1>4

LEMMA VisibleFacts == IsFiniteSet(Visible) /\ Visible \subseteq Logged /\ Logged \subseteq Entry
<1>1. IsFiniteSet(Keys) /\ MaxClock \in Nat /\ Watched \subseteq Keys
  BY SqlWriteAssumption, ReaderAssumption
<1>2. IsFiniteSet(Watched) /\ IsFiniteSet(1..MaxClock) BY <1>1, FS_Subset, FS_Interval
<1>3. IsFiniteSet(Watched \X (1..MaxClock)) BY <1>2, FS_Product
<1>4. Visible \subseteq Watched \X (1..MaxClock) BY DEF Visible, Committed
<1>5. IsFiniteSet(Visible) BY <1>3, <1>4, FS_Subset
<1>6. Visible \subseteq Logged BY <1>1 DEF Visible, Committed, Logged, Entry
<1> QED BY <1>5, <1>6 DEF Logged

(* A page: changes behind the token, in the order of their ULIDs, and none *)
(* left out before its last.                                               *)
LEMMA PageFacts ==
    ASSUME Times, Visible # {}
    PROVE  /\ Page \in Seq(Visible) /\ Len(Page) \in Nat /\ 1 <= Len(Page)
           /\ \A i, j \in 1..Len(Page) : i < j => Before(UlidOf(Page[i]), UlidOf(Page[j]))
           /\ \A e \in Visible : \/ \E i \in 1..Len(Page) : Page[i] = e
                                 \/ Before(UlidOf(Page[Len(Page)]), UlidOf(e))
<1>1. PICK V : V = Visible OBVIOUS
<1>2. IsFiniteSet(V) /\ V \subseteq Logged BY <1>1, VisibleFacts
<1>3. /\ \A e \in V : UlidOf(e) \in Ulid
      /\ \A e, f \in V : UlidOf(e) = UlidOf(f) => e = f
  BY <1>2, UlidFacts
<1> DEFINE R == {p \in V \X V : Before(UlidOf(p[1]), UlidOf(p[2]))}
<1>4. \A e, f \in V : <<e, f>> \in R <=> Before(UlidOf(e), UlidOf(f)) OBVIOUS
<1>5. InUlidOrder(V) = Sorted(V, R) BY DEF InUlidOrder
<1> HIDE DEF R
<1>6. WeakOrder(V, R)
  <2>1. ASSUME NEW e \in V, NEW f \in V PROVE <<e, f>> \in R => <<f, e>> \notin R
    BY <1>3, <1>4, BeforeFacts
  <2>2. ASSUME NEW e \in V, NEW f \in V, NEW g \in V, <<e, f>> \notin R, <<f, g>> \notin R
        PROVE  <<e, g>> \notin R
    <3>1. ~Before(UlidOf(e), UlidOf(f)) /\ ~Before(UlidOf(f), UlidOf(g)) BY <1>4, <2>2
    <3>2. UlidOf(e) \in Ulid /\ UlidOf(f) \in Ulid /\ UlidOf(g) \in Ulid BY <1>3
    <3>3. ~Before(UlidOf(e), UlidOf(g)) BY <3>1, <3>2, BeforeFacts
    <3> QED BY <1>4, <3>3
  <2> QED BY <2>1, <2>2 DEF WeakOrder
<1>7. PICK s : s = Sorted(V, R) OBVIOUS
<1>8. PICK n : n = Cardinality(V) OBVIOUS
<1>9. /\ s \in Seq(V) /\ Len(s) = n /\ n \in Nat
      /\ \A i, j \in 1..n : i < j => s[i] # s[j] /\ <<s[j], s[i]>> \notin R
      /\ \A x \in V : \E i \in 1..n : s[i] = x
  BY <1>2, <1>6, <1>7, <1>8, SortedFacts
<1>10. \A i \in 1..n : s[i] \in V BY <1>9
<1>11. ASSUME NEW i \in 1..n, NEW j \in 1..n, i < j PROVE Before(UlidOf(s[i]), UlidOf(s[j]))
  <2>1. s[i] # s[j] /\ ~Before(UlidOf(s[j]), UlidOf(s[i])) BY <1>4, <1>9, <1>10, <1>11
  <2>2. UlidOf(s[i]) # UlidOf(s[j]) BY <1>3, <1>10, <2>1
  <2>3. UlidOf(s[i]) \in Ulid /\ UlidOf(s[j]) \in Ulid BY <1>3, <1>10
  <2> QED BY <2>1, <2>2, <2>3, BeforeFacts
<1>12. PICK x \in V : TRUE BY <1>1
<1>13. 1 <= n
  <2>1. PICK i \in 1..n : s[i] = x BY <1>9, <1>12
  <2> QED BY <1>9, <2>1
<1>14. PICK m : m = IF n < PageSize THEN n ELSE PageSize OBVIOUS
<1>15. m \in Nat /\ 1 <= m /\ m <= n BY <1>9, <1>13, <1>14, ReaderAssumption
<1>16. PICK p : p = SubSeq(s, 1, m) OBVIOUS
<1>17. Page = p BY <1>1, <1>5, <1>7, <1>8, <1>14, <1>16 DEF Page
<1>18. p \in Seq(V) /\ Len(p) = m /\ \A i \in 1..m : p[i] = s[i] BY <1>9, <1>15, <1>16
<1>19. \A i \in 1..m : i \in 1..n BY <1>9, <1>15
<1>20. \A i, j \in 1..m : i < j => Before(UlidOf(p[i]), UlidOf(p[j])) BY <1>11, <1>18, <1>19
<1>21. ASSUME NEW e \in V PROVE (\E i \in 1..m : p[i] = e) \/ Before(UlidOf(p[m]), UlidOf(e))
  <2>1. PICK i \in 1..n : s[i] = e BY <1>9
  <2>2. CASE i <= m
    <3>1. i \in 1..m BY <1>9, <1>15, <2>2
    <3> QED BY <1>18, <2>1, <3>1
  <2>3. CASE m < i
    <3>1. m \in 1..n /\ m \in 1..m BY <1>9, <1>15
    <3> QED BY <1>11, <1>18, <2>1, <2>3, <3>1
  <2> QED BY <1>9, <1>15, <2>1, <2>2, <2>3
<1> QED BY <1>1, <1>15, <1>17, <1>18, <1>20, <1>21

(* What the client has got are rows of the changelog, before its token.    *)
ReaderInv ==
    /\ Times /\ ReaderTypeOK /\ DeliveredOnce
    /\ \A i \in 1..Len(delivered) : delivered[i] \in Logged

(* The changelog grows, the client does nothing.                           *)
LEMMA ReaderStays ==
    ASSUME ReaderInv, Times', Keeps, UNCHANGED readerVars
    PROVE  ReaderInv'
<1>1. \A i \in 1..Len(delivered) : /\ delivered[i] \in Logged /\ delivered[i] \in Logged'
                                   /\ RowAt(delivered[i])' = RowAt(delivered[i])
  BY DEF ReaderInv, Keeps, readerVars, RowAt
<1>2. \A e : UlidOf(e) = <<RowAt(e).ulid, e[1]>> /\ UlidOf(e)' = <<RowAt(e)'.ulid, e[1]>>
  BY DEF UlidOf, RowAt
<1>3. \A i \in 1..Len(delivered) : UlidOf(delivered[i])' = UlidOf(delivered[i])
  <2> SUFFICES ASSUME NEW i \in 1..Len(delivered) PROVE UlidOf(delivered[i])' = UlidOf(delivered[i])
    OBVIOUS
  <2>1. PICK e : e = delivered[i] OBVIOUS
  <2>2. delivered'[i] = e BY <2>1 DEF readerVars
  <2>3. RowAt(e)' = RowAt(e) BY <1>1, <2>1, <2>2 DEF RowAt
  <2>4. UlidOf(e)' = UlidOf(e) BY <1>2, <2>3
  <2> QED BY <2>1, <2>2, <2>4 DEF UlidOf
<1>4. DeliveredOnce' BY <1>3 DEF ReaderInv, DeliveredOnce, readerVars, Before
<1> QED BY <1>1, <1>4 DEF ReaderInv, ReaderTypeOK, readerVars

(* The client is given a page.                                             *)
LEMMA ReaderReads ==
    ASSUME ReaderInv, ReadChanges
    PROVE  ReaderInv'
<1>1. Times BY DEF ReaderInv
<1>2. PICK V : V = Visible OBVIOUS
<1>3. PICK p : p = Page OBVIOUS
<1>4. PICK m : m = Len(p) OBVIOUS
<1>5. /\ p \in Seq(V) /\ m \in Nat /\ 1 <= m
      /\ \A i, j \in 1..m : i < j => Before(UlidOf(p[i]), UlidOf(p[j]))
  BY <1>1, <1>2, <1>3, <1>4, PageFacts DEF ReadChanges
<1>6. V \subseteq Logged /\ Logged \subseteq Entry BY <1>2, VisibleFacts
<1>7. \A e \in V : Before(token, UlidOf(e)) BY <1>2 DEF Visible
<1>8. \A e \in Logged : UlidOf(e) \in Ulid BY <1>1, UlidFacts
<1>9. PICK d : d = delivered OBVIOUS
<1>10. PICK tk : tk = token OBVIOUS
<1>11. /\ d \in Seq(Entry) /\ tk \in Ulid /\ \A i \in 1..Len(d) : d[i] \in Logged
       /\ \A i, j \in 1..Len(d) : i < j => Before(UlidOf(d[i]), UlidOf(d[j]))
       /\ \A i \in 1..Len(d) : ~Before(tk, UlidOf(d[i]))
  BY <1>9, <1>10 DEF ReaderInv, ReaderTypeOK, DeliveredOnce
<1>12. PICK n \in Nat : n = Len(d) BY <1>11
<1>13. PICK g : g = d \o p OBVIOUS
<1>14. p \in Seq(Entry)
  <2>1. V \subseteq Entry BY <1>6
  <2> QED BY <1>5, <2>1
<1>15. g \in Seq(Entry) /\ Len(g) = n + m
       /\ \A i \in 1..(n + m) : g[i] = IF i <= n THEN d[i] ELSE p[i - n]
  BY <1>4, <1>11, <1>12, <1>13, <1>14
<1>16. \A i \in 1..(n + m) : IF i <= n THEN i \in 1..n ELSE i - n \in 1..m BY <1>5
<1>17. \A i \in 1..m : p[i] \in V /\ p[i] \in Logged /\ UlidOf(p[i]) \in Ulid
  BY <1>4, <1>5, <1>6, <1>8
<1>18. \A i \in 1..n : d[i] \in Logged /\ UlidOf(d[i]) \in Ulid BY <1>8, <1>11, <1>12
<1>19. ASSUME NEW i \in 1..n, NEW j \in 1..m PROVE Before(UlidOf(d[i]), UlidOf(p[j]))
  <2>1. ~Before(tk, UlidOf(d[i])) BY <1>11, <1>12
  <2>2. Before(tk, UlidOf(p[j])) BY <1>7, <1>10, <1>17
  <2> QED BY <1>11, <1>17, <1>18, <2>1, <2>2, BeforeFacts
<1>20. ASSUME NEW i \in 1..(n + m), NEW j \in 1..(n + m), i < j
       PROVE  Before(UlidOf(g[i]), UlidOf(g[j]))
  <2>1. CASE j <= n
    <3>1. i \in 1..n /\ j \in 1..n /\ g[i] = d[i] /\ g[j] = d[j] BY <1>5, <1>15, <1>20, <2>1
    <3> QED BY <1>11, <1>12, <1>20, <3>1
  <2>2. CASE i <= n /\ ~(j <= n)
    <3>1. i \in 1..n /\ j - n \in 1..m /\ g[i] = d[i] /\ g[j] = p[j - n] BY <1>15, <1>16, <2>2
    <3> QED BY <1>19, <3>1
  <2>3. CASE ~(i <= n) /\ ~(j <= n)
    <3>1. PICK a \in 1..m : a = i - n /\ g[i] = p[a] BY <1>15, <1>16, <2>3
    <3>2. PICK b \in 1..m : b = j - n /\ g[j] = p[b] BY <1>15, <1>16, <2>3
    <3>3. a < b BY <1>5, <1>20, <3>1, <3>2
    <3> QED BY <1>5, <3>1, <3>2, <3>3
  <2> QED BY <1>5, <1>20, <2>1, <2>2, <2>3
<1>21. m \in 1..m /\ token' = UlidOf(p[m]) /\ delivered' = g
  BY <1>3, <1>4, <1>5, <1>9, <1>13 DEF ReadChanges
<1>22. ASSUME NEW i \in 1..(n + m) PROVE ~Before(UlidOf(p[m]), UlidOf(g[i]))
  <2>1. CASE i <= n
    <3>1. i \in 1..n /\ g[i] = d[i] BY <1>15, <1>16, <2>1
    <3>2. Before(UlidOf(g[i]), UlidOf(p[m])) BY <1>19, <1>21, <3>1
    <3> QED BY <1>17, <1>18, <1>21, <3>1, <3>2, BeforeFacts
  <2>2. CASE ~(i <= n)
    <3>1. PICK a \in 1..m : g[i] = p[a] BY <1>15, <1>16, <2>2
    <3>2. CASE a = m BY <1>17, <1>21, <3>1, <3>2, BeforeFacts
    <3>3. CASE a < m
      <4>1. Before(UlidOf(p[a]), UlidOf(p[m])) BY <1>5, <1>21, <3>3
      <4> QED BY <1>17, <1>21, <3>1, <4>1, BeforeFacts
    <3> QED BY <1>5, <3>1, <3>2, <3>3
  <2> QED BY <2>1, <2>2
<1>23. UNCHANGED vars /\ UNCHANGED <<changelog, clock, now, logAt, pc>>
  BY DEF ReadChanges, vars, txnVars
<1>24. Times' BY <1>1, <1>23, TimesStep
<1>25. Logged' = Logged /\ \A e : UlidOf(e)' = UlidOf(e) BY <1>23 DEF Logged, UlidOf
<1>26. \A i \in 1..(n + m) : g[i] \in Logged BY <1>15, <1>16, <1>17, <1>18
<1>27. DeliveredOnce'
  <2>1. \A i \in 1..(n + m) : UlidOf(delivered[i])' = UlidOf(g[i]) BY <1>21, <1>23 DEF UlidOf
  <2>2. Len(delivered') = n + m BY <1>15, <1>21
  <2> QED BY <1>20, <1>21, <1>22, <2>1, <2>2 DEF DeliveredOnce, Before
<1>28. ReaderTypeOK' BY <1>15, <1>17, <1>21 DEF ReaderTypeOK
<1>29. \A i \in 1..Len(delivered') : delivered'[i] \in Logged' BY <1>15, <1>21, <1>25, <1>26
<1> QED BY <1>24, <1>27, <1>28, <1>29 DEF ReaderInv

LEMMA ReaderInvStep == ReaderInv /\ [ReaderNext]_<<vars, readerVars>> => ReaderInv'
<1> SUFFICES ASSUME ReaderInv, [ReaderNext]_<<vars, readerVars>> PROVE ReaderInv'
  OBVIOUS
<1>1. CASE [Next]_vars /\ UNCHANGED readerVars
  BY <1>1, TimesStep, ReaderStays DEF ReaderInv
<1>2. CASE ReadChanges BY <1>2, ReaderReads
<1>3. CASE Tick
  <2>1. Times /\ clock \in Nat BY SqlWriteAssumption DEF ReaderInv, Times, TypeOK
  <2>2. TypeOK' BY <1>3, <2>1, SqlWriteAssumption DEF Tick, Times, TypeOK
  <2>3. clock' = clock + 1 /\ clock' >= clock /\ UNCHANGED <<changelog, pc, now, logAt>> /\ UNCHANGED readerVars
    BY <1>3, <2>1 DEF Tick, readerVars
  <2>4. \A w \in Writers : logAt'[w] <= clock'
    <3>1. \A w \in Writers : logAt[w] \in Nat /\ logAt[w] <= clock BY <2>1 DEF Times, TypeOK, LogTimes
    <3> QED BY <2>1, <2>3, <3>1
  <2>5. Times' /\ Keeps BY <2>1, <2>2, <2>3, <2>4, QuietTimes
  <2> QED BY <2>3, <2>5, ReaderStays
<1> QED BY <1>1, <1>2, <1>3 DEF ReaderNext

LEMMA ReaderInvInit == ReaderInit => ReaderInv
<1> SUFFICES ASSUME ReaderInit PROVE ReaderInv
  OBVIOUS
<1>1. Init BY DEF ReaderInit
<1>2. TypeOK
  BY <1>1, SqlWriteAssumption, EmptyRequestType DEF Init, TypeOK, Value, States, Results, Row
<1>3. Logged = {}
  <2> SUFFICES ASSUME NEW e \in Logged PROVE FALSE
    OBVIOUS
  <2>1. e[1] \in Keys /\ e[2] \in 1..Len(changelog[e[1]]) BY <1>2, RowTypes
  <2>2. changelog[e[1]] = <<>> BY <1>1, <2>1 DEF Init
  <2> QED BY <2>1, <2>2
<1>4. Times BY <1>1, <1>2, <1>3 DEF Init, Times, OwnTimes, RowTimes, LogTimes, Running
<1>5. delivered = <<>> /\ Len(delivered) = 0 BY DEF ReaderInit
<1>6. token \in Ulid BY SqlWriteAssumption DEF ReaderInit, Ulid
<1>7. ReaderTypeOK BY <1>5, <1>6 DEF ReaderTypeOK
<1> QED BY <1>4, <1>5, <1>7 DEF ReaderInv, DeliveredOnce

(* No client that follows the changelog with the tokens it is given sees a *)
(* change twice or out of the order of ULIDs, whenever the transactions    *)
(* that wrote the changes commit and whatever the page and the horizon.    *)
THEOREM ChangesAreDeliveredOnce == ReaderSpec => []DeliveredOnce
<1>1. ReaderInv => DeliveredOnce BY DEF ReaderInv
<1> QED BY <1>1, ReaderInvInit, ReaderInvStep, PTL DEF ReaderSpec

(* Without a horizon a page jumps over no change that is committed: what   *)
(* was ahead of the token and is so no longer has been delivered.          *)
THEOREM PagesAreGapless == ASSUME Horizon = 0 PROVE ReaderSpec => PagesSkipNothing
<1>1. ReaderInv /\ [ReaderNext]_<<vars, readerVars>>
        => [\A e \in Committed : (Before(token, UlidOf(e)) /\ ~Before(token', UlidOf(e)))
                                     => e \in Range(delivered')]_<<vars, readerVars>>
  <2> SUFFICES ASSUME ReaderInv, ReaderNext, NEW e \in Committed,
                      Before(token, UlidOf(e)), ~Before(token', UlidOf(e))
               PROVE  e \in Range(delivered')
    OBVIOUS
  <2>1. ReadChanges BY DEF ReaderNext, Tick, readerVars
  <2>2. Times BY DEF ReaderInv
  <2>3. e \in Logged
    <3>1. MaxClock \in Nat /\ Watched \subseteq Keys BY SqlWriteAssumption, ReaderAssumption
    <3> QED BY <3>1 DEF Committed, Logged, Entry
  <2>4. RowAt(e).insertedAt \in Nat /\ RowAt(e).insertedAt <= clock
    BY <2>2, <2>3, RowTypes DEF Times, LogTimes
  <2>5. e \in Visible BY <2>4 DEF Visible, RowAt
  <2>6. PICK p : p = Page OBVIOUS
  <2>7. /\ p \in Seq(Visible) /\ Len(p) \in Nat /\ 1 <= Len(p)
        /\ (\E i \in 1..Len(p) : p[i] = e) \/ Before(UlidOf(p[Len(p)]), UlidOf(e))
    BY <2>2, <2>5, <2>6, PageFacts
  <2>8. PICK i \in 1..Len(p) : p[i] = e BY <2>1, <2>6, <2>7 DEF ReadChanges
  <2>9. PICK d : d = delivered OBVIOUS
  <2>10. d \in Seq(Entry) /\ p \in Seq(Entry)
    <3>1. Visible \subseteq Entry BY VisibleFacts
    <3> QED BY <2>7, <2>9, <3>1 DEF ReaderInv, ReaderTypeOK
  <2>11. PICK n \in Nat : n = Len(d) BY <2>10
  <2>12. n + i \in DOMAIN (d \o p) /\ (d \o p)[n + i] = e BY <2>7, <2>8, <2>10, <2>11
  <2> QED BY <2>1, <2>6, <2>9, <2>12 DEF ReadChanges, Range
<1> QED BY <1>1, ReaderInvInit, ReaderInvStep, PTL DEF ReaderSpec, PagesSkipNothing

-----------------------------------------------------------------------------
(* Waiting.                                                                *)

(* A running call can take a step of its own, whichever row the database   *)
(* visits next: guards of the disjuncts of Step, without the lock monitor's. *)
GoesOn(w) ==
    \/ /\ pc[w] = "select"
       /\ todo[w] # {} /\ \A k \in todo[w] : Free(w, k)
    \/ pc[w] \in {"plan", "commit"}
    \/ pc[w] = "delete" /\ \A k \in RowsAffected(w) : Free(w, k)
    \/ /\ pc[w] = "insert"
       /\ \A k \in todo[w] : tuples[k] # Absent \/ Free(w, k)

(* Calls of which each waits for one of them, and a call the lock monitor  *)
(* may end.                                                                *)
LockedUp(S) == \A u \in S : \E v \in S : WaitsFor(u, v)
IsVictim(w) == \E S \in SUBSET Writers : w \in S /\ LockedUp(S)

(* A call that cannot go on waits for one that runs; and if calls run, one *)
(* goes on or the lock monitor has one to end. (The state predicate behind *)
(* CallsReturn: nobody waits for a lock that nobody will release.)         *)
LocksAreAwaited ==
    /\ \A w \in Writers : Running(w) => GoesOn(w) \/ (\E v \in Writers : Running(v) /\ WaitsFor(w, v))
    /\ (\E w \in Writers : Running(w)) => \E w \in Writers : Running(w) /\ (GoesOn(w) \/ IsVictim(w))

(* What a step does to the call that takes it: it begins or is refused, it *)
(* ends, it comes to a later statement, or its statement has fewer keys to *)
(* visit. No other call moves. A call so takes finitely many steps.        *)
Later == {<<"select", "plan">>, <<"plan", "delete">>, <<"delete", "insert">>, <<"insert", "commit">>}
MovesOn(w) ==
    \/ pc[w] = "idle"
    \/ pc'[w] = "idle"
    \/ <<pc[w], pc'[w]>> \in Later
    \/ pc'[w] = pc[w] /\ todo'[w] \subseteq todo[w] /\ todo'[w] # todo[w]
OneMovesOn ==
    \E w \in Writers : MovesOn(w) /\ \A u \in Writers \ {w} : pc'[u] = pc[u] /\ todo'[u] = todo[u]

(* In its SELECT a call has keys left.                                     *)
SelectsHaveKeys == \A w \in Writers : pc[w] = "select" => todo[w] # {}

(* A step moves one call on and leaves the others where they are.          *)
LEMMA MovesOnStep == TypeOK /\ [Next]_vars => [OneMovesOn]_vars
<1> SUFFICES ASSUME TypeOK, Next PROVE OneMovesOn
  OBVIOUS
<1> DEFINE Moved(w) == /\ MovesOn(w)
                       /\ \A u \in Writers \ {w} : pc'[u] = pc[u] /\ todo'[u] = todo[u]
<1> SUFFICES \E w \in Writers : Moved(w)
  BY DEF OneMovesOn
<1>1. ASSUME NEW w \in Writers, NEW r, Finish(w, r) PROVE Moved(w)
  BY <1>1 DEF Finish, MovesOn, TypeOK
<1>2. ASSUME NEW w \in Writers, NEW r \in Requests, Reject(w, r) PROVE Moved(w)
  BY <1>1, <1>2 DEF Reject, Rollback
<1>3. ASSUME NEW w \in Writers, NEW r \in Requests, Begin(w, r) PROVE Moved(w)
  BY <1>3 DEF Begin, MovesOn, TypeOK
<1>4. ASSUME NEW w \in Writers, NEW k \in Keys, SelectRow(w, k) PROVE Moved(w)
  BY <1>4 DEF SelectRow, MovesOn, Later, TypeOK
<1>5. ASSUME NEW w \in Writers, NEW k \in Keys, InsertRow(w, k) PROVE Moved(w)
  BY <1>5 DEF InsertRow, MovesOn, TypeOK
<1>6. ASSUME NEW w \in Writers, NEW k \in Keys, InsertConflict(w, k) PROVE Moved(w)
  BY <1>1, <1>6 DEF InsertConflict, Rollback
<1>7. ASSUME NEW w \in Writers, Plan(w) PROVE Moved(w)
  BY <1>7 DEF Plan, MovesOn, Later, TypeOK
<1>8. ASSUME NEW w \in Writers, PlanFails(w) PROVE Moved(w)
  BY <1>1, <1>8 DEF PlanFails, Rollback
<1>9. ASSUME NEW w \in Writers, ExecDeletes(w) PROVE Moved(w)
  <2>1. CASE RowsAffected(w) = PlannedDeletes(w)
    BY <1>9, <2>1 DEF ExecDeletes, MovesOn, Later, TypeOK
  <2>2. CASE RowsAffected(w) # PlannedDeletes(w)
    BY <1>1, <1>9, <2>2 DEF ExecDeletes, Rollback
  <2> QED BY <2>1, <2>2
<1>10. ASSUME NEW w \in Writers, ExecChangelog(w) PROVE Moved(w)
  BY <1>10 DEF ExecChangelog, MovesOn, Later, TypeOK
<1>11. ASSUME NEW w \in Writers, Commit(w) \/ DeadlockVictim(w) \/ Abort(w) PROVE Moved(w)
  BY <1>1, <1>11 DEF Commit, DeadlockVictim, Abort, Rollback
<1> HIDE DEF Moved
<1> QED
  BY <1>2, <1>3, <1>4, <1>5, <1>6, <1>7, <1>8, <1>9, <1>10, <1>11 DEF Next, Step

(* Every step keeps that.                                                  *)
LEMMA SelectsHaveKeysStep == TypeOK /\ SelectsHaveKeys /\ [Next]_vars => SelectsHaveKeys'
<1> SUFFICES ASSUME TypeOK, SelectsHaveKeys, [Next]_vars PROVE SelectsHaveKeys'
  OBVIOUS
<1>1. ASSUME NEW w \in Writers, NEW r, Finish(w, r) PROVE SelectsHaveKeys'
  BY <1>1 DEF Finish, SelectsHaveKeys, TypeOK
<1>2. ASSUME NEW w \in Writers, NEW r \in Requests, Begin(w, r) PROVE SelectsHaveKeys'
  BY <1>2 DEF Begin, ValidRequest, SelectsHaveKeys, TypeOK
<1>3. ASSUME NEW w \in Writers, NEW k \in Keys, SelectRow(w, k) PROVE SelectsHaveKeys'
  <2>1. /\ \A u \in Writers \ {w} : pc'[u] = pc[u] /\ todo'[u] = todo[u]
        /\ k \in todo[w] /\ todo'[w] = todo[w] \ {k} /\ (todo[w] = {k} => pc'[w] = "plan")
    BY <1>3 DEF SelectRow, TypeOK
  <2>2. todo'[w] # {} \/ pc'[w] # "select" BY <2>1
  <2> QED BY <2>1, <2>2 DEF SelectsHaveKeys
<1>4. ASSUME NEW w \in Writers, Plan(w) \/ ExecChangelog(w) PROVE SelectsHaveKeys'
  BY <1>4 DEF Plan, ExecChangelog, SelectsHaveKeys, TypeOK
<1>5. ASSUME NEW w \in Writers, ExecDeletes(w) PROVE SelectsHaveKeys'
  <2>1. CASE RowsAffected(w) = PlannedDeletes(w)
    BY <1>5, <2>1 DEF ExecDeletes, SelectsHaveKeys, TypeOK
  <2>2. CASE RowsAffected(w) # PlannedDeletes(w)
    BY <1>1, <1>5, <2>2 DEF ExecDeletes, Rollback
  <2> QED BY <2>1, <2>2
<1>6. ASSUME NEW w \in Writers, NEW k \in Keys, InsertRow(w, k) PROVE SelectsHaveKeys'
  BY <1>6 DEF InsertRow, SelectsHaveKeys, TypeOK
<1>7. ASSUME NEW w \in Writers,
             \/ \E r \in Requests : Reject(w, r)
             \/ \E k \in Keys : InsertConflict(w, k)
             \/ PlanFails(w) \/ Commit(w) \/ DeadlockVictim(w) \/ Abort(w)
      PROVE  SelectsHaveKeys'
  BY <1>1, <1>7 DEF Reject, InsertConflict, PlanFails, Commit, DeadlockVictim, Abort, Rollback
<1>8. CASE UNCHANGED vars
  BY <1>8 DEF vars, txnVars, SelectsHaveKeys
<1> QED
  BY <1>2, <1>3, <1>4, <1>5, <1>6, <1>7, <1>8 DEF Next, Step

(* A call that cannot go on waits for the running call that holds its row. *)
LEMMA BlockedWaits ==
    ASSUME IInv, SelectsHaveKeys, NEW w \in Writers, Running(w), ~GoesOn(w)
    PROVE  \E v \in Writers : Running(v) /\ WaitsFor(w, v)
<1> USE SqlWriteAssumption
<1>a. TypeOK BY DEF IInv
<1>1. ASSUME NEW k \in Keys, ~Free(w, k) PROVE lock[k] \in Writers \ {w} /\ Running(lock[k])
  <2>1. lock[k] \in Writers \ {w} BY <1>1, <1>a DEF Free, TypeOK
  <2> QED BY <2>1 DEF Running, IInv, Held, IdleHoldsNothing
<1>2. pc[w] \in {"select", "delete", "insert"}
  BY <1>a DEF Running, GoesOn, TypeOK, States, Active
<1>3. CASE pc[w] = "select"
  <2>1. PICK k \in todo[w] : ~Free(w, k) BY <1>3 DEF GoesOn, SelectsHaveKeys
  <2>2. k \in Keys BY <1>a, <2>1 DEF TypeOK
  <2>3. lock[k] \in Writers \ {w} /\ Running(lock[k]) BY <1>1, <2>1, <2>2
  <2> QED BY <1>3, <2>1, <2>3 DEF WaitsFor
<1>4. CASE pc[w] = "delete"
  <2>1. \A k \in RowsAffected(w) : k \in Keys /\ lock[k] = w
    BY <1>4, <1>a DEF IInv, FoundRowsAreStable, RowsAffected, PlannedDeletes, Active, TypeOK, Request
  <2> QED BY <1>4, <2>1 DEF GoesOn, Free
<1>5. CASE pc[w] = "insert"
  <2>1. PICK k \in todo[w] : ~Free(w, k) BY <1>5 DEF GoesOn
  <2>2. k \in Keys BY <1>a, <2>1 DEF TypeOK
  <2>3. lock[k] \in Writers \ {w} /\ Running(lock[k]) BY <1>1, <2>1, <2>2
  <2> QED BY <1>5, <2>1, <2>3 DEF WaitsFor
<1> QED BY <1>2, <1>3, <1>4, <1>5

(* If no running call goes on, they all wait for each other.               *)
LEMMA NobodyWaitsForNothing == IInv /\ SelectsHaveKeys => LocksAreAwaited
<1> SUFFICES ASSUME IInv, SelectsHaveKeys PROVE LocksAreAwaited
  OBVIOUS
<1>1. \A w \in Writers : Running(w) => GoesOn(w) \/ (\E v \in Writers : Running(v) /\ WaitsFor(w, v))
  BY BlockedWaits
<1>2. ASSUME NEW w \in Writers, Running(w), \A u \in Writers : ~(Running(u) /\ GoesOn(u))
      PROVE  IsVictim(w)
  <2> DEFINE S == {u \in Writers : Running(u)}
  <2>1. S \in SUBSET Writers /\ w \in S BY <1>2
  <2>2. \A u \in S : \E v \in S : WaitsFor(u, v) BY <1>1, <1>2
  <2> HIDE DEF S
  <2> QED BY <2>1, <2>2 DEF IsVictim, LockedUp
<1> QED BY <1>1, <1>2 DEF LocksAreAwaited

(* No call of Write ever waits for a row that nobody will release: whoever *)
(* cannot go on waits for a running call, and when none goes on the lock   *)
(* monitor has one to end. Every step brings one call closer to its end.   *)
THEOREM WritersAreNotStuck == Spec => []LocksAreAwaited /\ [][OneMovesOn]_vars
<1>1. Init => SelectsHaveKeys BY DEF Init, SelectsHaveKeys
<1>2. IInv => TypeOK BY DEF IInv
<1> QED BY <1>1, <1>2, Inductive, SelectsHaveKeysStep, NobodyWaitsForNothing, MovesOnStep, PTL DEF Spec

=============================================================================
