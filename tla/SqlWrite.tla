------------------------------ MODULE SqlWrite ------------------------------
(***************************************************************************)
(* Datastore.write of the SQL Server backend, as called by                 *)
(* WriteCommand.Execute: concurrent transactions at READ COMMITTED that    *)
(* lock the rows they find WITH (UPDLOCK, ROWLOCK), decide from what they  *)
(* found, run DELETE, INSERT and the changelog INSERT, and commit.         *)
(*                                                                         *)
(* The database is external.  Of it the model keeps one lock per row (held *)
(* until the transaction ends, whether taken by the SELECT or by an        *)
(* INSERT), no lock on a key that has no row, the primary key constraint   *)
(* on tuple, and a monitor that ends one transaction of a lock cycle.      *)
(***************************************************************************)
EXTENDS Integers, Sequences, FiniteSets

CONSTANTS
    Keys,               \* the (object, relation, user) triples of one store
    Conds,              \* the conditions a tuple can carry, "none" included
    Absent,             \* marks a key that has no tuple
    Writers,            \* concurrent calls of Write
    NoWriter,           \* the holder of a free row
    Requests,           \* the write requests clients send
    MaxTuplesPerWrite,  \* Datastore.MaxTuplesPerWrite()
    MaxClock            \* bound: the last tick of the clock, one per call that begins

Value == Conds \cup {Absent}

(* A request is at most one delete and one write per key (Absent: no       *)
(* write). Keys are numbers, which tell apart the ULIDs of one request.    *)
Request == [deletes : SUBSET Keys, writes : [Keys -> Value],
            onMissing : {"error", "ignore"}, onDuplicate : {"error", "ignore"}]

ASSUME SqlWriteAssumption ==
    /\ Keys \subseteq Nat /\ IsFiniteSet(Keys)
    /\ Absent \notin Conds
    /\ NoWriter \notin Writers
    /\ Requests \subseteq Request
    /\ MaxTuplesPerWrite \in Nat
    /\ MaxClock \in Nat

VARIABLES
    tuples,     \* committed rows of the tuple table, Absent where there is none
    changelog,  \* committed changelog rows of each key, in commit order
    lock,       \* the transaction that holds each row
    clock,      \* wall clock of the server and of the database
    pc,         \* where each call of Write is
    req,        \* its request
    now,        \* the time.Now() its ULIDs are built from
    logAt,      \* inserted_at of its changelog rows
    existing,   \* the rows its SELECT found
    todo,       \* keys the running statement has still to visit
    result      \* what the call returned

txnVars == <<lock, clock, pc, req, now, logAt, existing, todo, result>>
vars == <<tuples, changelog, txnVars>>

Row == [val : Value, ulid : Nat, insertedAt : Nat]

Active == {"select", "plan", "delete", "insert", "commit"}
States == {"idle"} \cup Active
Results == {"none", "ok", "rejected", "invalid_input", "condition_conflict",
            "conflict_on_delete", "conflict_on_insert", "deadlock", "sql_error"}

(* The announced values of each key: how the changelog implements the      *)
(* history of TupleStore.                                                  *)
ValuesOf(rows) == [i \in 1..Len(rows) |-> rows[i].val]
historyBar == [k \in Keys |-> ValuesOf(changelog[k])]
Store == INSTANCE TupleStore WITH history <- historyBar

EmptyRequest == [deletes |-> {}, writes |-> [k \in Keys |-> Absent],
                 onMissing |-> "error", onDuplicate |-> "error"]

WrittenKeys(r) == {k \in Keys : r.writes[k] # Absent}
LockKeys(r) == r.deletes \cup WrittenKeys(r)

(* Not empty, no key both deleted and written, not too many.               *)
ValidRequest(r) ==
    /\ LockKeys(r) # {}
    /\ r.deletes \cap WrittenKeys(r) = {}
    /\ Cardinality(LockKeys(r)) <= MaxTuplesPerWrite

(* Steps 4 and 5 of write: what the statements will do, given existing.    *)
PlannedDeletes(w) == {k \in req[w].deletes : existing[w][k] # Absent}
PlannedInserts(w) == {k \in WrittenKeys(req[w]) : existing[w][k] = Absent}
Planned(w) == PlannedDeletes(w) \cup PlannedInserts(w)

Free(w, k) == lock[k] \in {NoWriter, w}

Init ==
    /\ tuples = [k \in Keys |-> Absent]
    /\ changelog = [k \in Keys |-> <<>>]
    /\ lock = [k \in Keys |-> NoWriter]
    /\ clock = 0
    /\ pc = [w \in Writers |-> "idle"]
    /\ req = [w \in Writers |-> EmptyRequest]
    /\ now = [w \in Writers |-> 0]
    /\ logAt = [w \in Writers |-> 0]
    /\ existing = [w \in Writers |-> [k \in Keys |-> Absent]]
    /\ todo = [w \in Writers |-> {}]
    /\ result = [w \in Writers |-> "none"]

(* The call ends: the database releases its locks, the caller gets r and   *)
(* may call again, the local variables are gone.                           *)
Finish(w, r) ==
    /\ pc' = [pc EXCEPT ![w] = "idle"]
    /\ result' = [result EXCEPT ![w] = r]
    /\ lock' = [k \in Keys |-> IF lock[k] = w THEN NoWriter ELSE lock[k]]
    /\ req' = [req EXCEPT ![w] = EmptyRequest]
    /\ now' = [now EXCEPT ![w] = 0]
    /\ logAt' = [logAt EXCEPT ![w] = 0]
    /\ existing' = [existing EXCEPT ![w] = [k \in Keys |-> Absent]]
    /\ todo' = [todo EXCEPT ![w] = {}]
    /\ clock' = clock

(* Mutant: an early return that forgets the deferred Rollback.             *)
RollbackForgotten(w, r) ==
    /\ pc' = [pc EXCEPT ![w] = "idle"]
    /\ result' = [result EXCEPT ![w] = r]
    /\ UNCHANGED <<tuples, changelog, lock, clock, req, now, logAt, existing, todo>>

(* Nothing of the transaction survives (deferred txn.Rollback).            *)
Rollback(w, r) ==
    /\ Finish(w, r)
    /\ UNCHANGED <<tuples, changelog>>

(* WriteCommand.Execute refuses the request before it reaches a datastore  *)
(* (for what is wrong with it, or with a tuple under the model: the same   *)
(* answer, and nothing happened).                                          *)
Reject(w, r) ==
    /\ pc[w] = "idle"
    /\ ~ValidRequest(r)
    /\ Rollback(w, "rejected")

(* Write takes time.Now() and write begins the transaction. Two requests   *)
(* never share a tick: ULIDs of one millisecond are told apart by entropy. *)
Begin(w, r) ==
    /\ pc[w] = "idle"
    /\ ValidRequest(r)
    /\ clock < MaxClock
    /\ clock' = clock + 1
    /\ now' = [now EXCEPT ![w] = clock]
    /\ req' = [req EXCEPT ![w] = r]
    /\ todo' = [todo EXCEPT ![w] = LockKeys(r)]
    /\ result' = [result EXCEPT ![w] = "none"]
    /\ pc' = [pc EXCEPT ![w] = "select"]
    /\ UNCHANGED <<tuples, changelog, lock, logAt, existing>>

(* Mutant: the SELECT without its lock hint.                               *)
SelectRowUnlocked(w, k) ==
    /\ pc[w] = "select"
    /\ k \in todo[w]
    /\ existing' = [existing EXCEPT ![w][k] = tuples[k]]
    /\ todo' = [todo EXCEPT ![w] = @ \ {k}]
    /\ pc' = [pc EXCEPT ![w] = IF todo[w] = {k} THEN "plan" ELSE @]
    /\ UNCHANGED <<tuples, changelog, lock, clock, req, now, logAt, result>>

(* The SELECT is one statement whose conditions are joined by OR, without  *)
(* an ORDER BY: whatever makeTupleLockKeys sorted, the server visits the   *)
(* rows in an order of its own. It waits for a row another transaction     *)
(* holds (one it has inserted and not committed included), locks a row it  *)
(* finds, and locks nothing where there is no row.                         *)
SelectRow(w, k) ==
    /\ pc[w] = "select"
    /\ k \in todo[w]
    /\ Free(w, k)
    /\ existing' = [existing EXCEPT ![w][k] = tuples[k]]
    /\ lock' = [lock EXCEPT ![k] = IF tuples[k] # Absent THEN w ELSE @]
    /\ todo' = [todo EXCEPT ![w] = @ \ {k}]
    /\ pc' = [pc EXCEPT ![w] = IF todo[w] = {k} THEN "plan" ELSE @]
    /\ UNCHANGED <<tuples, changelog, clock, req, now, logAt, result>>

MissingDelete(w) ==
    /\ req[w].onMissing = "error"
    /\ PlannedDeletes(w) # req[w].deletes

ExistingWrites(w) == WrittenKeys(req[w]) \ PlannedInserts(w)

(* Mutant: on_duplicate=ignore skips a tuple whatever its condition.       *)
DuplicateErrorAnyCondition(w) ==
    IF req[w].onDuplicate = "error" /\ ExistingWrites(w) # {} THEN "invalid_input" ELSE "none"

(* The loop over writes stops at the first key that exists and may not be  *)
(* skipped; which key comes first is up to the request.                    *)
DuplicateError(w) ==
    IF req[w].onDuplicate = "error"
    THEN IF ExistingWrites(w) # {} THEN "invalid_input" ELSE "none"
    ELSE IF \E k \in ExistingWrites(w) : existing[w][k] # req[w].writes[k]
         THEN "condition_conflict" ELSE "none"

Plan(w) ==
    /\ pc[w] = "plan"
    /\ ~MissingDelete(w)
    /\ DuplicateError(w) = "none"
    /\ pc' = [pc EXCEPT ![w] = "delete"]
    /\ UNCHANGED <<tuples, changelog, lock, clock, req, now, logAt, existing,
                   todo, result>>

PlanFails(w) ==
    /\ pc[w] = "plan"
    /\ \/ MissingDelete(w) /\ Rollback(w, "invalid_input")
       \/ /\ ~MissingDelete(w)
          /\ DuplicateError(w) # "none"
          /\ Rollback(w, DuplicateError(w))

(* The DELETE touches the planned rows that are still there.               *)
RowsAffected(w) == {k \in PlannedDeletes(w) : tuples[k] # Absent}

(* Fewer rows than planned: ErrWriteConflictOnDelete.                      *)
ExecDeletes(w) ==
    /\ pc[w] = "delete"
    /\ \A k \in RowsAffected(w) : Free(w, k)
    /\ IF RowsAffected(w) = PlannedDeletes(w)
       THEN /\ lock' = [k \in Keys |-> IF k \in RowsAffected(w) THEN w ELSE lock[k]]
            /\ todo' = [todo EXCEPT ![w] = PlannedInserts(w)]
            /\ pc' = [pc EXCEPT ![w] = "insert"]
            /\ UNCHANGED <<tuples, changelog, clock, req, now, logAt, existing, result>>
       ELSE Rollback(w, "conflict_on_delete")

(* Mutant: an INSERT no primary key stops.                                 *)
InsertRowAnyway(w, k) ==
    /\ pc[w] = "insert"
    /\ k \in todo[w]
    /\ Free(w, k)
    /\ lock' = [lock EXCEPT ![k] = w]
    /\ todo' = [todo EXCEPT ![w] = @ \ {k}]
    /\ UNCHANGED <<tuples, changelog, clock, pc, req, now, logAt, existing, result>>

(* The INSERT adds its rows one by one, in the order of the request. It    *)
(* waits where another transaction has inserted the key and not committed. *)
InsertRow(w, k) ==
    /\ pc[w] = "insert"
    /\ k \in todo[w]
    /\ Free(w, k)
    /\ tuples[k] = Absent
    /\ lock' = [lock EXCEPT ![k] = w]
    /\ todo' = [todo EXCEPT ![w] = @ \ {k}]
    /\ UNCHANGED <<tuples, changelog, clock, pc, req, now, logAt, existing, result>>

(* Primary key violation: ErrCollision, returned as ErrWriteConflictOnInsert. *)
InsertConflict(w, k) ==
    /\ pc[w] = "insert"
    /\ k \in todo[w]
    /\ tuples[k] # Absent
    /\ Rollback(w, "conflict_on_insert")

(* The changelog rows get the time of their INSERT, not of the commit.     *)
ExecChangelog(w) ==
    /\ pc[w] = "insert"
    /\ todo[w] = {}
    /\ logAt' = [logAt EXCEPT ![w] = clock]
    /\ pc' = [pc EXCEPT ![w] = "commit"]
    /\ UNCHANGED <<tuples, changelog, lock, clock, req, now, existing, todo, result>>

(* What the transaction leaves at a key it changes, and announces there.   *)
Outcome(w, k) == IF k \in PlannedInserts(w) THEN req[w].writes[k] ELSE Absent

ChangelogRow(w, k) ==
    [val |-> Outcome(w, k), ulid |-> now[w], insertedAt |-> logAt[w]]

(* Mutant: changelog rows for skipped duplicates and missing deletes too.  *)
ApplyLogsSkipped(w) ==
    /\ tuples' = [k \in Keys |-> IF k \in Planned(w) THEN Outcome(w, k) ELSE tuples[k]]
    /\ changelog' = [k \in Keys |-> IF k \in LockKeys(req[w])
                                    THEN Append(changelog[k], ChangelogRow(w, k))
                                    ELSE changelog[k]]

Apply(w) ==
    /\ tuples' = [k \in Keys |-> IF k \in Planned(w) THEN Outcome(w, k) ELSE tuples[k]]
    /\ changelog' = [k \in Keys |-> IF k \in Planned(w)
                                    THEN Append(changelog[k], ChangelogRow(w, k))
                                    ELSE changelog[k]]

(* txn.Commit, whose answer may be lost: the caller then gets an error for *)
(* a write that took place.                                                *)
Commit(w) ==
    /\ pc[w] = "commit"
    /\ Apply(w)
    /\ \E r \in {"ok", "sql_error"} : Finish(w, r)

(* The context ends, the connection breaks, the process dies: the database *)
(* rolls the transaction back.                                             *)
Abort(w) ==
    /\ pc[w] \in Active
    /\ Rollback(w, "sql_error")

(* The rows a transaction waits for, and the lock monitor of the database. *)
WaitsFor(w, v) ==
    /\ v # w
    /\ pc[w] \in {"select", "insert"}
    /\ \E k \in todo[w] : lock[k] = v

DeadlockVictim(w) ==
    /\ \E S \in SUBSET Writers :
        w \in S /\ \A u \in S : \E v \in S : WaitsFor(u, v)
    /\ Rollback(w, "deadlock")

(* The steps of one call once it has begun.                                *)
Step(w) ==
    \/ \E k \in Keys : SelectRow(w, k) \/ InsertRow(w, k) \/ InsertConflict(w, k)
    \/ Plan(w) \/ PlanFails(w)
    \/ ExecDeletes(w) \/ ExecChangelog(w) \/ Commit(w)
    \/ DeadlockVictim(w)

Next ==
    \E w \in Writers :
        \/ \E r \in Requests : Reject(w, r) \/ Begin(w, r)
        \/ Step(w)
        \/ Abort(w)

Spec == Init /\ [][Next]_vars

(* A running call is scheduled, and the database ends lock cycles; clients *)
(* and failures are not obliged to act.                                    *)
FairSpec == Spec /\ \A w \in Writers : WF_vars(Step(w))

-----------------------------------------------------------------------------

TypeOK ==
    /\ tuples \in [Keys -> Value]
    /\ changelog \in [Keys -> Seq(Row)]
    /\ lock \in [Keys -> Writers \cup {NoWriter}]
    /\ clock \in 0..MaxClock
    /\ pc \in [Writers -> States]
    /\ req \in [Writers -> Request]
    /\ now \in [Writers -> Nat]
    /\ logAt \in [Writers -> Nat]
    /\ existing \in [Writers -> [Keys -> Value]]
    /\ todo \in [Writers -> SUBSET Keys]
    /\ result \in [Writers -> Results]

(* The rows a call found stay as it found them, and locked by it, until it *)
(* ends: what it decided in steps 4 and 5 still holds when it commits,     *)
(* however other transactions interleave with its statements.              *)
FoundRowsAreStable ==
    \A w \in Writers, k \in Keys :
        (pc[w] \in Active /\ existing[w][k] # Absent)
            => (lock[k] = w /\ tuples[k] = existing[w][k])

(* "If we deleted fewer rows than planned (after read before write), means *)
(* we hit a race condition": with the rows locked by the SELECT the race   *)
(* cannot happen, and write never returns ErrWriteConflictOnDelete.        *)
DeleteNeverConflicts ==
    \A w \in Writers : result[w] # "conflict_on_delete"

(* The changelog tells the truth about the table: the last committed row   *)
(* of a key announces what the tuple table holds, and writes and deletes   *)
(* of a key alternate, so no write is ever announced twice or lost.        *)
ChangelogMatchesTable ==
    \A k \in Keys :
        LET n == Len(changelog[k]) IN
        /\ tuples[k] = IF n = 0 THEN Absent ELSE changelog[k][n].val
        /\ \A i \in 1..n :
            (changelog[k][i].val = Absent) <=> (i > 1 /\ changelog[k][i - 1].val # Absent)

(* A call that returns without error leaves the store as it asked: what it *)
(* wrote is there with its condition, skipped duplicates included, and     *)
(* what it deleted is gone, unless it was asked to skip missing tuples and *)
(* did not find one.                                                       *)
CommitMeetsRequest ==
    [][\A w \in Writers : (pc[w] # "idle" /\ pc'[w] = "idle" /\ result'[w] = "ok") =>
        /\ \A k \in WrittenKeys(req[w]) : tuples'[k] = req[w].writes[k]
        /\ \A k \in req[w].deletes :
            (req[w].onMissing = "error" \/ existing[w][k] # Absent)
                => tuples'[k] = Absent]_vars

(* Concurrent, failing, deadlocking transactions look to readers like the  *)
(* one-step writes of TupleStore: all of a write or none of it.            *)
ImplementsStore == Store!StoreSpec

(* A call that began returns: whatever locks the calls take, and in what   *)
(* order, the lock monitor keeps them from waiting for each other forever. *)
CallsReturn == \A w \in Writers : (pc[w] = "select") ~> (pc[w] = "idle")
=============================================================================
