--------------------------- MODULE SharedIterator ---------------------------
(***************************************************************************)
(* IteratorDatastore of sharediterator: requests that ask the same query   *)
(* share one underlying iterator. A storage item per query is created by   *)
(* the first request, opened once, cloned by every request that joins, and *)
(* given up by a timer. Clones fetch from the underlying iterator one at a *)
(* time and read a common buffer.                                          *)
(*                                                                         *)
(* Requests with HIGHER_CONSISTENCY never come here, and one that is       *)
(* bypassed reads the inner datastore: both touch nothing of this state.   *)
(***************************************************************************)
EXTENDS Integers, Sequences, FiniteSets

CONSTANTS
    Readers,     \* concurrent requests
    NoReader,
    Keys,        \* queries (cache keys)
    Method,      \* the method, and so the map, each query belongs to
    Items,       \* storage items that can be created (bound)
    NoItem,
    Limit,       \* Storage.limit
    Rows,        \* tuples the underlying iterator yields
    BufferSize   \* bufferSize

ASSUME SharedAssumption ==
    /\ IsFiniteSet(Readers) /\ NoReader \notin Readers
    /\ IsFiniteSet(Items) /\ NoItem \notin Items
    /\ Method \in [Keys -> {"rswu", "rut", "read"}]
    /\ Limit \in Nat /\ Rows \in Nat
    /\ BufferSize \in Nat \ {0}

VARIABLES
    slot,     \* the sync.Map: the item stored under each key
    ctr,      \* Storage.ctr
    leaked,   \* history: items removed without a decrement of ctr
    status,   \* of an item: not created, stored, opened, or failed to open
    base,     \* the item's own instance (storageItem.iter) is not stopped
    timer,    \* admission and idle timer of an item: one of them wins, once
    refs,     \* sharedIterator.refs
    closed,   \* the underlying iterator was stopped
    cursor,   \* rows taken from the underlying iterator
    buffer,   \* iteratorState.items
    err,      \* iteratorState.err
    fetcher,  \* await.active, and by whom
    pc,       \* where a request is
    key,      \* its query
    item,     \* the item it got from the map
    own,      \* it was the one to store it
    head,     \* sharedIterator.head of its clone
    got,      \* what fetchMore's Read returned: rows and error
    answer    \* what its last Next returned

mapVars == <<slot, ctr, leaked>>
itemVars == <<status, base, timer, refs, closed, cursor, buffer, err, fetcher>>
readerVars == <<pc, key, item, own, head, got, answer>>
vars == <<mapVars, itemVars, readerVars>>

Errors == {"none", "done", "failed"}
Stages == {"idle", "store", "count", "unwrap", "clone", "drop",
           "open", "next", "want", "waiting", "fetch", "keep", "release"}

(* A request holds a clone from clone() to Stop().                         *)
Holding == {"open", "next", "want", "waiting", "fetch", "keep", "release"}
Holders(i) == {r \in Readers : pc[r] \in Holding /\ item[r] = i}

Nothing == [rows |-> <<>>, err |-> "none"]

(* A clone as an iterator of the request's own: what it has been given is  *)
(* the buffer up to its head.                                              *)
heldBar == [r \in Readers |-> pc[r] \in Holding]
readBar == [r \in Readers |-> IF pc[r] \in Holding THEN SubSeq(buffer[item[r]], 1, head[r]) ELSE <<>>]
Private == INSTANCE PrivateIterators WITH held <- heldBar, read <- readBar, last <- answer

Init ==
    /\ slot = [k \in Keys |-> NoItem]
    /\ ctr = 0
    /\ leaked = 0
    /\ status = [i \in Items |-> "free"]
    /\ base = [i \in Items |-> FALSE]
    /\ timer = [i \in Items |-> "off"]
    /\ refs = [i \in Items |-> 0]
    /\ closed = [i \in Items |-> FALSE]
    /\ cursor = [i \in Items |-> 0]
    /\ buffer = [i \in Items |-> <<>>]
    /\ err = [i \in Items |-> "none"]
    /\ fetcher = [i \in Items |-> NoReader]
    /\ pc = [r \in Readers |-> "idle"]
    /\ key \in [Readers -> Keys]
    /\ item = [r \in Readers |-> NoItem]
    /\ own = [r \in Readers |-> FALSE]
    /\ head = [r \in Readers |-> 0]
    /\ got = [r \in Readers |-> Nothing]
    /\ answer = [r \in Readers |-> "none"]

Goto(r, stage) == pc' = [pc EXCEPT ![r] = stage]

(* The request is over: what it held in local variables is gone.           *)
Leave(r) ==
    /\ Goto(r, "idle")
    /\ item' = [item EXCEPT ![r] = NoItem]
    /\ own' = [own EXCEPT ![r] = FALSE]
    /\ head' = [head EXCEPT ![r] = 0]
    /\ answer' = [answer EXCEPT ![r] = "none"]
    /\ UNCHANGED <<key, got>>

-----------------------------------------------------------------------------
(* Opening: ReadStartingWithUser, ReadUsersetTuples and Read.              *)

(* The storage is not full. (When it is, the request is bypassed.)         *)
Admit(r, k) ==
    /\ pc[r] = "idle"
    /\ Limit # 0 /\ ctr < Limit
    /\ Goto(r, "store")
    /\ key' = [key EXCEPT ![r] = k]
    /\ UNCHANGED <<mapVars, itemVars, item, own, head, got, answer>>

(* The three methods differ in the query and in the map they use.          *)
ReadStartingWithUser(r, k) == Method[k] = "rswu" /\ Admit(r, k)
ReadUsersetTuples(r, k) == Method[k] = "rut" /\ Admit(r, k)
Read(r, k) == Method[k] = "read" /\ Admit(r, k)

(* LoadOrStore of a new item.                                              *)
LoadOrStore(r) ==
    /\ pc[r] = "store"
    /\ \/ /\ slot[key[r]] # NoItem
          /\ item' = [item EXCEPT ![r] = slot[key[r]]]
          /\ own' = [own EXCEPT ![r] = FALSE]
          /\ Goto(r, "unwrap")
          /\ UNCHANGED <<slot, status>>
       \/ /\ slot[key[r]] = NoItem
          /\ \E i \in Items :
              /\ status[i] = "free"
              /\ slot' = [slot EXCEPT ![key[r]] = i]
              /\ status' = [status EXCEPT ![i] = "stored"]
              /\ item' = [item EXCEPT ![r] = i]
          /\ own' = [own EXCEPT ![r] = TRUE]
          /\ Goto(r, "count")
    /\ UNCHANGED <<ctr, leaked, base, timer, refs, closed, cursor, buffer, err, fetcher,
                   key, head, got, answer>>

(* ctr.Add(1) of the request that stored the item.                         *)
Count(r) ==
    /\ pc[r] = "count"
    /\ ctr' = ctr + 1
    /\ Goto(r, "unwrap")
    /\ UNCHANGED <<slot, leaked, itemVars, key, item, own, head, got, answer>>

(* once.Do in unwrap: the first request to come opens the iterator and     *)
(* arms the timers, or keeps the producer's error for all of them.         *)
Produce(r) ==
    /\ pc[r] = "unwrap"
    /\ LET i == item[r] IN
       /\ status[i] = "stored"
       /\ \/ /\ status' = [status EXCEPT ![i] = "open"]
             /\ base' = [base EXCEPT ![i] = TRUE]
             /\ refs' = [refs EXCEPT ![i] = 1]
             /\ timer' = [timer EXCEPT ![i] = "armed"]
          \/ /\ status' = [status EXCEPT ![i] = "failed"]
             /\ UNCHANGED <<base, refs, timer>>
    /\ UNCHANGED <<mapVars, closed, cursor, buffer, err, fetcher, readerVars>>

Unwrapped(r) ==
    /\ pc[r] = "unwrap"
    /\ status[item[r]] \in {"open", "failed"}
    /\ Goto(r, IF status[item[r]] = "open" THEN "clone" ELSE "drop")
    /\ UNCHANGED <<mapVars, itemVars, key, item, own, head, got, answer>>

(* The error path: CompareAndDelete of the request's own new item, with no *)
(* decrement of ctr.                                                       *)
Drop(r) ==
    /\ pc[r] = "drop"
    /\ IF own[r] /\ slot[key[r]] = item[r]
       THEN /\ slot' = [slot EXCEPT ![key[r]] = NoItem]
            /\ leaked' = leaked + 1
       ELSE UNCHANGED <<slot, leaked>>
    /\ Leave(r)
    /\ UNCHANGED <<ctr, itemVars>>

(* Mutant: clone() does not count the new instance.                        *)
CloneUncounted(r) ==
    /\ pc[r] = "clone"
    /\ IF base[item[r]]
       THEN Goto(r, "open") /\ UNCHANGED <<key, item, own, head, got, answer>>
       ELSE Leave(r)
    /\ UNCHANGED <<mapVars, itemVars>>

(* clone(): nil when the item's instance has been stopped, and the request *)
(* is bypassed.                                                            *)
Clone(r) ==
    /\ pc[r] = "clone"
    /\ IF base[item[r]]
       THEN /\ refs' = [refs EXCEPT ![item[r]] = @ + 1]
            /\ Goto(r, "open")
            /\ UNCHANGED <<key, item, own, head, got, answer>>
       ELSE Leave(r) /\ UNCHANGED refs
    /\ UNCHANGED <<mapVars, status, base, timer, closed, cursor, buffer, err, fetcher>>

-----------------------------------------------------------------------------
(* Reading: Next and Head of a clone.                                      *)

CallNext(r) ==
    /\ pc[r] = "open"
    /\ Goto(r, "next")
    /\ UNCHANGED <<mapVars, itemVars, key, item, own, head, got, answer>>

(* fetchAndWait loads the state: there is something for this clone (Next   *)
(* advances, Head does not; an expired context leaves head alone too), or  *)
(* an error, or it has to fetch.                                           *)
Load(r) ==
    /\ pc[r] = "next"
    /\ LET i == item[r] IN
       \/ /\ head[r] < Len(buffer[i])
          /\ \E step \in {0, 1} : head' = [head EXCEPT ![r] = @ + step]
          /\ answer' = [answer EXCEPT ![r] = "none"]
          /\ Goto(r, "open")
       \/ /\ head[r] >= Len(buffer[i])
          /\ err[i] # "none"
          /\ answer' = [answer EXCEPT ![r] = err[i]]
          /\ Goto(r, "open")
          /\ UNCHANGED head
       \/ /\ head[r] >= Len(buffer[i])
          /\ err[i] = "none"
          /\ Goto(r, "want")
          /\ UNCHANGED <<head, answer>>
    /\ UNCHANGED <<mapVars, itemVars, key, item, own, got>>

(* Mutant: await.Do runs its function at once.                             *)
DoAtOnce(r) ==
    /\ pc[r] = "want"
    /\ fetcher' = [fetcher EXCEPT ![item[r]] = r]
    /\ Goto(r, "fetch")
    /\ UNCHANGED <<mapVars, status, base, timer, refs, closed, cursor, buffer, err,
                   key, item, own, head, got, answer>>

(* await.Do: run the fetch, or wait for the one that runs. Its WaitGroup   *)
(* is done before active is cleared: a caller between the two goes on.     *)
Do(r) ==
    /\ pc[r] = "want"
    /\ LET f == fetcher[item[r]] IN
       \/ /\ f = NoReader
          /\ fetcher' = [fetcher EXCEPT ![item[r]] = r]
          /\ Goto(r, "fetch")
       \/ /\ f # NoReader
          /\ Goto(r, IF pc[f] = "release" THEN "next" ELSE "waiting")
          /\ UNCHANGED fetcher
    /\ UNCHANGED <<mapVars, status, base, timer, refs, closed, cursor, buffer, err,
                   key, item, own, head, got, answer>>

(* Read of at most a buffer: all of it, or fewer rows and an error. An     *)
(* underlying iterator that has failed or ended does so again.             *)
Reads(i) ==
    LET left == Rows - cursor[i] IN
    IF err[i] # "none" THEN {[n |-> 0, err |-> err[i]]}
    ELSE {IF left >= BufferSize THEN [n |-> BufferSize, err |-> "none"]
                                ELSE [n |-> left, err |-> "done"]}
         \cup {[n |-> n, err |-> "failed"] :
                 n \in {m \in 0..(BufferSize - 1) : m <= left}}

FetchRead(r) ==
    /\ pc[r] = "fetch"
    /\ LET i == item[r] IN
       \E e \in Reads(i) :
           /\ cursor' = [cursor EXCEPT ![i] = @ + e.n]
           /\ got' = [got EXCEPT ![r] = [rows |-> [j \in 1..e.n |-> cursor[i] + j],
                                         err |-> e.err]]
    /\ Goto(r, "keep")
    /\ UNCHANGED <<mapVars, status, base, timer, refs, closed, buffer, err, fetcher,
                   key, item, own, head, answer>>

(* Mutant: the fetch ends without wg.Done().                               *)
FetchKeepSilent(r) ==
    /\ pc[r] = "keep"
    /\ LET i == item[r] IN
       /\ buffer' = [buffer EXCEPT ![i] = @ \o got[r].rows]
       /\ err' = [err EXCEPT ![i] = IF got[r].err # "none" THEN got[r].err ELSE @]
    /\ Goto(r, "release")
    /\ got' = [got EXCEPT ![r] = Nothing]
    /\ UNCHANGED <<mapVars, status, base, timer, refs, closed, cursor, fetcher,
                   key, item, own, head, answer>>

(* The new state is stored and the waiting requests are released.          *)
FetchKeep(r) ==
    /\ pc[r] = "keep"
    /\ LET i == item[r] IN
       /\ buffer' = [buffer EXCEPT ![i] = @ \o got[r].rows]
       /\ err' = [err EXCEPT ![i] = IF got[r].err # "none" THEN got[r].err ELSE @]
       /\ pc' = [q \in Readers |->
                    IF q = r THEN "release"
                    ELSE IF pc[q] = "waiting" /\ item[q] = i THEN "next" ELSE pc[q]]
    /\ got' = [got EXCEPT ![r] = Nothing]
    /\ UNCHANGED <<mapVars, status, base, timer, refs, closed, cursor, fetcher,
                   key, item, own, head, answer>>

FetchRelease(r) ==
    /\ pc[r] = "release"
    /\ fetcher' = [fetcher EXCEPT ![item[r]] = NoReader]
    /\ Goto(r, "next")
    /\ UNCHANGED <<mapVars, status, base, timer, refs, closed, cursor, buffer, err,
                   key, item, own, head, got, answer>>

-----------------------------------------------------------------------------
(* Stopping.                                                               *)

(* Mutant: the one before the last stops the underlying iterator.          *)
UnrefEarly(i) ==
    /\ refs' = [refs EXCEPT ![i] = @ - 1]
    /\ closed' = [closed EXCEPT ![i] = @ \/ refs[i] <= 2]

(* refs.Add(-1), and the underlying iterator is stopped by the last.       *)
Unref(i) ==
    /\ refs' = [refs EXCEPT ![i] = @ - 1]
    /\ closed' = [closed EXCEPT ![i] = @ \/ refs[i] = 1]

Stop(r) ==
    /\ pc[r] = "open"
    /\ Unref(item[r])
    /\ Leave(r)
    /\ UNCHANGED <<mapVars, status, base, timer, cursor, buffer, err, fetcher>>

(* Mutant: the timers take the item out of the map and do not stop it.     *)
ExpireUnstopped(i) ==
    /\ timer[i] = "armed"
    /\ timer' = [timer EXCEPT ![i] = "cleanup"]
    /\ UNCHANGED <<mapVars, status, base, refs, closed, cursor, buffer, err, fetcher,
                   readerVars>>

(* The admission timer fires, or the idle timer does and stops the other:  *)
(* the item's instance is stopped.                                         *)
Expire(i) ==
    /\ timer[i] = "armed"
    /\ timer' = [timer EXCEPT ![i] = "cleanup"]
    /\ base' = [base EXCEPT ![i] = FALSE]
    /\ Unref(i)
    /\ UNCHANGED <<mapVars, status, cursor, buffer, err, fetcher, readerVars>>

(* The cleanup function: CompareAndDelete, and if it removed the item,     *)
(* ctr.Add(-1).                                                            *)
Cleanup(i) ==
    /\ timer[i] = "cleanup"
    /\ timer' = [timer EXCEPT ![i] = "off"]
    /\ IF \E k \in Keys : slot[k] = i
       THEN /\ slot' = [k \in Keys |-> IF slot[k] = i THEN NoItem ELSE slot[k]]
            /\ ctr' = ctr - 1
       ELSE UNCHANGED <<slot, ctr>>
    /\ UNCHANGED <<leaked, status, base, refs, closed, cursor, buffer, err, fetcher, readerVars>>

-----------------------------------------------------------------------------

(* The steps a request takes by itself, and the ones its caller decides.   *)
Opening(r) == Count(r) \/ LoadOrStore(r) \/ Produce(r) \/ Unwrapped(r) \/ Drop(r) \/ Clone(r)
Reading(r) == Load(r) \/ Do(r) \/ FetchRead(r) \/ FetchKeep(r) \/ FetchRelease(r)

Next ==
    \/ \E r \in Readers :
        \/ \E k \in Keys :
            ReadStartingWithUser(r, k) \/ ReadUsersetTuples(r, k) \/ Read(r, k)
        \/ Opening(r) \/ Reading(r)
        \/ CallNext(r) \/ Stop(r)
    \/ \E i \in Items : Expire(i) \/ Cleanup(i)

Spec == Init /\ [][Next]_vars

(* Requests run, callers stop their iterators (strongly: between calls of  *)
(* Next they have the choice), and the timers fire.                        *)
FairSpec ==
    /\ Spec
    /\ \A r \in Readers : WF_vars(Opening(r)) /\ WF_vars(Reading(r)) /\ SF_vars(Stop(r))
    /\ \A i \in Items : WF_vars(Expire(i) \/ Cleanup(i))

-----------------------------------------------------------------------------

TypeOK ==
    /\ slot \in [Keys -> Items \cup {NoItem}]
    /\ ctr \in Int /\ leaked \in Nat
    /\ status \in [Items -> {"free", "stored", "open", "failed"}]
    /\ base \in [Items -> BOOLEAN]
    /\ timer \in [Items -> {"off", "armed", "cleanup"}]
    /\ refs \in [Items -> Int]
    /\ closed \in [Items -> BOOLEAN]
    /\ cursor \in [Items -> 0..Rows]
    /\ buffer \in [Items -> Seq(1..Rows)]
    /\ err \in [Items -> Errors]
    /\ fetcher \in [Items -> Readers \cup {NoReader}]
    /\ pc \in [Readers -> Stages]
    /\ key \in [Readers -> Keys]
    /\ item \in [Readers -> Items \cup {NoItem}]
    /\ own \in [Readers -> BOOLEAN]
    /\ head \in [Readers -> 0..Rows]
    /\ got \in [Readers -> [rows : Seq(1..Rows), err : Errors]]
    /\ answer \in [Readers -> Errors]

(* The reference count is exact through clones, stops and timers, and the  *)
(* underlying iterator is stopped when, and only when, the item's own      *)
(* instance and every clone are.                                           *)
RefsCountHolders ==
    \A i \in Items :
        /\ refs[i] = Cardinality(Holders(i)) + (IF base[i] THEN 1 ELSE 0)
        /\ closed[i] <=> (status[i] = "open" /\ Holders(i) = {} /\ ~base[i])

(* No clone is served by an iterator that was stopped under it: whoever is *)
(* in Next, and whoever fetches for others, keeps the iterator open.       *)
NoReadAfterStop ==
    \A r \in Readers : pc[r] \in Holding => ~closed[item[r]]

(* However fetches, waits and late arrivals interleave, the shared buffer  *)
(* is the rows of the underlying iterator, in order, none lost or          *)
(* repeated; a clone is told it is done only after the last row.           *)
SharedRowsInOrder ==
    /\ \A i \in Items : \A j \in 1..Len(buffer[i]) : buffer[i][j] = j
    /\ \A r \in Readers : pc[r] \in Holding =>
        /\ head[r] <= Len(buffer[item[r]])
        /\ answer[r] = "done" => head[r] = Rows

(* To each request its clone is an iterator of its own: the rows in order, *)
(* the end only after the last, an end or an error that stays, whatever    *)
(* the clones it shares the buffer with do and whenever the timers fire.   *)
ImplementsPrivate == Private!PrivateSpec

(* Where the counter that admits requests is: the stored items, less the   *)
(* increments under way, and one more for every item that the error path   *)
(* has removed, for good (Drop).                                           *)
CounterAccounts ==
    ctr + Cardinality({r \in Readers : pc[r] = "count"})
        = Cardinality({k \in Keys : slot[k] # NoItem}) + leaked

(* A call of Next returns: no wake-up is lost between a fetch that ends    *)
(* and a request that begins to wait.                                      *)
NextReturns == \A r \in Readers : (pc[r] = "next") ~> (pc[r] = "open")

(* An opened iterator is stopped in the end: no cursor of the datastore    *)
(* stays open once its readers and the timers are through.                 *)
IteratorsAreStopped == \A i \in Items : (status[i] = "open") ~> closed[i]

(* "[ctr] is incremented when a new iterator is created and decremented    *)
(* when an iterator is removed" (Storage.ctr): with no request and no      *)
(* timer under way the counter is the number of stored items.              *)
CounterTracksItems ==
    ((\A r \in Readers : pc[r] = "idle") /\ (\A i \in Items : timer[i] # "cleanup"))
        => ctr = Cardinality({k \in Keys : slot[k] # NoItem})

=============================================================================
