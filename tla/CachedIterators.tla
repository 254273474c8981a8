--------------------------- MODULE CachedIterators ---------------------------
(***************************************************************************)
(* The iterator cache of CachedDatastore under the cache controller: a     *)
(* request opens an iterator on a query, is given the cached tuples or     *)
(* reads the store, and when it stops the rest is read in the background   *)
(* and cached. A tuple is the write that made it.                          *)
(*                                                                         *)
(* The store runs the query at the first read. A lookup (the entry and the *)
(* marks it is judged by) is one step.                                     *)
(***************************************************************************)
EXTENDS CacheController

CONSTANTS
    Iterators,      \* concurrent cachedIterators
    Queries,        \* cache keys of queries
    EntitiesOf,     \* EntitiesOf[q]: the invalidEntityKeys of q
    Matches,        \* Matches[q]: the writes whose tuple q returns
    MaxResultSize,
    MaxOpens        \* bound: iterators opened in all

ASSUME IteratorAssumption ==
    /\ EntitiesOf \in [Queries -> SUBSET Entities]
    /\ Matches \in [Queries -> SUBSET Txs]
    /\ MaxResultSize \in Nat \ {0} /\ MaxOpens \in Nat
    /\ Queries # {}
    /\ \A q \in Queries : \A t \in Matches[q] : EntitiesOf[q] \cap Touches[t] # {}

VARIABLES
    cached,    \* TupleIteratorCacheEntry of each query; at 0: none
    flight,    \* CachedDatastore.sf: the iterators that drain
    stage,      \* of each iterator
    iter,      \* its fields
    opened,    \* iterators opened so far
    condemned  \* the entries, by query and time, that a mark has condemned

iteratorVars == <<cached, flight, stage, iter, opened, condemned>>
cacheVars == <<controllerVars, iteratorVars>>

Entry == [at : Nat, until : Nat, tuples : SUBSET Txs, seen : SUBSET Txs, since : Nat]
NoTuples == [at |-> 0, until |-> 0, tuples |-> {}, seen |-> {}, since |-> 0]

(* ran: the query has run, and seen are the writes it saw. keep: c.tuples  *)
(* is not nil.                                                             *)
Fields == [query : Queries, initializedAt : Nat, ran : BOOLEAN, seen : SUBSET Txs,
           tuples : SUBSET Txs, keep : BOOLEAN, todo : SUBSET Entities, hit : Nat]
Closed == [query |-> CHOOSE q \in Queries : TRUE, initializedAt |-> 0, ran |-> FALSE,
           seen |-> {}, tuples |-> {}, keep |-> FALSE, todo |-> {}, hit |-> 0]

Steps == {"closed", "cached", "open", "stopping", "buffered", "joining",
          "waiting", "draining", "flushing", "unmarking"}

IteratorInit ==
    /\ ControllerInit
    /\ cached = [q \in Queries |-> NoTuples]
    /\ stage = [i \in Iterators |-> "closed"]
    /\ iter = [i \in Iterators |-> Closed]
    /\ flight = {}
    /\ opened = 0
    /\ condemned = {}

-----------------------------------------------------------------------------

(* isInvalidAt: a mark of the store or of an entity is later than at.      *)
InvalidAt(q, at) ==
    \/ at < storeMark
    \/ \E e \in EntitiesOf[q] : Live(mark[e]) /\ at < mark[e].at

Found(q) == Live(cached[q]) /\ ~InvalidAt(q, cached[q].at)

(* findInCache removes an entry that is no longer valid.                   *)
Swept(q) == IF Live(cached[q]) /\ ~Found(q) THEN [cached EXCEPT ![q] = NoTuples] ELSE cached

Rows(q, seen) == Matches[q] \cap seen

Step(i, to) == stage' = [stage EXCEPT ![i] = to]
Close(S) ==
    /\ stage' = [i \in Iterators |-> IF i \in S THEN "closed" ELSE stage[i]]
    /\ iter' = [i \in Iterators |-> IF i \in S THEN Closed ELSE iter[i]]
Quiet == UNCHANGED <<now, txVars, changelogEntry, storeMark, mark, inflightVars, opened, condemned>>

(* newCachedIterator. With HIGHER_CONSISTENCY the store is read and this   *)
(* module is not entered.                                                  *)
Open(i, q) ==
    /\ now < StartTime + MaxNow
    /\ opened < MaxOpens
    /\ stage[i] = "closed"
    /\ opened' = opened + 1
    /\ cached' = Swept(q)
    /\ IF Found(q)
       THEN /\ Step(i, "cached")
            /\ iter' = [iter EXCEPT ![i].query = q, ![i].hit = cached[q].at]
            /\ UNCHANGED now
       ELSE \/ /\ Step(i, "open")
               /\ now' = now + 1
               /\ iter' = [iter EXCEPT ![i].query = q, ![i].initializedAt = now', ![i].keep = TRUE]
            \/ UNCHANGED <<stage, iter, now>>  \* the store returns an error
    /\ UNCHANGED <<txVars, changelogEntry, storeMark, mark, inflightVars, flight, condemned>>

(* What the query returned when it ran, or returns now.                    *)
Sees(i) == IF iter[i].ran THEN iter[i].seen ELSE committed
Left(i) == Rows(iter[i].query, Sees(i)) \ iter[i].tuples
Ran(i) == [iter[i] EXCEPT !.ran = TRUE, !.seen = Sees(i)]
NextTuple(i) == CHOOSE t \in Left(i) : TRUE

(* Mutant: a buffer that is full is kept as it is.                         *)
KeepFull(i) == iter[i].keep

(* A buffer that reaches maxResultSize is dropped.                         *)
Keep(i) == iter[i].keep /\ Cardinality(iter[i].tuples) + 1 < MaxResultSize

(* The next tuple is read and, if there is a buffer, put into it.          *)
ReadTuple(i) ==
    /\ Left(i) # {}
    /\ iter' = [iter EXCEPT ![i] =
                   [Ran(i) EXCEPT !.tuples = @ \cup {NextTuple(i)}, !.keep = Keep(i)]]

(* Next: a tuple; the end; or an error of the store, after which the       *)
(* tuples read are not kept. A cancelled context changes nothing.          *)
Next(i) ==
    /\ stage[i] = "open"
    /\ \/ ReadTuple(i)
       \/ Left(i) = {} /\ iter' = [iter EXCEPT ![i] = Ran(i)]
       \/ iter' = [iter EXCEPT ![i].keep = FALSE]
    /\ UNCHANGED <<stage, cached, flight>>
    /\ Quiet

(* Stop of an iterator that has nothing to cache, or is a cached one.      *)
StopEmpty(i) ==
    /\ stage[i] = "cached" \/ (stage[i] = "open" /\ ~iter[i].keep)
    /\ Close({i})
    /\ UNCHANGED <<cached, flight>>
    /\ Quiet

(* Stop starts a goroutine.                                                *)
Stop(i) ==
    /\ stage[i] = "open"
    /\ iter[i].keep
    /\ Step(i, "stopping")
    /\ UNCHANGED <<iter, cached, flight>>
    /\ Quiet

(* It ends if the query is in the cache by now, or was invalidated since   *)
(* this iterator was made.                                                 *)
Useless(i) == Found(iter[i].query) \/ InvalidAt(iter[i].query, iter[i].initializedAt)

Vet(i) ==
    /\ stage[i] = "stopping"
    /\ IF Useless(i) THEN Close({i}) ELSE Step(i, "buffered") /\ UNCHANGED iter
    /\ cached' = Swept(iter[i].query)
    /\ UNCHANGED flight
    /\ Quiet

(* Head: at the end the tuples are cached. If there are more, or there is  *)
(* an error, the iterator is to be drained.                                *)
Head(i) ==
    /\ stage[i] = "buffered"
    /\ \/ /\ iter' = [iter EXCEPT ![i] = Ran(i)]
          /\ Step(i, IF Left(i) = {} THEN "flushing" ELSE "joining")
       \/ Step(i, "joining") /\ UNCHANGED iter
    /\ UNCHANGED <<cached, flight>>
    /\ Quiet

(* singleflight.Do: one iterator of a query drains; the others wait for it *)
(* and are done when it is.                                                *)
Draining(q) == {i \in flight : iter[i].query = q}

Do(i) ==
    /\ stage[i] = "joining"
    /\ IF Draining(iter[i].query) = {}
       THEN flight' = flight \cup {i} /\ Step(i, "draining")
       ELSE Step(i, "waiting") /\ UNCHANGED flight
    /\ UNCHANGED <<iter, cached>>
    /\ Quiet

(* Mutant: the waiting calls of Do are not told.                           *)
DoneAlone(i) == flight' = flight \ {i} /\ Close({i})

(* The goroutine ends and, if it was draining, so do those that wait.      *)
Done(i) ==
    /\ flight' = flight \ {i}
    /\ Close({i} \cup {j \in Iterators : /\ i \in flight
                                         /\ stage[j] = "waiting"
                                         /\ iter[j].query = iter[i].query})

(* Drain: a tuple more; the end, and the tuples are cached if there is a   *)
(* buffer; a tuple without a buffer to put it in, or an error.             *)
Drain(i) ==
    /\ stage[i] = "draining"
    /\ \/ iter[i].keep /\ ReadTuple(i) /\ UNCHANGED <<stage, flight>>
       \/ /\ Left(i) = {}
          /\ iter[i].keep
          /\ iter' = [iter EXCEPT ![i] = Ran(i)]
          /\ Step(i, "flushing")
          /\ UNCHANGED flight
       \/ Done(i)
    /\ UNCHANGED cached
    /\ Quiet

(* flush: the entry is dated when it is stored, and the marks of its       *)
(* entities are removed one by one.                                        *)
Flush(i) ==
    /\ stage[i] = "flushing"
    /\ now' = now + 1
    /\ cached' = [cached EXCEPT ![iter[i].query] =
                     [at |-> now', until |-> now' + IteratorTTL, tuples |-> iter[i].tuples,
                      seen |-> iter[i].seen, since |-> iter[i].initializedAt]]
    /\ iter' = [iter EXCEPT ![i].todo = EntitiesOf[iter[i].query]]
    /\ Step(i, "unmarking")
    /\ UNCHANGED <<txVars, changelogEntry, storeMark, mark, inflightVars, flight, opened, condemned>>

Unmark(i, e) ==
    /\ stage[i] = "unmarking"
    /\ e \in iter[i].todo
    /\ mark' = [mark EXCEPT ![e] = NoEntry]
    /\ iter' = [iter EXCEPT ![i].todo = @ \ {e}]
    /\ UNCHANGED <<now, txVars, changelogEntry, storeMark, inflightVars,
                   cached, flight, stage, opened, condemned>>

Flushed(i) ==
    /\ stage[i] = "unmarking"
    /\ iter[i].todo = {}
    /\ Done(i)
    /\ UNCHANGED cached
    /\ Quiet

Goroutine(i) ==
    \/ Vet(i)
    \/ Head(i)
    \/ Do(i)
    \/ Drain(i)
    \/ Flush(i)
    \/ \E e \in Entities : Unmark(i, e)
    \/ Flushed(i)

Caller(i) ==
    \/ \E q \in Queries : Open(i, q)
    \/ Next(i)
    \/ StopEmpty(i)
    \/ Stop(i)

(* The controller's steps, and what its marks condemn.                     *)
IteratorControl ==
    /\ ControllerNext
    /\ UNCHANGED <<cached, flight, stage, iter, opened>>
    /\ condemned' = condemned \cup
           {<<q, cached[q].at>> : q \in {p \in Queries : cached[p].at # 0
                                                        /\ InvalidAt(p, cached[p].at)'}}

IteratorNext ==
    \/ IteratorControl
    \/ \E i \in Iterators : Caller(i) \/ Goroutine(i)

IteratorSpec == IteratorInit /\ [][IteratorNext]_cacheVars

(* The goroutines that Stop starts are scheduled, and so is the one of the *)
(* invalidation, whose ReadChanges is given up after a second.             *)
FairIteratorSpec ==
    /\ IteratorSpec
    /\ \A i \in Iterators : WF_cacheVars(Goroutine(i))
    /\ WF_cacheVars(Background /\ IteratorControl)

-----------------------------------------------------------------------------

IteratorTypeOK ==
    /\ cached \in [Queries -> Entry]
    /\ flight \subseteq Iterators
    /\ stage \in [Iterators -> Steps]
    /\ iter \in [Iterators -> Fields]
    /\ opened \in 0..MaxOpens
    /\ condemned \subseteq Queries \X Nat
    /\ \A i \in flight : stage[i] \in {"draining", "flushing", "unmarking"}
    /\ \A i \in Iterators : stage[i] = "closed" => iter[i] = Closed

(* Whatever way an iterator was left (early, at the end, by an error, at   *)
(* the size limit, drained while others waited), what is cached is all of  *)
(* what its query returned at one moment, no older than the iterator.      *)
CachedIsWhole ==
    \A q \in Queries : cached[q].at # 0 =>
        /\ cached[q].tuples = Rows(q, cached[q].seen)
        /\ \A t \in committed : committedAt[t] < cached[q].since => t \in cached[q].seen
        /\ Cardinality(cached[q].tuples) < MaxResultSize

(* "cache will be invalidated when either 1) there are tuples written to   *)
(* the store" (cmd/run/run.go): an entry that a mark has condemned is      *)
(* never served again, though flush removes the marks of other entries.    *)
CondemnedStayOut ==
    [][\A i \in Iterators :
        (stage[i] # "cached" /\ stage'[i] = "cached")
            => <<iter'[i].query, iter'[i].hit>> \notin condemned]_cacheVars

(* The goroutine of a stopped iterator ends, and releases the store's      *)
(* iterator, also when it waits for another one's drain.                   *)
StoppedIsReleased ==
    \A i \in Iterators : stage[i] = "stopping" ~> stage[i] = "closed"
=============================================================================
