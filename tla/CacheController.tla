--------------------------- MODULE CacheController ---------------------------
(***************************************************************************)
(* InMemoryCacheController of one store: it learns of writes from the      *)
(* changelog and condemns what the caches hold. Requests start it; one     *)
(* goroutine at a time does the work.                                      *)
(*                                                                         *)
(* Time is a counter. Each call of time.Now whose value is kept draws the  *)
(* next number, so that two kept times are never equal; Tick lets time     *)
(* pass. The database and the server share the clock. The cache is never   *)
(* full: entries leave it when they expire, and for no other reason.       *)
(***************************************************************************)
EXTENDS Integers, FiniteSets

CONSTANTS
    Txs,            \* calls of Write, of one tuple each
    Earlier,        \* those committed long before the server started, at time 1
    Entities,       \* the entity keys of iterators: object#relation, user|type
    Touches,        \* Touches[t]: the entity keys of t's tuple
    ControllerTTL,  \* InMemoryCacheController.ttl
    IteratorTTL,    \* InMemoryCacheController.iteratorCacheTTL
    DefaultPageSize,
    MaxNow          \* bound: requests, writes and ticks stop this long after the start

ASSUME ControllerAssumption ==
    /\ Earlier \subseteq Txs
    /\ \A t, u \in Earlier : t = u
    /\ Touches \in [Txs -> SUBSET Entities]
    /\ ControllerTTL \in Nat
    /\ IteratorTTL \in Nat
    /\ DefaultPageSize \in Nat \ {0}
    /\ MaxNow \in Nat

VARIABLES
    now,
    ulid, insertedAt,  \* the ULID and the timestamp of a changelog row; 0: none yet
    committedAt,       \* when its commit made it visible; 0: not yet
    changelogEntry,    \* ChangelogCacheEntry: LastModified (0: no entry), and its expiry
    storeMark,         \* the store's InvalidEntityCacheEntry, kept for a year; 0: none
    mark,              \* the entities' InvalidEntityCacheEntry; at 0: none
    pc,                \* the invalidation in flight
    lastInvalidation, changes, lastChangelog, lastModified, todo  \* its locals

txVars == <<ulid, insertedAt, committedAt>>
inflightVars == <<pc, lastInvalidation, changes, lastChangelog, lastModified, todo>>
controllerVars == <<now, txVars, changelogEntry, storeMark, mark, inflightVars>>

CacheEntry == [at : Nat, until : Nat]
NoEntry == [at |-> 0, until |-> 0]

(* The calls of Write whose changes can be read.                           *)
committed == {t \in Txs : committedAt[t] # 0}

(* Cache.Get finds an entry until it expires.                              *)
Live(entry) == entry.at # 0 /\ entry.until > now

(* A change made before the server started is older than any iterator.     *)
StartTime == IF Earlier = {} THEN 0 ELSE 1 + IteratorTTL
AtStart == [t \in Txs |-> IF t \in Earlier THEN 1 ELSE 0]

ControllerInit ==
    /\ now = StartTime
    /\ ulid = AtStart
    /\ insertedAt = AtStart
    /\ committedAt = AtStart
    /\ changelogEntry = NoEntry
    /\ storeMark = 0
    /\ mark = [e \in Entities |-> NoEntry]
    /\ pc = "idle"
    /\ lastInvalidation = 0
    /\ changes = {}
    /\ lastChangelog = 0
    /\ lastModified = 0
    /\ todo = {}

-----------------------------------------------------------------------------
(* Writes: the ULID is drawn when Write starts, the timestamp when its     *)
(* changelog row is inserted, and both become visible at the commit.       *)

StartWrite(t) ==
    /\ now < StartTime + MaxNow
    /\ ulid[t] = 0
    /\ now' = now + 1
    /\ ulid' = [ulid EXCEPT ![t] = now']
    /\ UNCHANGED <<insertedAt, committedAt, changelogEntry, storeMark, mark, inflightVars>>

InsertChange(t) ==
    /\ now < StartTime + MaxNow
    /\ ulid[t] # 0
    /\ insertedAt[t] = 0
    /\ now' = now + 1
    /\ insertedAt' = [insertedAt EXCEPT ![t] = now']
    /\ UNCHANGED <<ulid, committedAt, changelogEntry, storeMark, mark, inflightVars>>

CommitWrite(t) ==
    /\ insertedAt[t] # 0
    /\ committedAt[t] = 0
    /\ committedAt' = [committedAt EXCEPT ![t] = now]
    /\ UNCHANGED <<now, ulid, insertedAt, changelogEntry, storeMark, mark, inflightVars>>

Tick ==
    /\ now < StartTime + MaxNow
    /\ now' = now + 1
    /\ UNCHANGED <<txVars, changelogEntry, storeMark, mark, inflightVars>>

(* The changelog entry lives for ttl and up to a minute more (jitter).     *)
ChangelogEntryExpires ==
    /\ changelogEntry.at # 0
    /\ changelogEntry.until <= now
    /\ changelogEntry' = NoEntry
    /\ UNCHANGED <<now, txVars, storeMark, mark, inflightVars>>

-----------------------------------------------------------------------------

(* DetermineInvalidationTime: the last write's time while it is less than  *)
(* ttl old, zero otherwise.                                                *)
KnowsLastWrite == changelogEntry.at # 0 /\ changelogEntry.at + ControllerTTL > now
InvalidationTime == IF KnowsLastWrite THEN changelogEntry.at ELSE 0

(* InvalidateIfNeeded: a new invalidation, unless one is in flight. The    *)
(* goroutine starts by reading the changelog entry.                        *)
InvalidateIfNeeded ==
    /\ pc' = IF pc = "idle" THEN "asked" ELSE pc
    /\ lastInvalidation' = IF pc = "idle" THEN changelogEntry.at ELSE lastInvalidation
    /\ UNCHANGED <<changes, lastChangelog, lastModified, todo>>

DetermineInvalidationTime ==
    IF KnowsLastWrite THEN UNCHANGED inflightVars ELSE InvalidateIfNeeded

(* The newest changes by ULID, at most a page of them.                     *)
Newer(t) == {u \in committed : ulid[u] > ulid[t]}
findChangesDescending == {t \in committed : Cardinality(Newer(t)) < DefaultPageSize}

(* ReadChanges takes more than a second.                                   *)
FindTimesOut ==
    /\ pc = "asked"
    /\ pc' = "done"
    /\ UNCHANGED <<now, txVars, changelogEntry, storeMark, mark,
                   lastInvalidation, changes, lastChangelog, lastModified, todo>>

(* ReadChanges fails, or finds no change at all.                           *)
FindFails ==
    /\ pc = "asked"
    /\ pc' = "done"
    /\ now' = now + 1
    /\ storeMark' = now'
    /\ UNCHANGED <<txVars, changelogEntry, mark, lastInvalidation, changes, lastChangelog, lastModified, todo>>

FindChanges ==
    /\ pc = "asked"
    /\ pc' = "found"
    /\ changes' = findChangesDescending
    /\ \E t \in committed : Newer(t) = {} /\ lastChangelog' = insertedAt[t]
    /\ UNCHANGED <<now, txVars, changelogEntry, storeMark, mark,
                   lastInvalidation, lastModified, todo>>

(* Mutant: the search for the first recent change stops one too late.      *)
RecentButOldest(cut) ==
    {t \in changes : \E u \in changes : insertedAt[u] > cut /\ ulid[u] < ulid[t]}

(* The changes from the oldest one, by ULID, whose time is after cut.      *)
Recent(cut) == {t \in changes : \E u \in changes : insertedAt[u] > cut /\ ulid[u] <= ulid[t]}

(* The last write is the one the last invalidation ended with.             *)
NothingNew ==
    /\ pc = "found"
    /\ lastChangelog <= lastInvalidation
    /\ pc' = "marking"
    /\ UNCHANGED <<now, txVars, changelogEntry, storeMark, mark,
                   lastInvalidation, changes, lastChangelog, lastModified, todo>>

(* All of the page is recent: condemn the iterators of the whole store.    *)
InvalidateFull ==
    /\ pc = "found"
    /\ lastChangelog > lastInvalidation
    /\ now' = now + 1
    /\ Recent(now' - IteratorTTL) = changes
    /\ storeMark' = now'
    /\ pc' = "marking"
    /\ UNCHANGED <<txVars, changelogEntry, mark, lastInvalidation, changes, lastChangelog, lastModified, todo>>

(* Some of it is: condemn the iterators of the entities those touch.       *)
InvalidatePartial ==
    /\ pc = "found"
    /\ lastChangelog > lastInvalidation
    /\ now' = now + 1
    /\ Recent(now' - IteratorTTL) # changes
    /\ lastModified' = now'
    /\ todo' = UNION {Touches[t] : t \in Recent(now' - IteratorTTL)}
    /\ pc' = "marking"
    /\ UNCHANGED <<txVars, changelogEntry, storeMark, mark, lastInvalidation, changes, lastChangelog>>

(* invalidateIteratorCacheBy...: one entity's mark, in no special order.   *)
MarkEntity(e) ==
    /\ pc = "marking"
    /\ e \in todo
    /\ mark' = [mark EXCEPT ![e] = [at |-> lastModified, until |-> now + IteratorTTL]]
    /\ todo' = todo \ {e}
    /\ UNCHANGED <<now, txVars, changelogEntry, storeMark,
                   pc, lastInvalidation, changes, lastChangelog, lastModified>>

(* The deferred Set of the changelog entry.                                *)
Publish ==
    /\ pc = "marking"
    /\ todo = {}
    /\ changelogEntry' = [at |-> lastChangelog, until |-> now + ControllerTTL]
    /\ pc' = "done"
    /\ UNCHANGED <<now, txVars, storeMark, mark, lastInvalidation, changes, lastChangelog, lastModified, todo>>

(* Mutant: the store stays in inflightInvalidations.                       *)
ReleaseForgotten == FALSE /\ UNCHANGED controllerVars

(* inflightInvalidations.Delete; the goroutine and its locals are gone.    *)
Release ==
    /\ pc = "done"
    /\ pc' = "idle"
    /\ lastInvalidation' = 0
    /\ changes' = {}
    /\ lastChangelog' = 0
    /\ lastModified' = 0
    /\ todo' = {}
    /\ UNCHANGED <<now, txVars, changelogEntry, storeMark, mark>>

(* Some Check asks for the invalidation time, or some ListObjects starts   *)
(* an invalidation without asking.                                         *)
Ask ==
    /\ now < StartTime + MaxNow
    /\ DetermineInvalidationTime \/ InvalidateIfNeeded
    /\ UNCHANGED <<now, txVars, changelogEntry, storeMark, mark>>

Background ==
    \/ FindTimesOut
    \/ FindFails
    \/ FindChanges
    \/ NothingNew
    \/ InvalidateFull
    \/ InvalidatePartial
    \/ \E e \in Entities : MarkEntity(e)
    \/ Publish
    \/ Release

Environment ==
    \/ \E t \in Txs : StartWrite(t) \/ InsertChange(t) \/ CommitWrite(t)
    \/ Tick
    \/ ChangelogEntryExpires

ControllerNext == Background \/ Environment \/ Ask

ControllerSpec == ControllerInit /\ [][ControllerNext]_controllerVars

-----------------------------------------------------------------------------

ControllerTypeOK ==
    /\ now \in Nat
    /\ ulid \in [Txs -> Nat]
    /\ insertedAt \in [Txs -> Nat]
    /\ committedAt \in [Txs -> Nat]
    /\ changelogEntry \in CacheEntry
    /\ storeMark \in Nat
    /\ mark \in [Entities -> CacheEntry]
    /\ pc \in {"idle", "asked", "found", "marking", "done"}
    /\ lastInvalidation \in Nat
    /\ changes \subseteq Txs
    /\ lastChangelog \in Nat
    /\ lastModified \in Nat
    /\ todo \subseteq Entities

(* A mark younger than t's commit condemns every iterator that was read    *)
(* before it.                                                              *)
Marked(t) ==
    \/ storeMark > committedAt[t]
    \/ \A e \in Touches[t] : mark[e].at > committedAt[t]

(* The invalidation is about to publish the time of the last write.        *)
Ends == pc = "marking" /\ todo = {}

(* The changes of the page that were logged within the iterators' TTL.     *)
RecentOfPage == {t \in changes : insertedAt[t] > now - IteratorTTL}

(* "no new changes, no need to perform invalidations", where the newest    *)
(* change by ULID is no later than the last one published: an invalidation *)
(* that is about to publish, whatever it judged its page to be, leaves a   *)
(* mark for every recent change of the page.                               *)
RecentChangesAreMarked == Ends => \A t \in RecentOfPage : Marked(t)

(* What findChangesAndInvalidateIfNecessary does achieve: a page whose     *)
(* newest change by ULID is later than the last one published is marked,   *)
(* in full or in part, down to the oldest change logged within the         *)
(* iterators' TTL, though ULIDs, timestamps and commits are in different   *)
(* orders.                                                                 *)
ChangesAreMarked ==
    (Ends /\ lastChangelog > lastInvalidation) => \A t \in RecentOfPage : Marked(t)

(* An invalidation in flight ends, so that the next one can begin,         *)
(* whatever becomes of ReadChanges.                                        *)
InvalidationEnds == pc # "idle" ~> pc = "idle"
=============================================================================
