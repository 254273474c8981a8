# TLA+ specifications of the portal and its authorization server

The repository is a menu portal in three parts: a React front end
(`frontend/`), a C# Azure Functions back end (`backend/MenuApi/`) and a fork of
OpenFGA (`openfga-fork/`), the authorization server the back end asks for
permissions, to which the fork adds a SQL Server storage backend. This directory
holds TLA+ models of the parts whose correctness depends on interleaving,
failure and order, the TLC configurations that check them on small instances,
and proofs, checked by TLAPS, that the central ones are right for every size.

## 1. Inventory

| Part | State | Operations | What is hard |
|---|---|---|---|
| SQL Server tuple store (`openfga-fork/pkg/storage/sqlserver`) | tables `tuple`, `changelog`, `authorization_model`, `store`, `assertion` | `Write`, `ReadChanges`, reads, `WriteAuthorizationModel`, `CreateStore`, `DeleteStore`, assertions | concurrent transactions at READ COMMITTED, deadlocks, lost commit answers, ULIDs drawn before the commit |
| Write and ReadChanges commands (`pkg/server/commands`) | none of their own; continuation tokens | validate a request, call the store, map its errors | duplicates inside a request, token at page borders |
| Other stores (`memory`, `sqlcommon`, `postgres`, `mysql`, `sqlite`) | as above | as above | the same transaction shape with other lock hints; `memory` under one mutex |
| Shared iterators (`pkg/storage/storagewrappers/sharediterator`) | map of iterators by query, admission counter, reference counts, buffered items | open or join, `Next`, `Head`, `Stop`, idle and admission timers | reference counts, timers racing closes, producer errors, one fetch at a time |
| Check and iterator caches (`internal/graph/cached_resolver.go`, `storagewrappers/cached_*`, `internal/cachecontroller`) | cached answers, cached tuple lists, invalidation marks, changelog entry | look up, fill, invalidate | answers computed before a write and stored after it, late changelog rows |
| Check resolution (`internal/graph`) | goroutines and channels of one request | union, intersection, exclusion, recursion, depth and cycle guards | short circuits, cancellation, errors racing answers |
| BatchCheck, ListObjects, ListUsers, Expand, reverse expansion (`pkg/server/commands`) | per-request result sets, counters, channels | fan out, deduplicate, stop at a limit or a deadline | several algorithms for one question; limits and errors under concurrency |
| Stores, models, assertions (`pkg/server`, `sqlserver`, `typesystem/resolver.go`, `model_caching.go`) | their tables; caches of models and type systems; lookups in flight | create, delete, list, read, write; resolve a model | listings between changes, shared lookups that fail, old and new row formats |
| Throttling, bounded reads, planner (`internal/throttler`, `storagewrappers/bounded*`, `internal/planner`) | tokens, counters, statistics | wait for a token, release | waiting for each other, lost releases |
| Type system and model validation (`pkg/typesystem`, `internal/validation`) | compiled model | validate, resolve | recursion and cycles in models |
| Server life cycle (`cmd/run`, `pkg/server`) | listeners, caches, goroutines | start, serve, shut down | order of closing, requests in flight |
| Menu service (`backend/MenuApi/Services`, `Functions`) | menu tables; permissions are tuples in OpenFGA, written by `AddUserPermission` | menu and permission changes, the menu a user may see | an item and its configuration saved one after the other, groups that vanish between a look and a save |
| Sign-in and SQL token (`ClaimsPrincipalParser`, `SqlTokenContext`, `SqlTokenInterceptor`) | token of the current request | set, use, fall back | tokens crossing requests |
| Front end contexts (`frontend/src/contexts`, `auth`, `services`) | menu, admin mode, dev login | load, retry, update | answers out of order, stale state after an await |
| Container start (`backend/MenuApi/start.sh`, `scripts/`) | processes and their readiness | migrate, start, wait, restart | start order, retries, one process dying |

The back end calls OpenFGA over HTTP; OpenFGA reads and writes tuples through
the wrappers (caches, shared iterators, bounded reads) around one of the stores;
the cache controller watches the changelog that `Write` fills.

What makes each part correct, in a sentence, and the hazard that threatens it at
its line, is in `PROJECT.json` under `hazards`; the parts left out are under
`components` with the reason.

## 2. Plan

The order is by what the portal loses if the part is wrong: the store of
permissions first, then what stands between the store and an answer, then the
answer itself, then the portal around it.

1. **Store** (done): `TupleStore` (what a writer is promised), `SqlWrite` (the
   SQL Server transactions, shown to implement it), `ChangesReader` (composed
   with `SqlWrite`).
2. **Sharing and caching of reads** (done): `PrivateIterators` (what a request is
   promised of its iterator), `SharedIterator`, shown to implement it,
   `CacheController`, two modules composed with it, `CheckCache` and
   `CachedIterators`, and `ReadKeys`, which shows for the code's own keys what
   those two assume.
3. **Answers** (done): the reducers of Check as goroutines (`CheckReducers`); the
   algorithms of Check, ListObjects, ListUsers, Expand and BatchCheck
   (`BatchChecks`) on top of `TupleReads`, `TypeSystem` and `ModelGraph`, against
   one definition of what a model means (`AuthzQueries`); the goroutines of
   ListObjects (`ListObjectsPipeline`).
4. **Stores and models** (done): `StoreCatalog`.
5. **Portal** (done): `ContainerStart`, `MenuService`, `MenuPage`, composed.
6. **Proofs** (done): every safety property that a passing run checks is a theorem,
   but for five of `AuthzQueries`, which recurse over data; of six of the eleven
   liveness properties the safety half is a theorem too (section 6).
7. **Not begun**: the throttlers, fan-in as processes, the order of closing at
   shutdown, the other stores.

## 3. Modules and the code they model

Every definition that stands for code is in the `map` of `PROJECT.json` with its
file and lines. Definitions called "Mutant" are plausible errors in the
definition after them; they are used to show that the properties would notice.

### SqlWrite, TupleStore

`SqlWrite` is `Datastore.Write`/`write` of `pkg/storage/sqlserver` together with
the command that calls it.

| Code | Model |
|---|---|
| tables `tuple`, `changelog` | `tuples`, `changelog`: committed rows |
| rows locked by `UPDLOCK, ROWLOCK` or by an INSERT | `lock` |
| locals of a call: `now`, `existing`, planned deletes and inserts | `now`, `existing`, `PlannedDeletes`, `PlannedInserts` |
| `validateWriteRequest` | `ValidRequest`, `Reject` |
| `BeginTx`; the one SELECT of all keys, row by row; the loops over deletes and writes | `Begin`; `SelectRow`; `Plan`, `PlanFails` |
| DELETE; INSERT; changelog INSERT; `Commit`; deferred `Rollback` | `ExecDeletes`; `InsertRow`, `InsertConflict`; `ExecChangelog`; `Commit`; `Rollback` |
| a broken connection, an ended context, error 1205 | `Abort`, `DeadlockVictim` |

The database is external: a lock per existing row held to the end of the
transaction, none for a key without a row, the primary key, and a monitor that
ends a cycle of waiting transactions. The SELECT has OR-ed conditions and no
ORDER BY (write.go:92-108), so the server locks its rows one by one in any order
(`SelectRow`); the sort of `makeTupleLockKeys` fixes the text of the statement and
not the order of the locks, and two SELECTs may well deadlock.

`TupleStore` has one variable pair (table and history) and one action that
changes any set of keys at once, announcing each change. `SqlWrite` implements
it under `historyBar`, the values announced by the changelog.

### ChangesReader

A client of `ReadChanges` beside `SqlWrite`'s transactions. `token` is the
continuation token (a ULID), `Visible` the WHERE clause, `Page` the ORDER BY and
the page size. A ULID is a time and a place in its request. `Sorting` has the
ORDER BY of the database, for this module and for `StoreCatalog`: any sequence of
the rows in which none comes before one that the order puts in front of it.

Two details of the source are outside the model. `ReadChanges` compares
`inserted_at`, written with `SYSDATETIME()`, to `GETUTCDATE()`: on a database
server that is not on UTC the horizon is off by the time zone. And with
`on_missing=ignore` a delete that finds no row takes no lock, so two requests
that each delete what the other writes can both succeed (write skew); the
contract of `TupleStore` allows it.

### SharedIterator, PrivateIterators

`slot` is the `sync.Map`, `ctr` the admission counter, an item a `storageItem`
with its `sharedIterator`: `refs`, `closed`, the buffered rows, the await. A
request goes through `Admit`, `LoadOrStore`, `Count`, `Produce`/`Unwrapped`
(`once.Do`), `Clone` or `Drop`, then `CallNext`, `Load`, `Do` and the three steps
of a fetch, then `Stop`. `Expire` and `Cleanup` are the timers. `leaked` is a
history variable: items removed by the error path, which does not decrement the
counter. `CounterAccounts` therefore says what the counter is (`leaked` included),
and not that it is the number of items, as the comment at lines 79-80 of
`shared_iterator_datastore.go` has it. `CompareAndDelete` in the
clean-up always finds its item, since a key's item is replaced only after
removal; `Cleanup` keeps the condition.

`PrivateIterators` is what `storage.Iterator` promises to whoever opens one, with
an iterator for each request: the rows one by one from the first, the end after
the last, an end or an error that stays. `SharedIterator` implements it under
`heldBar` and `readBar`: a request has an iterator while it holds a clone, and has
been given the rows of the shared buffer up to the clone's `head`.

### CacheController, CheckCache, CachedIterators

`CacheController` is `InMemoryCacheController` for one store, with the writes it
learns of. `pc` is the invalidation in flight (`inflightInvalidations`): asked,
then `FindTimesOut`, `FindFails` or `FindChanges`, then `NothingNew`,
`InvalidateFull` or `InvalidatePartial`, the marks one by one, `Publish` (the
deferred Set) and `Release`. A write has three times: its ULID, the timestamp of
its changelog row, its commit. The two modules that extend it add the readers:

* `CheckCache`: Check requests, `Execute` (which asks the controller), `Lookup`,
  `Resolve`, `Store`, `Return`. `published` records what the controller published
  last; each request keeps what was published and committed when it began. An
  answer is the set of writes it has seen.
* `CachedIterators`: `Open` (`newCachedIterator`), `Next`, `Stop` and its
  goroutine: `Vet`, `Head`, `Do` (singleflight), `Drain`, `Flush`, `Unmark`.
  `condemned` records the entries a mark has condemned.

Abstractions: the database and the server share a clock; two kept times are
never equal; the caches are never full; looking up an entry together with the
marks it is judged by is one step; marks are set in any order; the query of an
iterator runs at its first read (rows are fetched lazily) and a Check reads
everything at one moment; the server does not shut down; a partial mark lives as
long as an iterator of Check.

### CheckReducers

One call of `union`, `intersection` or `exclusion` of `internal/graph/check.go`.
`finds` is what each handler finds out if it is left alone: allowed, denied, a
cycle (not allowed, with `CycleDetected`) or an error. `worker` is the goroutine of
each handler (`Start` is `pool.Go`, `RunHandler`, `TrySendThroughChannel`), `out` and
`closed` the channel, `main` the reducer with its locals. `ended` is the caller's
context; the handlers' context is done when it is or when the reducer has
returned (`defer cancel()`). Where a `select` has several ready cases every one is
taken. The receive from a closed channel counts as a round in union and
intersection (`missed`), and is not taken again in exclusion, as in the code.
Handlers of a union or intersection are started in any order, which is the same
as every assignment of outcomes to a fixed order. The early returns for a wrong
number of operands are left out.

### TupleReads, TypeSystem, ModelGraph

`TupleReads` has objects, users and type restrictions, and the reads that the SQL
store answers. `TypeSystem`, on top of it, is `pkg/typesystem` and
`internal/validation`: a model is a record of rewrites and type restrictions,
`NewAndValidate` accepts or rejects it, `ValidateTupleForRead` and
`ValidateTupleForWrite` judge a tuple. `hasEntrypoints` keeps the detail that its
map of visited relations is cloned on the outside only. `ModelGraph` has the two
graphs of a model. They are built by a library (`openfga/language`) that is not in
the repository, so nodes, edges and weights are modelled from how `pkg/typesystem`
uses them and are marked external; what is asked of them (`PathExists`, the choice
of a resolver) is the repository's.

### CheckGraph, ReverseExpand, ListUsers, ReadKeys, BatchChecks, AuthzQueries

`CheckGraph` is `LocalChecker`: the default resolver, the recursive one
(`breadthFirstRecursiveMatch`) and the weight-two one (merges of sorted streams),
over the reads of the store merged with contextual tuples. Branches run
concurrently and the planner picks any resolver that applies, so an operator
returns the set of outcomes a call may have. `ReverseExpand` is ListObjects
without and with the weighted graph, `ListUsers` is ListUsers and Expand, whose
handlers store into maps in any order. `ReadKeys` has the keys of the iterator
cache and the marks of a change. `BatchChecks` is BatchCheck for any Check: the
keys, the check that is executed for each key, and the handler. The last two,
`TupleReads` and what they state have no recursion, so that they can be proved
about; the run gives `BatchChecks` the Check of `CheckGraph` and the requests of
`AuthzQueries`.

`AuthzQueries` is the state machine: the store's model is replaced and its tuples
are written and deleted (each validated against the latest model, so tuples of
earlier models remain), and in every state every query is asked. What the
engine makes of a model once (weighted graph, paths, resolvers that apply) is the
variable `typesys`, replaced with the model. The reference
is `Meaning`, the well-founded meaning of the rewrites: what certainly holds and
what may.

Abstractions: a condition is met, unmet or misses a parameter, as the request's
context decides; of the key of a batched check, how a context is spelled as text
(`cache.go` 241-313: the string "1" and the number 1 are spelled alike, lists are
joined by commas) and the xxhash64 of the text (batch_check_command.go:279-285)
are the constants `Spelled` and `Hash`, of which nothing is assumed: the property
names the checks that share a spelling or a hash and makes no claim to tell them
apart (`MixedUp`), and the run spells all contexts alike; wording of errors; throttling and
dispatch counts; a recursion deeper than `MaxDepth` is an error, as in the code,
at a smaller depth.

### ListObjectsPipeline

One call of `Execute` or `ExecuteStreamed`. `expansion` is the goroutine of reverse
expansion, `candidates` its channel, `consumer` the handler's loop with `CountDirect`
and `PutDirect`, `StartCheck`, `Wait`, `SendError`, `CloseResults`; `check` the tasks
of the pool, `results` the channel to the caller, which takes, returns, or hangs up.
`cancelled`, `stopped` and `expired` are the three ways the work's context ends: the
limit, a failed task, the deadline. What an object is (found directly, or its Check
allows, denies, or fails with an error of its condition or any other) is chosen at
the start.

### StoreCatalog

Requests about stores, models and assertions of one server, statement by
statement: `stores`, `rows` and `assertions` are the tables, `read` the model
cache of `model_caching.go`, `typesys` the cache of the resolver, `flight` the
singleflight group (both caches hold the models as they were read and validated,
and a hit returns what is kept; a request that names its model looks in the cache
before the lookup, one for the latest model only when its identifier is known);
`req` is a request with where it is, `list` a client that pages. A ULID is a
number drawn when the request starts and inserted later. `Construct` is
`constructAuthorizationModelFromSQLRows`, with models of the old format of one row
per type. Failed statements and evictions are free, within `MaxFaults`. Name and
identifier filters of ListStores only narrow the rows and are left out; requests
that validation or access control refuses have not begun.

### ContainerStart, MenuService, MenuPage

Three modules of one system, each extending the last.

* `ContainerStart`: `start.sh` step by step, the OpenFGA process beside it, and what
  OpenFGA keeps in the database. An error status passes for an answer, since curl
  is called without `-f`; a refused connection ends the script. An image without
  model.json skips the stores and serves. Left out: a server that accepts a
  connection and never answers, on which the script would wait for ever, since
  curl is called without `--max-time` (start.sh:275, 301, 318), and an
  `OPENFGA_STORE_ID` from the environment.
* `MenuService`: the tables with their foreign keys and cascades, and the Functions
  that edit them: each loads, looks and saves in steps of its own, and one
  `SaveChangesAsync` is atomic. Grants and revocations change OpenFGA's tuples:
  `<<user, item>>` (viewer), `<<role, item>>` (viewer_role) and `<<user, role>>`
  (assignee); by `MayView` a user sees an item as a viewer or as an assignee of a
  viewer_role (openfga-config/model.json:35-46, SETUP-FIRST-ADMIN.md:91-118).
* `MenuPage`: `GetMenuStructure` on the server (rows, role and one Check per name;
  each Check reads the viewers, the roles and their assignees at moments of their
  own), `MenuContext.tsx` with its refs, sign-in and sign-out,
  and the cache of the browser. `seen` is a history variable: the rows that were
  visible and the tuples that were there at some time, and all the time, during the
  request.

The composition matters: a menu that is answered while the container dies, while
an edit is half done, and while permissions change, is one behaviour of it.

Abstractions: names, icons and order of items; retries of the HTTP client;
development sign-in; `Interrupt` ends the requests of a container that stops.
One container runs at a time.

## 4. Runs

All runs are in `PROJECT.json`. `CHECK_DEADLOCK FALSE` where a model stops at its
bounds or at the end of a call and clients need not act; in `queries` a step is
always possible and deadlock is checked. The bounds are named in the modules
(`MaxClock`, `Items`, `MaxNow`, `MaxOpens`, `MaxTuples`, `MaxDepth`, `MaxRequests`,
`MaxFaults`, `MaxRows`, `MaxEvents`).

| Run | Shows | Bounds, and why they are enough |
|---|---|---|
| `sql_store` | found rows are stable, the changelog tells the table, ok means done, refinement of `TupleStore`, every call returns; a reader of the changelog gets nothing twice, no page skips a change that is visible ahead of its token, and everything ahead arrives | two callers and two keys give every wait and every deadlock; three requests allow a write, its delete, and one racing either; pages of one row, so each border is met |
| `shared_iterator` | refinement of `PrivateIterators` (rows in order, ends that stay), no read after stop, exact reference counts | three readers: one fetches, one waits, one comes late; two items: one can expire and be replaced |
| `shared_live` | Next returns, iterators are stopped | two readers; two queries, so that all the opening methods take part |
| `late_change` | **expected violation** of `RecentChangesAreMarked`: a change that commits behind a published one is not marked (section 5) | two writes in every order of ULID, timestamp and commit; time for an invalidation before, between and after them |
| `check_cache` | published times are honoured, after the controller has forgotten them too | two requests on one key: one fills what the other reads |
| `cached_iterators` | cached results are whole, stopped iterators are released, invalidations end | two iterators: one drains, one waits; a limit of two tuples is both met and not |
| `check_reducers` | answers are right, calls and goroutines end | three handlers on two goroutines: one has to wait for a free one; every outcome of each |
| `queries` | Check, BatchCheck, ListObjects, ListUsers and Expand answer what the model means; cached reads are marked; accepted models can be entered | five models (recursive usersets with an exclusion, weight two with wildcards and conditions, recursive folders under an intersection, mutually recursive teams, and viewers by name or as members of a group with bans, where ListUsers is sent both that a user is one and that the user is not); the second may follow the first and the fourth the third; up to five tuples at a time reach a cycle of two, a chain of three folders, and a conditional ban; drafts are all models of two relations with one operator |
| `list_objects` | no send on a closed channel, the limit, whole lists but for two named cases, the call returns, the handler ends | three objects, a pool of one: a Check waits for the pool, another for a place in the channel; limits 1, 2 and none, and the streamed call |
| `stores` | listings are exact, resolved models whole and recent, requests end | two requests at a time and a paging client with pages of one; three of them and one fault in a behaviour: one leads, one joins, one writes |
| `portal` | menus are between what was allowed, tables and acknowledged items whole, the own menu, the page settles, the start ends | two users, one an admin, the other a viewer by a role and perhaps by name; two requests at a time; two events among deaths, errors, edits, grants and revocations (408 thousand states), so that a grant and a revocation may fall between the reads of one Check |
| `store_created_twice` | **expected violation** of `StoreIsCreatedOnce`: a listing of stores that fails passes for an empty one (section 5) | as `portal` |

The runs check what a mutant of the code can break in an interesting way. The
type invariants, `DeleteNeverConflicts`, `SharedRowsInOrder`,
`HigherConsistencyIsFresh` and `FlightsHaveLeaders` hold on the same instances; no run
lists them and each is a theorem (section 6). So are `CounterAccounts`,
`ChangesAreMarked` and `StoresAreReused`, which say what the code does ensure where
it does less than its comments say (section 5).

Symmetry is used only in runs without liveness properties, on sets whose members
the specification does not tell apart.

`CheckIsExact` and `ListObjectsIsExact` leave out requests that meet the first
disagreement of section 5 (`Twins`); a denial that is due to a cycle is claimed
to be exact only without exclusions, and ListUsers likewise.

### Fairness

`FairSpec` of `SqlWrite`: a call that has begun is scheduled, and the database
ends cycles of locks; clients and failures are free. `ReaderSpec`: the client
keeps asking, time passes; `FairReaderSpec` has both. `FairSpec` of
`SharedIterator`: goroutines run, timers fire, and a caller that has a clone stops
it in the end (strong fairness: it may call Next instead any number of times; the
code's callers defer Stop). `FairIteratorSpec`: goroutines started in the
background, the drains and the invalidation, run; `ReadChanges` is given up after
a second by a context. `FairSpec` of `CheckReducers`: goroutines run and handlers
return; the caller need not give up. `FairSpec` of `ListObjectsPipeline`:
goroutines run and statements return; the deadline need not pass. `CatalogSpec`:
each request is a goroutine that is scheduled; nobody has to ask. `Spec` of
`MenuPage`: the script goes on and OpenFGA, once started, comes up or dies; a
request for the menu goes on and the browser gets its answer. Nobody has to sign
in, edit or die.

## 5. Known disagreements and limits

Met while modelling; where a definition is named it states what the text or a
reader expects, and does not hold of the code. Two of them are shown by runs that
expect the violation (`late_change`, `store_created_twice`), and are findings of
`PROJECT.json`; the properties above are stated so that they do not claim more.
Paths below `openfga-fork/` unless they start with `backend` or `frontend`.

Answers:

* Merged reads lose a row. `NewOrderedCombinedIterator` promises that a value
  several iterators yield is returned once (tuple_iterators.go:423-425); `head`
  takes one more row off an iterator after it skipped the ones of the object
  yielded last (497), so an object can be missing (`MergedReadsKeepObjects`). It
  needs two rows of one object for one user (a wildcard and a name, say).
* The same merge compares identifiers as bytes with rows the database sorts by
  its collation; where the orders differ (`DbOrder`) it fails or skips rows. The
  runs have one order.
* ListObjects with the weighted graph shares `visitedUsersetsMap` between clones
  of a request (reverse_expand.go:262-269): a branch of an intersection can find
  a userset visited by another operand and send nothing. The models of `queries`
  have no two operands that meet in a userset.
* ListUsers lists a user that Check denies for nested exclusions with a wildcard
  (list_users_rpc.go:797-803): the models of `queries` nest no exclusions with
  wildcards on both sides. Of two opposite messages about one user it keeps the
  last (243), so its answer depends on which of two branches ends first; the model
  "overlap" of `queries` reaches this, and `ListUsersIsExact` says nothing of such a
  user (`Disputed`). Users excluded from a wildcard are dropped from the response,
  so it does not say either that whoever is not named has not the relation.
* BatchCheck answers checks with one key once, and cache.go:379 calls what is in the
  key "unique-per-check". Contexts that differ and are spelled alike have one key,
  as have texts with one hash; such checks may get each other's answers
  (`MixedUp` of `BatchIsExact`).
* `hasEntrypoints` rejects some models that can be entered, `relationInvolves`
  stops at the first operator of the other kind, and `validateCondition` compares
  a tuple with a condition by type and condition only. The model keeps all three.
* After its caller has given up, an intersection can answer allowed: a closed
  channel passes for a round without a denial (check.go:253,
  `AllowedMeansAllowed`). The goroutine that consumes dispatches looks at the
  context again, the reducers do not.
* ListObjects: the streamed handler waits for ever to send its error when the
  client has hung up (list_objects.go:448 against 254-256); an error of the
  expansion is lost when a Check that it cancelled returns first (371-388,
  446-448): the call then returns a short list without an error, the second case
  that `ListIsWhole` names; an object that is counted and then dropped because of
  the cancellation makes a short list without an error (404 and 465-469,
  `EnoughIsReturned`), the first; without a limit errors of conditions are dropped
  (529).
* A request for the latest model that joins a lookup may miss a model that was
  acknowledged before it began, and fails when the first caller is cancelled
  (resolver.go:67).

Store and caches:

* ReadChanges orders by a ULID drawn when a Write starts (sqlserver.go:241), so a
  delete can be delivered before its write, which storage.go:377-378 excludes
  (`DeliveredAsOccurred`); a horizon does not help.
* The horizon hides rows by `inserted_at` and the token moves by ULID: with a
  horizon, a row that was inserted late is hidden while one with a younger ULID is
  delivered, and the token passes it for ever (sqlserver.go:766 with 767). Without
  a horizon, the default, no page does that (`PagesAreGapless`).
* `inserted_at` is written with `SYSDATETIME()` and compared to `GETUTCDATE()`.
* With `on_missing=ignore` a delete that finds no row takes no lock: two requests
  that each delete what the other writes can both succeed.
* A deadlock victim (error 1205) gets a plain SQL error (sqlserver.go:861).
* The counter of shared iterators is not decremented when the producer fails
  (shared_iterator_datastore.go:318, 399, 479 against the comment at 79-80,
  `CounterTracksItems`), and the look at its limit and the increment are two
  steps (271). `CounterAccounts` is what remains true.
* `flush` deletes marks set since the entry was vetted (cached_datastore.go:640,
  `CondemnedStayOut`), and an invalidation during the drain (515) is not seen.
* A change that commits behind one already published is judged "no new changes"
  (cache_controller.go:262), and iterators cached before it stay valid
  (`RecentChangesAreMarked`, run `late_change`). `ChangesAreMarked` is what
  remains true: the changes of a page that is judged new are marked. An answer is
  dated when it is stored (cached_resolver.go:210); nothing bounds
  `check-query-cache-ttl` by `cache-controller-ttl` (the defaults, ten seconds
  each, config.go:37-40, meet the bound, which the run and the theorem have as a
  hypothesis); a full cache evicts marks like any entry, and ListObjects may keep
  iterators for longer than marks live (list_objects.go:493).

Portal:

* A listing of stores that fails passes for an empty one and a second store is
  created, without permissions (backend/MenuApi/start.sh:318-322 against 317,
  `StoreIsCreatedOnce`, run `store_created_twice`). `StoresAreReused` is what remains
  true: a second store needs such an error, and a container that met none serves
  with the first. Two containers that
  start at once do the same. Nothing notices OpenFGA dying after `exec` (420); the
  status of the migration is that of `tee` (209).
* The browser keeps a menu for five minutes (GetMenuStructure.cs:57-62): a reload
  after an edit, and the next user of the browser, get the old one.
  `hasLoadedRef` is never reset; the sign-out's navigation is what saves it.
* A Check reads the viewers of an item, its roles and their assignees one after the
  other. An item that is shown by one tuple first and by another later, and so at
  every moment, can be denied; `MenuIsBetween` claims an item only where the same
  tuples show it all the time.
* CreateMenuItem saves the item and then its Power BI configuration; when the second
  save fails, the call answers 500 and the item stays without a configuration.
  `TablesAreWhole` claims wholeness of acknowledged items only.
* `MenuItem.tsx:44` says "Toggle will be handled by API"; the API sets the item
  visible and removes its Power BI configuration. Two updates of an item at once
  blend column by column. `GetMenuStructure` ignores the admin role of the token,
  which the other Functions honour; `AddUserPermission` has its admin check
  commented out as temporary.

## 6. Proofs

TLAPS proves the following for every value of the constants that satisfies the
ASSUMEs. TLC finds the invariants below true on the instances of the runs. The
last column has the part without which the property is not inductive, and why.

| Module | Theorem | States | Rests on |
|---|---|---|---|
| `SqlWriteProofs` | `TypeCorrect`, `RowsAreStable`, `NoDeleteConflict` | types, `FoundRowsAreStable`, `DeleteNeverConflicts` | `IInv` with `Held`: which rows a call holds at each stage; rows to be inserted and already visited are locked and absent. Without it a commit could not be shown to change only rows the call holds |
| | `ChangelogIsTrue`, `CommitsMeetRequests`, `RefinesStore` | `ChangelogMatchesTable`, `CommitMeetsRequest`, `ImplementsStore` | `IInv` |
| | `ChangesAreDeliveredOnce` | `DeliveredOnce` | `Times`: calls that run and the rows of a key have times of their own, all past, so that no two rows have one ULID; and `Keeps`: rows are only added, so that what was delivered stays what it was |
| | `PagesAreGapless` | `PagesSkipNothing`, if `Horizon = 0` | `Times`: without a horizon every committed row ahead of the token is visible, and a page is a prefix of the sorted rows |
| | `WritersAreNotStuck` | `LocksAreAwaited`, and `OneMovesOn` of every step | `SelectsHaveKeys`: a SELECT under way has keys left. Then a call that cannot go on waits for a row that a running call holds, and if none goes on the running calls are a set the lock monitor may choose from |
| `SharedIteratorProofs` | `RefsAreExact`, `ReadersAreSafe` | `RefsCountHolders`, `NoReadAfterStop` | `RInv` with `Opened`: an item with an instance, a clone or a timer was opened |
| | `CounterIsAccountedFor` | `CounterAccounts` | `StoredOnce`: an item is stored under one key and was new then, so that an insertion changes the number of stored items by one |
| | `RowsComeInOrder` | `SharedRowsInOrder` | `RowInv`: one request fetches at a time (`OneFetches`), between its Read and its store it has in hand exactly the rows that follow the buffer (`Taken`), and otherwise the buffer has all that were taken (`AllKept`) |
| | `SharingIsNotSeen` | `ImplementsPrivate` | `RowInv`, and `Settled`: what a clone was told last stays so. A fetch that stores rows changes the buffer of every clone of its item, and none of what they were given (`BufferWithin`) |
| | `WaitersAreWoken` | `NoWakeUpIsLost` | `Awaited`: who waits has a fetch of its item under way, which wakes all when it stores |
| | `SharedTypes` | types | `RowInv`, `InHand` |
| `CacheProofs` | `ControllerTypes`, `InvalidationMarksChanges` | types, `ChangesAreMarked` | `Progress`: the marks an invalidation has set so far are later than every commit of its page |
| | `CheckTypes`, `PublishedIsHonoured` | types, `PublishedWritesAreHonoured` | `Remembers`: while the controller has forgotten a published time every older answer has expired, which is where `QueryTTL <= ControllerTTL` is needed; `Judges`: a lookup judges by a time no older than what was published at the request's start, or one whose older answers are gone |
| | `HigherConsistencyStaysFresh` | `HigherConsistencyIsFresh` | `FreshInv`: such a request is never in the lookup |
| | `IteratorTypes`, `CacheHoldsWholeAnswers` | types, `CachedIsWhole` | `IterInv`: an iterator has read part of what its query returned at one moment after the iterator was made, all of it when it flushes, and keeps fewer than fit |
| | `NoDrainIsAwaitedInVain` | `DrainsAreAwaited` | `SingleFlight`: one drain of a query at a time, and there while somebody waits |
| | `RequestsRefineController`, `InvalidationMarksUnderRequests` | the Check requests do to the controller what it offers; `ChangesAreMarked` beside them | each step of a request is a step of the controller or leaves it alone while the clock runs |
| | `ReadsAreMarked` | `CachedReadsAreMarked` | nothing: a fact about the keys and marks, for any set of tuples |
| `CheckReducersProofs` | `ReducerTypes`, `ReducersAreRight` | types, `AnswersAreRight` | `ReducerInv`: only ended goroutines have sent, until the context is done nothing is lost, and the locals sum up the outcomes received, none of them decisive. A receive from the closed channel then implies a cancellation, and a loop that ends has received every outcome, by a count of finite sets |
| | `CallsRunOut` | `NeverStuck` and `Counted`, and `Advances` of every step | `RunInv`: all handlers are started before the loop, each sends once, and the loop takes a round for each at most |
| | `BatchAnswersLikeCheck`, `BatchesAreExact` | `BatchIsExact`, for any spelling of contexts and any hash | the check that is executed for a key is the first that has it, which exists by the least-number principle; two checks with one key are `MixedUp` |
| `ListObjectsProofs` | `ResultsAreNotSentLate` | `NoSendAfterClose` | `WaitedFor`: behind the wait no goroutine that sends is left |
| | `ListsStayWithinLimit` | `ListIsWithinLimit` | `Once`: every object is in one place of the pipeline; `Counted`: the objects admitted (sent or about to be) are no more than the counter and the limit, although counting and sending are two steps. Each step either counts one pending object or moves objects along (`StepKinds`), so cardinalities change by one |
| | `ListsAreWhole` | `ListIsWhole`, an action property | `ErrorIsTold`: the first error of the pool reaches the caller unless something else ended the work; `Caused`: what cancels the work is the deadline, the limit, an error the pool has, or an expansion that failed and is about to tell the pool; `LoopIsDone`; `NoneIsLost`: while nothing makes the call drop objects each related one is pending or admitted, until as many are as allowed |
| | `PipelineNeverJams` | `NobodyIsStuck` | `Ends`, `EndIsSeen` and `ChecksAreDue`: an end of one goroutine is there for the next to see, and a full channel has a receiver |
| | `PipelineTypesHold` | types | `TInv`, `Fits` |
| `PortalProofs` | `StoresStayReused` | `StoresAreReused` | `StoreInv`: the script creates a store only for an empty list or for a list that came back as an error, which is counted already |
| | `PagesShowTheirOwnMenu` | `OwnMenuUnlessCached` | `OwnInv`: a request in progress is the page's, and only an answer from the cache is another user's |
| | `MenusAreBetween` | `MenuIsBetween` | the rows and tuples there are now, the rows read, and what the Checks have read and answered so far are each between what was so throughout and what was so at some time |
| | `TablesStayWhole` | `TablesAreWhole` | `TableInv`: identities are not used twice, and configurations that a request has loaded are still of its item if they are still there; without it a late save could attach one to an item that is gone |
| | `PortalTypes` | types | the above |
| `SortingProofs` | `SortedFacts` (lemma) | what ORDER BY returns | an element's place is the number of those before it; there is no induction over sequences |
| `StoreCatalogProofs` | `ModelsAreResolvedRight` | `ResolvedIsRight` | `BaseInv`: the lookup a request runs or waits for is there and no older than the request, what it found is whole and right for its key, a cached model is the table's of its identifier (`CacheOK`), models are only added, and no identifier to be inserted is in a table |
| | `ListsStayExact` | `ListsAreExact` | `ListOK`: what a client got lies before its token; what it must get and still can lies on it or behind |
| | `LookupsHaveLeaders` | `FlightsHaveLeaders` | `Led`: each lookup has a request that runs it, and by `BaseInv` no two |
| | `RequestsAreServed` | `NobodyIsLeftBehind`, and `OnlyForward` of every step | `KindsOK`: which requests come to which statements; `Led` |
| | `CatalogTypes` | types | `ValidOK`: a request goes on only with a valid model |

Assumptions on constants are in the modules that declare them, named, and TLC
evaluates them on every run. Beyond types and finiteness they are: a name or
number that stands for "none" is none of the things (readers, items, users,
objects); channels, pages and pools have at least one place; the tables found at
the start satisfy the schema (`TablesAssumption`: foreign keys and the unique
index; `CatalogAssumption`: a model is in one of the two formats); a tuple that
matches a query touches one of its entities (`IteratorAssumption`), which
`ReadsAreMarked` shows of the code's own keys. Three theorems have
hypotheses of their own: `QueryTTL <= ControllerTTL`; `Horizon = 0`; and
`BatchesAreExact`, of which the batches are finite and within `MaxChecks`, as they
are in `AuthzQueries` by its bounds.

Only model-checked:

* liveness (`CallsReturn`, `AheadIsDelivered`, `NextReturns`, `IteratorsAreStopped`,
  `InvalidationEnds`, `StoppedIsReleased`, `CallsEnd`, `CallEnds`, `RequestsEnd`,
  `StartEnds`, `PageSettles`): the prover has no rule for fairness and ENABLED. The
  part of `CallsReturn`, `NextReturns`, `StoppedIsReleased`, `CallsEnd`, `CallEnds` and
  `RequestsEnd` that is a matter of safety is proved for every size: nobody waits
  for what nobody will do, and for the first, the fourth and the last also that
  every step brings a call closer to its end. These predicates spell out the
  guards of the actions, as ENABLED would;
* five properties of `AuthzQueries` (`CheckIsExact`, `ListObjectsIsExact`,
  `ListUsersIsExact`, `ExpandIsExact`, `AcceptedModelsCanBeEntered`): the algorithms
  recurse over models and tuples with RECURSIVE operators, which the prover's SMT
  backend does not take, and what they compute for every model needs an induction
  over rewrites and paths; the library's induction theorems have an operator as a
  parameter, which the provers cannot instantiate. Arguments by the least or the
  greatest number are within reach and are used (`LeastNatural`,
  `GreatestNumber`).

## 7. Not modelled

The reasons are under `components`. Left out for good: presentation, generated code
and mocks, telemetry, the external services (Power BI, Azure), the CEL evaluator,
migrations, authentication (decisions on one token), options and wiring of the
server. Left out because the portal does not run on them: the other stores, whose
transactions have the control of SQL Server's under other lock hints. Left to
further work: throttlers and planner statistics, which delay requests or choose
between resolvers that `queries` shows to agree; fan-in as processes; the goroutines
of BatchCheck and ListUsers; the order of closing at shutdown; `ReadPage`.
