----------------------------- MODULE StoreCatalog -----------------------------
(***************************************************************************)
(* Stores, authorization models and assertions: the API of OpenFGA that    *)
(* creates, deletes and lists them, the tables of the SQL Server store     *)
(* behind it, and the resolver of type systems, which every request that   *)
(* names a model or wants the latest goes through.                         *)
(*                                                                         *)
(* Stores and models have ULIDs, drawn when the request starts and         *)
(* inserted later, so rows do not appear in the order of their             *)
(* identifiers.  Lookups of a model are shared by the requests that ask    *)
(* for it at the same time (singleflight), and run with the context of     *)
(* the first of them.  Models and assertions are those of one store; a     *)
(* request refused by validation or access control has not begun.          *)
(***************************************************************************)
EXTENDS Sorting, FiniteSetsExt, SequencesExt

CONSTANTS
    Slots,         \* requests in progress at a time
    Requests,      \* what they ask: [op, id]
    Stores0,       \* the stores there are at first
    Rows0,         \* the rows of authorization_model at first: [id, type]
    Invalid,       \* models that are no longer valid
    PageSize,
    MaxRequests,   \* bound on the requests and the clients that list
    MaxFaults      \* bound on the statements that fail and the evictions

VARIABLES
    stores,     \* id -> whether the store lives
    rows,       \* of authorization_model
    assertions, \* the models that have assertions
    read,       \* the cache of the datastore: models as they were read
    typesys,    \* the cache of the resolver: models as they were validated
    flight,     \* lookups in progress: key -> [since, err, model]
    req,        \* what each slot does
    list,       \* a client that pages through stores or models
    drawn,      \* the last ULID
    begun, faults

catalogVars == <<stores, rows, assertions, read, typesys, flight, req, list, drawn, begun, faults>>

Latest  == 0
NoModel == [id |-> 0, types |-> {}]
Idle    == [at |-> "idle"]
NoList  == [at |-> "none"]
Whole   == ""          \* the type of a row that holds all of a model

ASSUME CatalogAssumption ==
    /\ PageSize \in Nat \ {0} /\ MaxRequests \in Nat /\ MaxFaults \in Nat
    /\ Stores0 \subseteq Nat \ {0} /\ IsFiniteSet(Stores0) /\ IsFiniteSet(Rows0)
    /\ Rows0 \subseteq [id : Nat \ {0}, type : STRING]
    /\ \A a, b \in Rows0 : a.id = b.id /\ a.type = Whole => b.type = Whole
    /\ \A r \in Requests : r.id \in Nat

First      == Max(Stores0 \cup {r.id : r \in Rows0} \cup {0})
Models     == {r.id : r \in rows}
Newest     == Max(Models \cup {0})
LiveStores == {i \in DOMAIN stores : stores[i]}

CatalogInit ==
    /\ stores = [i \in Stores0 |-> TRUE] /\ rows = Rows0
    /\ assertions = {} /\ read = {} /\ typesys = {} /\ flight = <<>>
    /\ req = [s \in Slots |-> Idle] /\ list = NoList
    /\ drawn = First /\ begun = 0 /\ faults = 0

Put(f, k, v) == [x \in DOMAIN f \cup {k} |-> IF x = k THEN v ELSE f[x]]
At(s, at)    == req[s].at = at
Goto(s, at)  == req' = [req EXCEPT ![s].at = at]
Answer(s)    == req' = [req EXCEPT ![s] = Idle]
Fault        == faults < MaxFaults /\ faults' = faults + 1
Tables       == <<stores, rows, assertions>>
Caches       == <<read, typesys, flight>>

\* The entries of a cache are found by the identifier of the model.
Ids(cache)     == {m.id : m \in cache}
Of(cache, id)  == CHOOSE m \in cache : m.id = id
Keep(cache, m) == {n \in cache : n.id # m.id} \cup {m}

Another == begun < MaxRequests /\ begun' = begun + 1

\* A request begins: its identifier or the key it looks for.
Begin(s, op, at, id) ==
    /\ Another /\ At(s, "idle")
    /\ req' = [req EXCEPT ![s] = [at |-> at, op |-> op, id |-> id, model |-> NoModel, since |-> Newest]]
    /\ UNCHANGED <<Tables, Caches, list, faults>>

-----------------------------------------------------------------------------
(* Stores. *)

CreateStoreExecute(s) == drawn' = drawn + 1 /\ Begin(s, "createStore", "insertingStore", drawn')
HandleCreateStore(s) == CreateStoreExecute(s)

\* The row is inserted and read back in one transaction.
CreateStore(s) ==
    /\ At(s, "insertingStore")
    /\ \/ stores' = Put(stores, req[s].id, TRUE) /\ UNCHANGED faults
       \/ Fault /\ UNCHANGED stores
    /\ Answer(s)
    /\ UNCHANGED <<rows, assertions, Caches, list, drawn, begun>>

HandleDeleteStore(s, id) == Begin(s, "deleteStore", "gettingStore", id) /\ UNCHANGED drawn
HandleGetStore(s, id) == Begin(s, "getStore", "gettingStore", id) /\ UNCHANGED drawn

GetStore(id) == id \in LiveStores

\* A store that is not there counts as deleted.
DeleteStoreExecute(s) ==
    /\ At(s, "gettingStore") /\ req[s].op = "deleteStore"
    /\ \/ UNCHANGED faults /\ IF GetStore(req[s].id) THEN Goto(s, "deletingStore") ELSE Answer(s)
       \/ Fault /\ Answer(s)
    /\ UNCHANGED <<Tables, Caches, list, drawn, begun>>

GetStoreExecute(s) ==
    /\ At(s, "gettingStore") /\ req[s].op = "getStore"
    /\ Answer(s)
    /\ UNCHANGED <<Tables, Caches, list, drawn, begun, faults>>

DeleteStore(s) ==
    /\ At(s, "deletingStore")
    /\ \/ stores' = [stores EXCEPT ![req[s].id] = FALSE] /\ UNCHANGED faults
       \/ Fault /\ UNCHANGED stores
    /\ Answer(s)
    /\ UNCHANGED <<rows, assertions, Caches, list, drawn, begun>>

-----------------------------------------------------------------------------
(* Models. *)

\* The model is validated before it is written; the identifier is drawn first.
WriteAuthorizationModelExecute(s) ==
    /\ drawn' = drawn + 1
    /\ \/ Begin(s, "writeModel", "insertingModel", drawn')
       \/ Another /\ At(s, "idle") /\ UNCHANGED <<Tables, Caches, req, list, faults>>
HandleWriteAuthorizationModel(s) == WriteAuthorizationModelExecute(s)

WriteAuthorizationModel(s) ==
    /\ At(s, "insertingModel")
    /\ \/ rows' = rows \cup {[id |-> req[s].id, type |-> Whole]} /\ UNCHANGED faults
       \/ Fault /\ UNCHANGED rows
    /\ Answer(s)
    /\ UNCHANGED <<stores, assertions, Caches, list, drawn, begun>>

\* constructAuthorizationModelFromSQLRows: one row with the whole model, or
\* the rows of the first model, one per type.
Construct(seq) ==
    IF seq = <<>> THEN NoModel
    ELSE [id    |-> Head(seq).id,
          types |-> IF Head(seq).type = Whole THEN {Whole}
                    ELSE {seq[i].type : i \in {i \in DOMAIN seq :
                                               \A j \in 1..i : seq[j].id = Head(seq).id}}]

\* The order of the types of a model is the database's.
FindLatestAuthorizationModel == Construct(Sorted(rows, {p \in rows \X rows : p[1].id > p[2].id}))
ReadAuthorizationModel(id) == Construct(Sorted({r \in rows : r.id = id}, {}))

HandleReadAuthorizationModel(s, id) == Begin(s, "readModel", "readingModel", id) /\ UNCHANGED drawn

\* ReadAuthorizationModel of the cached datastore: the entry, or the table.
ReadThrough(id) == IF id \in Ids(read) THEN Of(read, id) ELSE ReadAuthorizationModel(id)

CachedReadAuthorizationModel(s, next) ==
    LET m == ReadThrough(req[s].id)
    IN \/ m = NoModel /\ Answer(s) /\ UNCHANGED <<read, faults>>
       \/ /\ m # NoModel /\ req' = [req EXCEPT ![s].at = next, ![s].model = m]
          /\ read' = Keep(read, m) /\ UNCHANGED faults
       \/ req[s].id \notin Ids(read) /\ Fault /\ Answer(s) /\ UNCHANGED read

ReadAuthorizationModelExecute(s) ==
    /\ At(s, "readingModel")
    /\ CachedReadAuthorizationModel(s, "answered")
    /\ UNCHANGED <<Tables, typesys, flight, list, drawn, begun>>

Answered(s) == At(s, "answered") /\ Answer(s) /\ UNCHANGED <<Tables, Caches, list, drawn, begun, faults>>

-----------------------------------------------------------------------------
(* The resolver of type systems. *)

\* resolveTypesystem: Check and the other queries go on with the model, and
\* the assertions are those of the model that was found.
HandleQuery(s, id) == Begin(s, "query", "resolving", id) /\ UNCHANGED drawn
HandleWriteAssertions(s, id) == Begin(s, "writeAssertions", "resolving", id) /\ UNCHANGED drawn
HandleReadAssertions(s, id) == Begin(s, "readAssertions", "resolving", id) /\ UNCHANGED drawn

Join(s, k) == req' = [req EXCEPT ![s].at = "waiting", ![s].since = flight[k].since] /\ UNCHANGED flight
Lead(s, k) == /\ Goto(s, "querying")
              /\ flight' = Put(flight, k, [since |-> Newest, err |-> FALSE, model |-> NoModel])
Hit(s, k)  == /\ req' = [req EXCEPT ![s].at = "resolved", ![s].model = Of(typesys, k)]
              /\ UNCHANGED flight

\* Mutant: whoever wants the latest model is given the latest of the cache.
ResolveLatestCached(s) ==
    LET k == IF req[s].id = Latest /\ typesys # {} THEN Max(Ids(typesys)) ELSE req[s].id
    IN /\ At(s, "resolving")
       /\ IF k \in Ids(typesys) THEN Hit(s, k) ELSE IF k \in DOMAIN flight THEN Join(s, k) ELSE Lead(s, k)
       /\ UNCHANGED <<Tables, read, typesys, list, drawn, begun, faults>>

\* A model that is named may be in the cache; otherwise the request joins the
\* lookup in progress or is the first.
Resolve(s) ==
    LET k == req[s].id
    IN /\ At(s, "resolving")
       /\ IF k \in Ids(typesys) THEN Hit(s, k) ELSE IF k \in DOMAIN flight THEN Join(s, k) ELSE Lead(s, k)
       /\ UNCHANGED <<Tables, read, typesys, list, drawn, begun, faults>>

\* The query of the first; it fails for all when the context of the first ends.
Query(s) ==
    LET k == req[s].id
        m == IF k = Latest THEN FindLatestAuthorizationModel ELSE ReadThrough(k)
    IN /\ At(s, "querying")
       /\ \/ flight' = [flight EXCEPT ![k].model = m] /\ UNCHANGED faults
          \/ k \notin Ids(read) /\ Fault /\ flight' = [flight EXCEPT ![k].err = TRUE]
       /\ read' = IF k # Latest /\ flight'[k].model # NoModel THEN Keep(read, flight'[k].model) ELSE read
       /\ Goto(s, "landing")
       /\ UNCHANGED <<Tables, typesys, list, drawn, begun>>

Sharing(s) == {t \in Slots : t = s \/ (At(t, "waiting") /\ req[t].id = req[s].id)}
Landed(s, who) ==
    LET f == flight[req[s].id]
    IN /\ At(s, "landing")
       /\ req' = [t \in Slots |-> IF t \in who
                    THEN IF f.err \/ f.model = NoModel THEN Idle
                         ELSE [req[t] EXCEPT !.at = "validating", !.model = f.model]
                    ELSE req[t]]
       /\ flight' = [x \in DOMAIN flight \ {req[s].id} |-> flight[x]]
       /\ UNCHANGED <<Tables, read, typesys, list, drawn, begun, faults>>

\* Mutant: an error is returned without waking the others.
LandWithError(s) == Landed(s, IF flight[req[s].id].err THEN {s} ELSE Sharing(s))

\* What was found is handed to all who wait, and the lookup is forgotten.
Land(s) == Landed(s, Sharing(s))

\* The latest model may be in the cache by now; what was named is validated
\* whoever else has cached it meanwhile.  Only valid models are cached.
Validate(s) ==
    LET m == req[s].model
    IN /\ At(s, "validating")
       /\ IF req[s].id = Latest /\ m.id \in Ids(typesys) THEN Hit(s, m.id) /\ UNCHANGED typesys
          ELSE IF m.id \in Invalid THEN Answer(s) /\ UNCHANGED <<typesys, flight>>
          ELSE Goto(s, "resolved") /\ typesys' = Keep(typesys, m) /\ UNCHANGED flight
       /\ UNCHANGED <<Tables, read, list, drawn, begun, faults>>

\* The caches drop what is old or too much.
Evict ==
    /\ Fault
    /\ \/ \E m \in typesys : typesys' = typesys \ {m} /\ UNCHANGED read
       \/ \E m \in read : read' = read \ {m} /\ UNCHANGED typesys
    /\ UNCHANGED <<Tables, flight, req, list, drawn, begun>>

-----------------------------------------------------------------------------
(* What is done with the model. *)

QueryAnswered(s) ==
    /\ At(s, "resolved") /\ req[s].op = "query"
    /\ Answer(s)
    /\ UNCHANGED <<Tables, Caches, list, drawn, begun, faults>>

\* The model is read once more, under the identifier that was resolved, and
\* the assertions are checked against it.
WriteAssertionsExecute(s) ==
    LET m == ReadThrough(req[s].model.id)
    IN /\ At(s, "resolved") /\ req[s].op = "writeAssertions"
       /\ \/ /\ req' = [req EXCEPT ![s].at = "writingAssertions"]
             /\ read' = Keep(read, m) /\ UNCHANGED faults
          \/ Answer(s) /\ read' = Keep(read, m) /\ UNCHANGED faults
          \/ m.id \notin Ids(read) /\ Fault /\ Answer(s) /\ UNCHANGED read
       /\ UNCHANGED <<Tables, typesys, flight, list, drawn, begun>>

\* MERGE replaces the assertions of the model or adds them.
WriteAssertions(s) ==
    /\ At(s, "writingAssertions")
    /\ \/ assertions' = assertions \cup {req[s].model.id} /\ UNCHANGED faults
       \/ Fault /\ UNCHANGED assertions
    /\ Answer(s)
    /\ UNCHANGED <<stores, rows, Caches, list, drawn, begun>>

ReadAssertionsExecute(s) ==
    /\ At(s, "resolved") /\ req[s].op = "readAssertions"
    /\ Answer(s)
    /\ UNCHANGED <<Tables, Caches, list, drawn, begun, faults>>

-----------------------------------------------------------------------------
(* Listing: a client asks for one page after the other. *)

Listing(kind, must) ==
    /\ Another /\ list.at = "none"
    /\ list' = [at |-> "paging", kind |-> kind, token |-> 0, got |-> <<>>, must |-> must]
    /\ UNCHANGED <<Tables, Caches, req, drawn, faults>>
HandleListStores == Listing("stores", LiveStores)
HandleReadAuthorizationModels == Listing("models", Models)

Upwards(S)   == Sorted(S, {p \in S \X S : p[1] < p[2]})
Downwards(S) == Sorted(S, {p \in S \X S : p[1] > p[2]})

\* Mutant: the row of the token is not part of the next page.
ListStoresBehind(token) == Upwards({i \in LiveStores : i > token})

\* The stores from the token on, upwards.
ListStores(token) == Upwards({i \in LiveStores : i >= token})

\* The models from the token on, downwards.
ReadAuthorizationModels(token) == Downwards({i \in Models : token = 0 \/ i <= token})

\* One row more than the page is read, and is the token.
NextPage(found) ==
    LET more == Len(found) > PageSize
    IN /\ list' = [list EXCEPT !.got = @ \o SubSeq(found, 1, IF more THEN PageSize ELSE Len(found)),
                               !.token = IF more THEN found[PageSize + 1] ELSE 0,
                               !.at = IF more THEN "paging" ELSE "done"]
       /\ UNCHANGED <<Tables, Caches, req, drawn, begun, faults>>

ListStoresExecute == list.at = "paging" /\ list.kind = "stores" /\ NextPage(ListStores(list.token))
ReadAuthorizationModelsExecute ==
    list.at = "paging" /\ list.kind = "models" /\ NextPage(ReadAuthorizationModels(list.token))

-----------------------------------------------------------------------------

Handle(s, r) ==
    \/ r.op = "createStore" /\ HandleCreateStore(s)
    \/ r.op = "deleteStore" /\ HandleDeleteStore(s, r.id)
    \/ r.op = "getStore" /\ HandleGetStore(s, r.id)
    \/ r.op = "writeModel" /\ HandleWriteAuthorizationModel(s)
    \/ r.op = "readModel" /\ HandleReadAuthorizationModel(s, r.id)
    \/ r.op = "query" /\ HandleQuery(s, r.id)
    \/ r.op = "writeAssertions" /\ HandleWriteAssertions(s, r.id)
    \/ r.op = "readAssertions" /\ HandleReadAssertions(s, r.id)

Serve(s) ==
    \/ CreateStore(s) \/ DeleteStoreExecute(s) \/ GetStoreExecute(s) \/ DeleteStore(s)
    \/ WriteAuthorizationModel(s) \/ ReadAuthorizationModelExecute(s) \/ Answered(s)
    \/ Resolve(s) \/ Query(s) \/ Land(s) \/ Validate(s) \/ QueryAnswered(s)
    \/ WriteAssertionsExecute(s) \/ WriteAssertions(s) \/ ReadAssertionsExecute(s)

CatalogNext ==
    \/ \E s \in Slots : Serve(s) \/ \E r \in Requests : Handle(s, r)
    \/ HandleListStores \/ ListStoresExecute
    \/ HandleReadAuthorizationModels \/ ReadAuthorizationModelsExecute
    \/ Evict

\* Requests that have begun are executed, each by its own goroutine.
CatalogSpec ==
    /\ CatalogInit /\ [][CatalogNext]_catalogVars
    /\ \A s \in Slots : WF_catalogVars(Serve(s))

\* The types of the variables.  No type system of an invalid model is in the
\* cache of the resolver, and assertions belong to valid models, which no
\* constraint of the tables says.
CatalogTypeOK ==
    /\ \A i \in DOMAIN stores : i \in 1..drawn /\ stores[i] \in BOOLEAN
    /\ Models \subseteq 1..drawn /\ Ids(read) \subseteq Models
    /\ Ids(typesys) \subseteq Models \ Invalid /\ assertions \subseteq Models \ Invalid
    /\ \A s \in Slots : At(s, "idle") \/ req[s].model.id \in Models \cup {0}
    /\ list.at \in {"none", "paging", "done"}
    /\ drawn \in First..(First + MaxRequests) /\ begun \in 0..MaxRequests /\ faults \in 0..MaxFaults

\* A client that pages through stores or models (ListStores,
\* ReadAuthorizationModels) gets none twice, and has at the end all that were
\* there when it began and still are, while others are created before and
\* behind its token and the store that the token names is deleted.
ListsAreExact ==
    list.at # "none" =>
        /\ \A i, j \in DOMAIN list.got : i < j => list.got[i] # list.got[j]
        /\ list.at = "done" =>
              list.must \cap (IF list.kind = "stores" THEN LiveStores ELSE Models) \subseteq ToSet(list.got)

\* A request for the latest model is given none older than the newest when
\* its lookup began: that is the request's own beginning, unless it joined
\* the lookup of another, which may have begun before a model was written and
\* acknowledged.  A request for a model by name gets that one.  And whatever
\* is given, from the caches or from the table, has all of its types and none
\* of another model, in either format of the rows.
ResolvedIsRight ==
    \A s \in Slots :
        /\ At(s, "resolved") =>
              IF req[s].id = Latest THEN req[s].model.id >= req[s].since ELSE req[s].model.id = req[s].id
        /\ req[s].at \in {"resolved", "answered"} =>
              req[s].model.types = {r.type : r \in {r \in rows : r.id = req[s].model.id}}

\* Every lookup in progress has exactly one request that runs it, and
\* whoever waits waits for such a lookup (singleflight under the resolver).
FlightsHaveLeaders ==
    /\ \A k \in DOMAIN flight :
          Cardinality({s \in Slots : req[s].at \in {"querying", "landing"} /\ req[s].id = k}) = 1
    /\ \A s \in Slots : At(s, "waiting") => req[s].id \in DOMAIN flight

\* Every request is answered, also when the one whose lookup it shares fails.
RequestsEnd == \A s \in Slots : ~At(s, "idle") ~> At(s, "idle")
=============================================================================
