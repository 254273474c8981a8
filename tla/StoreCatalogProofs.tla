-------------------------- MODULE StoreCatalogProofs --------------------------
(***************************************************************************)
(* StoreCatalog for any number of requests, stores, models and pages: the  *)
(* resolver gives every request the right model, and a client that pages   *)
(* through stores or models gets each of them once.                        *)
(***************************************************************************)
EXTENDS StoreCatalog, SortingProofs

-----------------------------------------------------------------------------
(* What the queries return. *)

(* A finite set of numbers has a greatest.                                 *)
LEMMA MaxFacts ==
    ASSUME NEW S, S \subseteq Nat, IsFiniteSet(S), S # {}
    PROVE  Max(S) \in S /\ \A x \in S : x <= Max(S)
<1>1. \E x \in S : \A y \in S : x >= y BY GreatestNumber
<1> QED BY <1>1 DEF Max

Types == {r.type : r \in Rows0} \cup {Whole}
Row == [id : Nat \ {0}, type : Types]
ModelRec == [id : Nat, types : SUBSET Types]
TypesOf(i) == {r.type : r \in {r \in rows : r.id = i}}

(* The rows of authorization_model, none of an identifier not yet drawn,   *)
(* and every model in one of the two formats.                              *)
RowsOK ==
    /\ rows \subseteq Row /\ IsFiniteSet(rows)
    /\ \A a, b \in rows : a.id = b.id /\ a.type = Whole => b.type = Whole
    /\ drawn \in Nat /\ \A r \in rows : r.id <= drawn

(* Rows in descending order of their models: the model that comes first,   *)
(* and all of its types.                                                   *)
LEMMA ConstructFacts ==
    ASSUME NEW S, S \subseteq Row, NEW s \in Seq(S), s # <<>>,
           \A a, b \in S : a.id = b.id /\ a.type = Whole => b.type = Whole,
           \A i, j \in 1..Len(s) : i < j => s[i].id >= s[j].id,
           \A r \in S : \E i \in 1..Len(s) : s[i] = r
    PROVE  /\ 1 \in 1..Len(s) /\ s[1] \in S
           /\ Construct(s).id = s[1].id /\ Construct(s) \in ModelRec
           /\ Construct(s).types = {r.type : r \in {r \in S : r.id = s[1].id}}
           /\ \A r \in S : r.id <= s[1].id
<1>1. Len(s) \in Nat /\ 1 \in 1..Len(s) /\ DOMAIN s = 1..Len(s) /\ Head(s) = s[1] OBVIOUS
<1>2. \A i \in 1..Len(s) : s[i] \in S OBVIOUS
<1>3. \A i \in 1..Len(s) : s[i].id \in Nat BY <1>2 DEF Row
<1> DEFINE Mine == {r.type : r \in {r \in S : r.id = s[1].id}}
<1> DEFINE First1 == {i \in DOMAIN s : \A j \in 1..i : s[j].id = Head(s).id}
<1>4. Construct(s) = [id |-> s[1].id,
                      types |-> IF s[1].type = Whole THEN {Whole} ELSE {s[i].type : i \in First1}]
  BY <1>1 DEF Construct
<1>5. ASSUME s[1].type = Whole PROVE Mine = {Whole}
  <2>1. \A r \in S : r.id = s[1].id => r.type = Whole BY <1>1, <1>2, <1>5
  <2> QED BY <1>1, <1>2, <1>5, <2>1
<1>6. {s[i].type : i \in First1} = Mine
  <2>1. ASSUME NEW i \in First1 PROVE s[i].type \in Mine
    <3>1. i \in 1..Len(s) /\ i \in 1..i BY <1>1
    <3>2. s[i] \in S /\ s[i].id = s[1].id BY <1>1, <1>2, <3>1
    <3> QED BY <3>2
  <2>2. ASSUME NEW r \in S, r.id = s[1].id PROVE \E i \in First1 : s[i].type = r.type
    <3>1. PICK i \in 1..Len(s) : s[i] = r OBVIOUS
    <3>2. ASSUME NEW j \in 1..i PROVE s[j].id = s[1].id
      <4>1. j \in 1..Len(s) BY <1>1
      <4>2. s[1].id >= s[j].id BY <1>1, <1>3, <4>1
      <4>3. s[j].id >= s[i].id BY <1>1, <1>3, <4>1
      <4> QED BY <1>1, <1>3, <2>2, <3>1, <4>1, <4>2, <4>3
    <3>3. i \in First1 BY <1>1, <3>2
    <3> QED BY <3>1, <3>3
  <2> DEFINE Read == {s[i].type : i \in First1}
  <2>3. ASSUME NEW t \in Read PROVE t \in Mine BY <2>1
  <2>4. ASSUME NEW t \in Mine PROVE t \in Read
    <3>1. PICK r \in S : r.id = s[1].id /\ r.type = t OBVIOUS
    <3>2. PICK i \in First1 : s[i].type = r.type BY <2>2, <3>1
    <3> QED BY <3>1, <3>2
  <2> HIDE DEF Read, Mine
  <2>5. Read = Mine BY <2>3, <2>4
  <2> QED BY <2>5 DEF Read
<1>7. \A r \in S : r.id <= s[1].id
  <2> SUFFICES ASSUME NEW r \in S PROVE r.id <= s[1].id
    OBVIOUS
  <2>1. PICK i \in 1..Len(s) : s[i] = r OBVIOUS
  <2> QED BY <1>1, <1>3, <2>1
<1>8. Mine \in SUBSET Types BY DEF Row
<1> HIDE DEF Mine, First1
<1>9. Construct(s) = [id |-> s[1].id, types |-> Mine] BY <1>4, <1>5, <1>6
<1>10. Construct(s) \in ModelRec BY <1>1, <1>3, <1>8, <1>9 DEF ModelRec
<1> QED BY <1>1, <1>2, <1>7, <1>9, <1>10 DEF Mine

ModelOK(m) == m.id \in Models /\ m.types = TypesOf(m.id)

(* The latest model is none other than the newest.                         *)
LEMMA LatestFacts ==
    ASSUME RowsOK
    PROVE  \/ FindLatestAuthorizationModel = NoModel
           \/ /\ FindLatestAuthorizationModel \in ModelRec
              /\ ModelOK(FindLatestAuthorizationModel)
              /\ \A i \in Models : i <= FindLatestAuthorizationModel.id
<1> DEFINE R == {p \in rows \X rows : p[1].id > p[2].id}
<1>1. \A r \in rows : r.id \in Nat BY DEF RowsOK, Row
<1>2. WeakOrder(rows, R) BY <1>1 DEF WeakOrder
<1> DEFINE s == Sorted(rows, R)
<1>3. FindLatestAuthorizationModel = Construct(s) BY DEF FindLatestAuthorizationModel
<1>4. /\ s \in Seq(rows) /\ Len(s) = Cardinality(rows) /\ Cardinality(rows) \in Nat
      /\ \A i, j \in 1..Len(s) : i < j => <<s[j], s[i]>> \notin R
      /\ \A r \in rows : \E i \in 1..Len(s) : s[i] = r
  <2> HIDE DEF R
  <2> QED BY <1>2, SortedFacts DEF RowsOK
<1> HIDE DEF s
<1>5. \A i, j \in 1..Len(s) : i < j => s[i].id >= s[j].id
  <2> SUFFICES ASSUME NEW i \in 1..Len(s), NEW j \in 1..Len(s), i < j PROVE s[i].id >= s[j].id
    OBVIOUS
  <2>1. s[i] \in rows /\ s[j] \in rows BY <1>4
  <2>2. ~(s[j].id > s[i].id) BY <1>4, <2>1
  <2> QED BY <1>1, <2>1, <2>2
<1>6. CASE s = <<>> BY <1>3, <1>6 DEF Construct
<1>7. CASE s # <<>>
  <2>1. /\ s[1] \in rows /\ Construct(s).id = s[1].id /\ Construct(s) \in ModelRec
        /\ Construct(s).types = {r.type : r \in {r \in rows : r.id = s[1].id}}
        /\ \A r \in rows : r.id <= s[1].id
    <3>1. rows \subseteq Row /\ \A a, b \in rows : a.id = b.id /\ a.type = Whole => b.type = Whole
      BY DEF RowsOK
    <3> QED BY <1>4, <1>5, <1>7, <3>1, ConstructFacts
  <2> QED BY <1>3, <2>1 DEF ModelOK, Models, TypesOf
<1> QED BY <1>6, <1>7

(* A model that is asked for by name is found, if there is one.            *)
LEMMA NamedFacts ==
    ASSUME RowsOK, NEW k \in Nat
    PROVE  /\ ReadAuthorizationModel(k) # NoModel
                => /\ ReadAuthorizationModel(k) \in ModelRec
                   /\ ModelOK(ReadAuthorizationModel(k)) /\ ReadAuthorizationModel(k).id = k
           /\ k \in Models => ReadAuthorizationModel(k) # NoModel
<1> DEFINE S == {r \in rows : r.id = k}
<1> DEFINE s == Sorted(S, {})
<1>1. IsFiniteSet(S) /\ S \subseteq Row BY FS_Subset DEF RowsOK
<1>2. WeakOrder(S, {}) BY DEF WeakOrder
<1>3. ReadAuthorizationModel(k) = Construct(s) BY DEF ReadAuthorizationModel
<1>4. /\ s \in Seq(S) /\ Len(s) = Cardinality(S) /\ Cardinality(S) \in Nat
      /\ \A r \in S : \E i \in 1..Len(s) : s[i] = r
  <2> HIDE DEF S
  <2> QED BY <1>1, <1>2, SortedFacts
<1>5. k \in Models => S # {} BY DEF Models
<1>6. \A a, b \in S : a.id = b.id /\ a.type = Whole => b.type = Whole BY DEF RowsOK
<1>7. \A r \in S : r.id = k /\ r.id \in Nat OBVIOUS
<1>8. \A i \in Models : i # 0 BY DEF RowsOK, Models, Row
<1>9. {r.type : r \in {r \in S : r.id = k}} = TypesOf(k) BY DEF TypesOf
<1>10. \A r \in S : r.id \in Models BY DEF Models
<1> HIDE DEF s, S
<1>11. CASE s = <<>>
  <2>1. S = {} BY <1>4, <1>11
  <2> QED BY <1>3, <1>5, <1>11, <2>1 DEF Construct
<1>12. CASE s # <<>>
  <2>1. \A i \in 1..Len(s) : s[i] \in S BY <1>4
  <2>2. \A i, j \in 1..Len(s) : i < j => s[i].id >= s[j].id BY <1>7, <2>1
  <2>3. /\ s[1] \in S /\ Construct(s).id = s[1].id /\ Construct(s) \in ModelRec
        /\ Construct(s).types = {r.type : r \in {r \in S : r.id = s[1].id}}
    BY <1>1, <1>4, <1>6, <1>12, <2>2, ConstructFacts
  <2>4. s[1].id = k /\ s[1].id \in Models BY <1>7, <1>10, <2>3
  <2>5. Construct(s) # NoModel BY <1>8, <2>3, <2>4 DEF NoModel
  <2> QED BY <1>3, <1>9, <2>3, <2>4, <2>5 DEF ModelOK
<1> QED BY <1>11, <1>12

-----------------------------------------------------------------------------
(* The requests and the lookups they share. *)

Ops == {"createStore", "deleteStore", "getStore", "writeModel", "readModel",
        "query", "writeAssertions", "readAssertions"}
Starts == {"insertingStore", "gettingStore", "insertingModel", "readingModel", "resolving"}
Holding == {"validating", "resolved", "answered"}
Stages == Starts \cup Holding \cup {"deletingStore", "querying", "landing", "waiting", "writingAssertions"}
Record == [at : Stages, op : Ops, id : Nat, model : ModelRec, since : Nat]
Lookup == [since : Nat, err : BOOLEAN, model : ModelRec]

Leading == {"querying", "landing"}
Looking == Leading \cup {"waiting"}

Right(id, since, m) == IF id = Latest THEN m.id >= since ELSE m.id = id

(* What a request knows at every stage: the identifier it will insert is   *)
(* new, the lookup it runs or waits for is there and no older than the     *)
(* request, and the model it was given is whole and the right one.         *)
SlotOK(q) ==
    /\ q \in {Idle} \cup Record
    /\ q.at # "idle" => q.since \in Models \cup {0}
    /\ q.at = "insertingStore" => q.id \in (1..drawn) \ DOMAIN stores
    /\ q.at = "insertingModel" => q.id \in (1..drawn) \ Models
    /\ q.at \in Looking => q.id \in DOMAIN flight /\ q.since <= flight[q.id].since
    /\ q.at \in Holding => ModelOK(q.model)
    /\ q.at \in {"validating", "resolved"} => Right(q.id, q.since, q.model)

(* No two requests insert the same identifier or run the same lookup.      *)
Apart(q, p) ==
    /\ q.at = "insertingStore" /\ p.at = "insertingStore" => q.id # p.id
    /\ q.at = "insertingModel" /\ p.at = "insertingModel" => q.id # p.id
    /\ q.at \in Leading /\ p.at \in Leading => q.id # p.id

SlotsOK ==
    /\ req \in [Slots -> {Idle} \cup Record]
    /\ \A s \in Slots : SlotOK(req[s])
    /\ \A s, t \in Slots : s # t => Apart(req[s], req[t])

StoresOK == DOMAIN stores \subseteq 1..drawn /\ stores \in [DOMAIN stores -> BOOLEAN]

FoundOK(k, f) ==
    /\ f.since \in Models \cup {0}
    /\ f.model # NoModel => ModelOK(f.model) /\ Right(k, f.since, f.model)

FlightOK ==
    /\ DOMAIN flight \subseteq Nat /\ flight \in [DOMAIN flight -> Lookup]
    /\ \A k \in DOMAIN flight : FoundOK(k, flight[k])

(* The caches hold models as they are in the table.                        *)
CacheOK(cache) == \A m \in cache : m \in ModelRec /\ ModelOK(m)

BaseInv == RowsOK /\ StoresOK /\ FlightOK /\ SlotsOK /\ CacheOK(typesys \cup read)

(* What a cache is asked for it has, whole and under its own identifier.   *)
LEMMA OfFacts ==
    ASSUME NEW cache, CacheOK(cache), NEW k \in Ids(cache)
    PROVE  Of(cache, k) \in ModelRec /\ ModelOK(Of(cache, k)) /\ Of(cache, k).id = k
<1>1. \E m \in cache : m.id = k BY DEF Ids
<1>2. Of(cache, k) \in cache /\ Of(cache, k).id = k BY <1>1 DEF Of
<1> QED BY <1>2 DEF CacheOK

(* The cached datastore answers like the table.                            *)
LEMMA ThroughFacts ==
    ASSUME BaseInv, NEW k \in Nat
    PROVE  /\ ReadThrough(k) # NoModel
                => ReadThrough(k) \in ModelRec /\ ModelOK(ReadThrough(k)) /\ ReadThrough(k).id = k
           /\ k \in Models => ReadThrough(k) # NoModel
<1>1. CASE k \in Ids(read)
  <2>1. CacheOK(read) BY DEF BaseInv, CacheOK
  <2>2. ReadThrough(k) = Of(read, k) BY <1>1 DEF ReadThrough
  <2>3. ReadThrough(k) \in ModelRec /\ ModelOK(ReadThrough(k)) /\ ReadThrough(k).id = k
    BY <1>1, <2>1, <2>2, OfFacts
  <2>4. 0 \notin Models BY DEF BaseInv, RowsOK, Row, Models
  <2>5. ReadThrough(k) # NoModel BY <2>3, <2>4 DEF NoModel, ModelOK
  <2> QED BY <2>3, <2>5
<1>2. CASE k \notin Ids(read)
  <2>1. ReadThrough(k) = ReadAuthorizationModel(k) BY <1>2 DEF ReadThrough
  <2>2. RowsOK BY DEF BaseInv
  <2> QED BY <2>1, <2>2, NamedFacts
<1> QED BY <1>1, <1>2

LEMMA KeepFacts ==
    ASSUME NEW c, NEW d, CacheOK(c \cup d), NEW m \in ModelRec, ModelOK(m)
    PROVE  CacheOK(c \cup Keep(d, m)) /\ CacheOK(Keep(c, m) \cup d)
BY DEF CacheOK, Keep

(* Models are only ever added, and identifiers only drawn.                 *)
Grows ==
    /\ Models \subseteq Models' /\ \A i \in Models : TypesOf(i)' = TypesOf(i)
    /\ drawn \in Nat /\ drawn' \in Nat /\ drawn <= drawn'

Undisturbed(q) ==
    /\ q.at = "insertingStore" => q.id \notin DOMAIN stores'
    /\ q.at = "insertingModel" => q.id \notin Models'
    /\ q.at \in Looking => /\ q.id \in DOMAIN flight'
                           /\ flight'[q.id].since = flight[q.id].since

LEMMA SlotStays ==
    ASSUME NEW q, SlotOK(q), Grows, Undisturbed(q)
    PROVE  SlotOK(q)'
<1>1. \A m : ModelOK(m) => ModelOK(m)' BY DEF ModelOK, Grows
<1>2. q.at = "insertingStore" => q.id \in (1..drawn') \ DOMAIN stores'
  BY DEF SlotOK, Grows, Undisturbed
<1>3. q.at = "insertingModel" => q.id \in (1..drawn') \ Models'
  BY DEF SlotOK, Grows, Undisturbed
<1>4. q.at \in Looking => q.id \in DOMAIN flight' /\ q.since <= flight'[q.id].since
  BY DEF SlotOK, Undisturbed
<1>5. q.at # "idle" => q.since \in Models' \cup {0} BY DEF SlotOK, Grows
<1> QED BY <1>1, <1>2, <1>3, <1>4, <1>5 DEF SlotOK

(* A request takes a step that does not disturb the others.                *)
LEMMA SlotMoves ==
    ASSUME BaseInv, Grows, NEW s \in Slots, NEW f, req' = [req EXCEPT ![s] = f], SlotOK(f)',
           \A t \in Slots \ {s} : Apart(f, req[t]) /\ Undisturbed(req[t])
    PROVE  SlotsOK'
<1>1. req \in [Slots -> {Idle} \cup Record] /\ \A t \in Slots : SlotOK(req[t])
  BY DEF BaseInv, SlotsOK
<1>2. req'[s] = f /\ \A t \in Slots \ {s} : req'[t] = req[t] BY <1>1
<1>3. f \in {Idle} \cup Record BY DEF SlotOK
<1>4. req' \in [Slots -> {Idle} \cup Record] BY <1>1, <1>3
<1>5. ASSUME NEW t \in Slots \ {s} PROVE SlotOK(req[t])'
  <2>1. PICK q : q = req[t] OBVIOUS
  <2>2. SlotOK(q) BY <1>1, <2>1
  <2>3. Undisturbed(q) BY <2>1
  <2>4. SlotOK(q)' BY <2>2, <2>3, SlotStays
  <2>5. req'[t] = q BY <1>2, <2>1
  <2> QED BY <2>4, <2>5 DEF SlotOK
<1>6. SlotOK(req[s])' BY <1>2 DEF SlotOK
<1>7. ASSUME NEW t \in Slots, NEW u \in Slots, t # u PROVE Apart(req'[t], req'[u])
  <2>1. CASE t = s BY <1>2, <1>7, <2>1
  <2>2. CASE u = s BY <1>2, <1>7, <2>2 DEF Apart
  <2>3. CASE t # s /\ u # s BY <1>2, <1>7, <2>3 DEF BaseInv, SlotsOK
  <2> QED BY <2>1, <2>2, <2>3
<1>8. \A t, u \in Slots : t # u => Apart(req[t], req[u])'
  BY <1>7 DEF Apart
<1> QED BY <1>4, <1>5, <1>6, <1>8 DEF SlotsOK

(* What was found stays right as models are added.                         *)
LEMMA FoundStays ==
    ASSUME Grows, NEW k, NEW f, FoundOK(k, f)
    PROVE  FoundOK(k, f)'
BY DEF Grows, FoundOK, ModelOK

LEMMA CachesStay ==
    ASSUME Grows, CacheOK(typesys' \cup read')
    PROVE  CacheOK(typesys \cup read)'
BY DEF Grows, CacheOK, ModelOK

LEMMA CachesSame ==
    ASSUME BaseInv, UNCHANGED <<typesys, read>>
    PROVE  CacheOK(typesys' \cup read')
BY DEF BaseInv

(* Steps that leave the models and the lookups alone.                      *)
LEMMA RowsStay ==
    ASSUME BaseInv, UNCHANGED <<rows, flight>>, drawn' \in {drawn, drawn + 1}
    PROVE  Grows /\ RowsOK' /\ FlightOK' /\ Models' = Models
<1>1. Models' = Models /\ \A i : TypesOf(i)' = TypesOf(i) BY DEF Models, TypesOf
<1>2. drawn \in Nat /\ drawn' \in Nat /\ drawn <= drawn' BY DEF BaseInv, RowsOK
<1>3. Grows BY <1>1, <1>2 DEF Grows
<1>4. RowsOK'
  <2>1. \A r \in rows : r.id \in Nat /\ r.id <= drawn BY DEF BaseInv, RowsOK, Row
  <2>2. \A r \in rows : r.id <= drawn' BY <1>2, <2>1
  <2> QED BY <1>2, <2>2 DEF BaseInv, RowsOK
<1>5. FlightOK'
  <2>1. \A k \in DOMAIN flight : FoundOK(k, flight[k])
    BY DEF BaseInv, FlightOK
  <2>2. ASSUME NEW k \in DOMAIN flight PROVE FoundOK(k, flight[k])'
    <3>1. PICK f : f = flight[k] OBVIOUS
    <3>2. FoundOK(k, f)' BY <1>3, <2>1, <3>1, FoundStays
    <3> QED BY <3>1, <3>2 DEF FoundOK
  <2> QED BY <2>2 DEF BaseInv, FlightOK
<1> QED BY <1>1, <1>3, <1>4, <1>5

LEMMA QuietKeeps ==
    ASSUME BaseInv, UNCHANGED <<stores, rows, flight>>, drawn' \in {drawn, drawn + 1}
    PROVE  /\ Grows /\ RowsOK' /\ StoresOK' /\ FlightOK' /\ Models' = Models
           /\ \A q : SlotOK(q) => Undisturbed(q)
<1>1. Grows /\ RowsOK' /\ FlightOK' /\ Models' = Models BY RowsStay
<1>2. StoresOK' BY <1>1 DEF BaseInv, StoresOK, Grows
<1>3. \A q : SlotOK(q) => Undisturbed(q) BY <1>1 DEF SlotOK, Undisturbed
<1> QED BY <1>1, <1>2, <1>3

LEMMA QuietMove ==
    ASSUME BaseInv, UNCHANGED <<stores, rows, drawn, flight>>, CacheOK(typesys' \cup read'),
           NEW s \in Slots, NEW f, req' = [req EXCEPT ![s] = f], SlotOK(f),
           \A t \in Slots \ {s} : Apart(f, req[t])
    PROVE  BaseInv'
<1>1. /\ Grows /\ RowsOK' /\ StoresOK' /\ FlightOK' /\ Undisturbed(f) /\ Models' = Models
      /\ \A t \in Slots : Undisturbed(req[t])
  BY QuietKeeps DEF BaseInv, SlotsOK
<1>2. SlotOK(f)' BY <1>1, SlotStays
<1>3. SlotsOK' BY <1>1, <1>2, SlotMoves
<1> QED BY <1>1, <1>3, CachesStay DEF BaseInv

LEMMA QuietStay ==
    ASSUME BaseInv, UNCHANGED <<stores, rows, flight, req>>, drawn' \in {drawn, drawn + 1},
           typesys' \subseteq typesys, read' \subseteq read
    PROVE  BaseInv'
<1>1. /\ Grows /\ RowsOK' /\ StoresOK' /\ FlightOK' /\ Models' = Models
      /\ \A t \in Slots : Undisturbed(req[t])
  BY QuietKeeps DEF BaseInv, SlotsOK
<1>2. ASSUME NEW t \in Slots PROVE SlotOK(req[t])'
  <2>1. PICK q : q = req[t] OBVIOUS
  <2>2. SlotOK(q) /\ Undisturbed(q) BY <1>1, <2>1 DEF BaseInv, SlotsOK
  <2>3. SlotOK(q)' BY <1>1, <2>2, SlotStays
  <2> QED BY <2>1, <2>3 DEF SlotOK
<1>3. SlotsOK' BY <1>2 DEF BaseInv, SlotsOK, Apart
<1>4. CacheOK(typesys' \cup read') BY DEF BaseInv, CacheOK
<1> QED BY <1>1, <1>3, <1>4, CachesStay DEF BaseInv

(* A request is answered.                                                  *)
LEMMA IdleOK == SlotOK(Idle) /\ \A q : Apart(Idle, q)
BY DEF SlotOK, Apart, Idle, Looking, Leading, Holding

LEMMA Answers ==
    ASSUME BaseInv, UNCHANGED <<stores, rows, drawn, flight>>, CacheOK(typesys' \cup read'),
           NEW s \in Slots, Answer(s)
    PROVE  BaseInv'
BY IdleOK, QuietMove DEF Answer

LEMMA HasRecord ==
    ASSUME BaseInv, NEW s \in Slots, req[s].at # "idle"
    PROVE  req[s] \in Record /\ SlotOK(req[s])
BY DEF BaseInv, SlotsOK, SlotOK, Idle

(* A request goes on to a stage at which it holds nothing.                 *)
LEMMA GoesOn ==
    ASSUME BaseInv, UNCHANGED <<stores, rows, drawn, flight>>, CacheOK(typesys' \cup read'),
           NEW s \in Slots, req[s].at # "idle", NEW a \in {"deletingStore", "writingAssertions"}, Goto(s, a)
    PROVE  BaseInv'
<1>1. PICK q \in Record : q = req[s] /\ SlotOK(q) BY HasRecord
<1> DEFINE f == [q EXCEPT !.at = a]
<1>2. req' = [req EXCEPT ![s] = f] BY <1>1 DEF Goto
<1>3. f \in Record /\ f.at = a /\ f.since = q.since BY <1>1 DEF Record, Stages
<1>4. q.at # "idle" BY <1>1
<1> HIDE DEF f
<1>5. SlotOK(f) BY <1>1, <1>3, <1>4 DEF SlotOK, Looking, Leading, Holding
<1>6. \A p : Apart(f, p) BY <1>3 DEF Apart, Leading
<1> QED BY <1>2, <1>5, <1>6, QuietMove

LEMMA NewestFacts ==
    ASSUME RowsOK
    PROVE  Newest \in Models \cup {0} /\ Newest \in Nat /\ \A i \in Models \cup {0} : i <= Newest
<1>1. Models \subseteq 1..drawn /\ drawn \in Nat BY DEF RowsOK, Models, Row
<1>2. Models \cup {0} \subseteq 0..drawn BY <1>1
<1>3. IsFiniteSet(0..drawn) BY <1>1, FS_Interval
<1>4. IsFiniteSet(Models \cup {0}) BY <1>2, <1>3, FS_Subset
<1>5. Models \cup {0} \subseteq Nat BY <1>1
<1> QED BY <1>4, <1>5, MaxFacts DEF Newest

(* Requests begin.                                                         *)
LEMMA Begins ==
    ASSUME BaseInv, NEW s \in Slots, NEW id \in Nat, NEW op \in Ops, NEW a \in Starts,
           Begin(s, op, a, id),
           \/ drawn' = drawn /\ a \notin {"insertingStore", "insertingModel"}
           \/ drawn' = drawn + 1 /\ id = drawn'
    PROVE  BaseInv'
<1>4. PICK f : f = [at |-> a, op |-> op, id |-> id, model |-> NoModel, since |-> Newest] OBVIOUS
<1>1. req' = [req EXCEPT ![s] = f] /\ UNCHANGED <<stores, rows, flight, typesys, read>>
  BY <1>4 DEF Begin, Tables, Caches
<1>2. /\ Grows /\ RowsOK' /\ StoresOK' /\ FlightOK' /\ Models' = Models
      /\ \A t \in Slots : Undisturbed(req[t])
  BY <1>1, QuietKeeps DEF BaseInv, SlotsOK
<1>3. Newest \in Models \cup {0} /\ Newest \in Nat BY NewestFacts DEF BaseInv
<1>5. f \in Record /\ f.at = a /\ f.since = Newest /\ f.id = id
  BY <1>3, <1>4 DEF Record, ModelRec, NoModel, Stages
<1>6. drawn \in Nat /\ DOMAIN stores \subseteq 1..drawn /\ Models \subseteq 1..drawn
  BY DEF BaseInv, RowsOK, StoresOK, Models, Row
<1>7. a \in {"insertingStore", "insertingModel"}
        => id \in 1..drawn' /\ id \notin 1..drawn
  BY <1>6
<1>8. SlotOK(f)'
  <2>1. a \notin Looking \cup Holding \cup {"idle", "validating", "resolved"}
    BY DEF Looking, Leading, Holding, Starts
  <2> QED BY <1>1, <1>2, <1>3, <1>5, <1>6, <1>7, <2>1 DEF SlotOK, Starts
<1>9. ASSUME NEW t \in Slots \ {s} PROVE Apart(f, req[t])
  <2>1. SlotOK(req[t]) BY DEF BaseInv, SlotsOK
  <2>2. req[t].at \in {"insertingStore", "insertingModel"} => req[t].id \in 1..drawn
    BY <2>1 DEF SlotOK
  <2> QED BY <1>5, <1>7, <2>2 DEF Apart, Leading, Starts
<1>10. SlotsOK' BY <1>1, <1>2, <1>8, <1>9, SlotMoves
<1> QED BY <1>1, <1>2, <1>10, CachesSame, CachesStay DEF BaseInv

LEMMA CreateStoreStep == ASSUME BaseInv, NEW s \in Slots, CreateStore(s) PROVE BaseInv'
<1>1. req[s].at = "insertingStore" /\ UNCHANGED <<rows, flight, typesys, read, drawn>> /\ Answer(s)
  BY DEF CreateStore, At, Caches
<1>2. CASE UNCHANGED stores BY <1>1, <1>2, CachesSame, Answers
<1>3. CASE stores' = Put(stores, req[s].id, TRUE)
  <2>1. PICK q \in Record : q = req[s] /\ SlotOK(q) BY <1>1, HasRecord
  <2>2. Grows /\ RowsOK' /\ FlightOK' /\ Models' = Models BY <1>1, RowsStay
  <2>3. q.id \in 1..drawn /\ q.id \notin DOMAIN stores BY <1>1, <2>1 DEF SlotOK
  <2>4. stores' = [x \in DOMAIN stores \cup {q.id} |-> IF x = q.id THEN TRUE ELSE stores[x]]
    BY <1>3, <2>1 DEF Put
  <2>5. DOMAIN stores' = DOMAIN stores \cup {q.id} BY <2>4
  <2>6. StoresOK'
    <3>1. DOMAIN stores \subseteq 1..drawn /\ \A x \in DOMAIN stores : stores[x] \in BOOLEAN
      BY DEF BaseInv, StoresOK
    <3>2. DOMAIN stores' \subseteq 1..drawn' BY <1>1, <2>3, <2>5, <3>1
    <3>3. stores' \in [DOMAIN stores' -> BOOLEAN] BY <2>4, <2>5, <3>1
    <3> QED BY <3>2, <3>3 DEF StoresOK
  <2>7. ASSUME NEW t \in Slots \ {s} PROVE Undisturbed(req[t])
    <3>1. SlotOK(req[t]) /\ Apart(req[s], req[t]) BY DEF BaseInv, SlotsOK
    <3> QED BY <1>1, <2>1, <2>2, <2>5, <3>1 DEF SlotOK, Undisturbed, Apart
  <2>8. SlotOK(Idle)' /\ \A t \in Slots : Apart(Idle, req[t])
    BY IdleOK DEF SlotOK, Idle, Looking, Leading, Holding
  <2>9. SlotsOK' BY <1>1, <2>2, <2>7, <2>8, SlotMoves DEF Answer
  <2> QED BY <1>1, <2>2, <2>6, <2>9, CachesSame, CachesStay DEF BaseInv
<1> QED BY <1>2, <1>3 DEF CreateStore

LEMMA DeleteStoreStep == ASSUME BaseInv, NEW s \in Slots, DeleteStore(s) PROVE BaseInv'
<1>1. req[s].at = "deletingStore" /\ UNCHANGED <<rows, flight, typesys, read, drawn>> /\ Answer(s)
  BY DEF DeleteStore, At, Caches
<1>2. CASE UNCHANGED stores BY <1>1, <1>2, CachesSame, Answers
<1>3. CASE stores' = [stores EXCEPT ![req[s].id] = FALSE]
  <2>2. Grows /\ RowsOK' /\ FlightOK' /\ Models' = Models BY <1>1, RowsStay
  <2>3. DOMAIN stores' = DOMAIN stores BY <1>3
  <2>4. StoresOK'
    <3>1. stores' \in [DOMAIN stores -> BOOLEAN] BY <1>3 DEF BaseInv, StoresOK
    <3> QED BY <1>1, <2>3, <3>1 DEF BaseInv, StoresOK
  <2>5. \A t \in Slots : Undisturbed(req[t])
    BY <1>1, <2>2, <2>3 DEF BaseInv, SlotsOK, SlotOK, Undisturbed
  <2>6. SlotOK(Idle)' /\ \A t \in Slots : Apart(Idle, req[t])
    BY IdleOK DEF SlotOK, Idle, Looking, Leading, Holding
  <2>7. SlotsOK' BY <1>1, <2>2, <2>5, <2>6, SlotMoves DEF Answer
  <2> QED BY <1>1, <2>2, <2>4, <2>7, CachesSame, CachesStay DEF BaseInv
<1> QED BY <1>2, <1>3 DEF DeleteStore

LEMMA WriteModelStep == ASSUME BaseInv, NEW s \in Slots, WriteAuthorizationModel(s) PROVE BaseInv' /\ Grows
<1>1. req[s].at = "insertingModel" /\ UNCHANGED <<stores, flight, typesys, read, drawn>> /\ Answer(s)
  BY DEF WriteAuthorizationModel, At, Caches
<1>2. CASE UNCHANGED rows BY <1>1, <1>2, CachesSame, Answers, RowsStay
<1>3. CASE rows' = rows \cup {[id |-> req[s].id, type |-> Whole]}
  <2>1. PICK q \in Record : q = req[s] /\ SlotOK(q) BY <1>1, HasRecord
  <2>2. q.id \in 1..drawn /\ q.id \notin Models BY <1>1, <2>1 DEF SlotOK
  <2> DEFINE new == [id |-> q.id, type |-> Whole]
  <2>3. rows' = rows \cup {new} BY <1>3, <2>1
  <2>4. rows \subseteq Row /\ IsFiniteSet(rows) /\ drawn \in Nat /\ \A r \in rows : r.id <= drawn
    BY DEF BaseInv, RowsOK
  <2>5. new \in Row /\ new.id = q.id /\ new.type = Whole
    <3>1. Whole \in Types BY DEF Types
    <3>2. q.id \in Nat \ {0} BY <2>2, <2>4
    <3> QED BY <3>1, <3>2 DEF Row
  <2> HIDE DEF new
  <2>6. \A r \in rows : r.id # q.id BY <2>2 DEF Models
  <2>7. Models' = Models \cup {q.id} BY <2>3, <2>5 DEF Models
  <2>8. ASSUME NEW i \in Models PROVE TypesOf(i)' = TypesOf(i)
    <3>1. i # q.id BY <2>2
    <3>2. {r \in rows' : r.id = i} = {r \in rows : r.id = i} BY <2>3, <2>5, <3>1
    <3> QED BY <3>2 DEF TypesOf
  <2>9. Grows BY <1>1, <2>4, <2>7, <2>8 DEF Grows
  <2>10. RowsOK'
    <3>1. IsFiniteSet(rows') BY <2>3, <2>4, FS_AddElement
    <3>2. \A a, b \in rows' : a.id = b.id /\ a.type = Whole => b.type = Whole
      BY <2>3, <2>5, <2>6 DEF BaseInv, RowsOK
    <3>3. rows' \subseteq Row /\ \A r \in rows' : r.id <= drawn BY <2>2, <2>3, <2>4, <2>5
    <3> QED BY <1>1, <2>4, <3>1, <3>2, <3>3 DEF RowsOK
  <2>11. FlightOK'
    <3>1. ASSUME NEW k \in DOMAIN flight PROVE FoundOK(k, flight[k])'
      <4>1. PICK f : f = flight[k] OBVIOUS
      <4>2. FoundOK(k, f) BY <4>1 DEF BaseInv, FlightOK
      <4>3. FoundOK(k, f)' BY <2>9, <4>2, FoundStays
      <4> QED BY <1>1, <4>1, <4>3 DEF FoundOK
    <3> QED BY <1>1, <3>1 DEF BaseInv, FlightOK
  <2>12. ASSUME NEW t \in Slots \ {s} PROVE Undisturbed(req[t])
    <3>1. SlotOK(req[t]) /\ Apart(req[s], req[t]) BY DEF BaseInv, SlotsOK
    <3> QED BY <1>1, <2>1, <2>7, <3>1 DEF SlotOK, Undisturbed, Apart
  <2>13. SlotOK(Idle)' /\ \A t \in Slots : Apart(Idle, req[t])
    BY IdleOK DEF SlotOK, Idle, Looking, Leading, Holding
  <2>14. SlotsOK' BY <1>1, <2>9, <2>12, <2>13, SlotMoves DEF Answer
  <2>15. StoresOK' /\ CacheOK(typesys \cup read)'
    BY <1>1, <2>7, <2>9, CachesSame, CachesStay DEF BaseInv, StoresOK
  <2> QED BY <2>9, <2>10, <2>11, <2>14, <2>15 DEF BaseInv
<1> QED BY <1>2, <1>3 DEF WriteAuthorizationModel

(* A request is given a model.                                             *)
LEMMA HoldsModel ==
    ASSUME BaseInv, UNCHANGED <<stores, rows, drawn, flight>>, CacheOK(typesys' \cup read'),
           NEW s \in Slots, NEW f \in Record, req' = [req EXCEPT ![s] = f],
           f.since \in Models \cup {0}, f.at \in Holding, ModelOK(f.model),
           f.at # "answered" => Right(f.id, f.since, f.model)
    PROVE  BaseInv'
<1>1. f.at \notin Looking \cup {"insertingStore", "insertingModel"} BY DEF Looking, Leading, Holding
<1>2. SlotOK(f) BY <1>1 DEF SlotOK
<1>3. \A p : Apart(f, p) BY <1>1 DEF Apart, Looking
<1> QED BY <1>2, <1>3, QuietMove

LEMMA DeleteStoreExecuteStep == ASSUME BaseInv, NEW s \in Slots, DeleteStoreExecute(s) PROVE BaseInv'
<1>1. req[s].at # "idle" /\ UNCHANGED <<stores, rows, flight, typesys, read, drawn>>
  BY DEF DeleteStoreExecute, At, Caches, Tables
<1>2. Answer(s) \/ Goto(s, "deletingStore") BY DEF DeleteStoreExecute
<1> QED BY <1>1, <1>2, CachesSame, Answers, GoesOn

LEMMA ReadModelStep == ASSUME BaseInv, NEW s \in Slots, ReadAuthorizationModelExecute(s) PROVE BaseInv'
<1>1. req[s].at = "readingModel" /\ UNCHANGED <<stores, rows, flight, typesys, drawn>>
  BY DEF ReadAuthorizationModelExecute, At, Caches, Tables
<1>2. CASE Answer(s) /\ UNCHANGED read BY <1>1, <1>2, CachesSame, Answers
<1>3. PICK q \in Record : q = req[s] /\ SlotOK(q) BY <1>1, HasRecord
<1>4. PICK m : m = ReadThrough(q.id) OBVIOUS
<1>5. CASE /\ m # NoModel /\ req' = [req EXCEPT ![s].at = "answered", ![s].model = m]
           /\ read' = Keep(read, m)
  <2>1. q.id \in Nat BY DEF Record
  <2>2. m \in ModelRec /\ ModelOK(m) BY <1>4, <1>5, <2>1, ThroughFacts
  <2>8. CacheOK(typesys' \cup read') BY <1>1, <1>5, <2>2, KeepFacts DEF BaseInv
  <2>3. PICK f : f = [q EXCEPT !.at = "answered", !.model = m] OBVIOUS
  <2>4. f \in Record /\ f.at = "answered" /\ f.since = q.since /\ f.model = m
    BY <2>2, <2>3 DEF Record, Stages, Holding
  <2>5. f.since \in Models \cup {0} BY <1>1, <1>3, <2>4 DEF SlotOK
  <2>6. req' = [req EXCEPT ![s] = f] BY <1>3, <1>5, <2>3
  <2>7. f.at \in Holding BY <2>4 DEF Holding
  <2> QED BY <1>1, <2>2, <2>4, <2>5, <2>6, <2>7, <2>8, HoldsModel
<1> QED BY <1>2, <1>3, <1>4, <1>5 DEF ReadAuthorizationModelExecute, CachedReadAuthorizationModel

(* A request looks a model up: in the cache, with others, or for others.   *)
LEMMA ResolveStep == ASSUME BaseInv, NEW s \in Slots, Resolve(s) PROVE BaseInv'
<1>1. req[s].at = "resolving" /\ UNCHANGED <<stores, rows, typesys, read, drawn>>
  BY DEF Resolve, At, Tables
<1>2. PICK q \in Record : q = req[s] /\ SlotOK(q) BY <1>1, HasRecord
<1>3. PICK k : k = q.id OBVIOUS
<1>4. k \in Nat /\ q.since \in Models \cup {0} /\ q.since \in Nat
  BY <1>1, <1>2, <1>3 DEF Record, SlotOK
<1>5. CASE k \in Ids(typesys) /\ Hit(s, k)
  <2>0. CacheOK(typesys) BY DEF BaseInv, CacheOK
  <2>2. PICK m : m = Of(typesys, k) OBVIOUS
  <2>3. m \in ModelRec /\ ModelOK(m) /\ m.id = k BY <1>5, <2>0, <2>2, OfFacts
  <2>1. k # 0 BY <2>3 DEF ModelOK, BaseInv, RowsOK, Row, Models
  <2>4. PICK f : f = [q EXCEPT !.at = "resolved", !.model = m] OBVIOUS
  <2>5. f \in Record /\ f.at = "resolved" /\ f.since = q.since /\ f.model = m /\ f.id = k
    BY <1>3, <2>3, <2>4 DEF Record, Stages, Holding
  <2>6. req' = [req EXCEPT ![s] = f] BY <1>2, <1>5, <2>2, <2>4 DEF Hit
  <2>7. f.at \in Holding /\ Right(f.id, f.since, f.model)
    BY <2>1, <2>3, <2>5 DEF Holding, Right, Latest
  <2> QED BY <1>1, <1>4, <1>5, <2>3, <2>5, <2>6, <2>7, CachesSame, HoldsModel DEF Hit
<1>6. CASE k \in DOMAIN flight /\ Join(s, k)
  <2>1. PICK b : b = flight[k].since OBVIOUS
  <2>2. b \in Nat /\ b \in Models \cup {0}
    BY <1>6, <2>1 DEF BaseInv, FlightOK, Lookup, FoundOK
  <2>3. PICK f : f = [q EXCEPT !.at = "waiting", !.since = b] OBVIOUS
  <2>4. f \in Record /\ f.at = "waiting" /\ f.since = b /\ f.id = k
    BY <1>3, <2>2, <2>3 DEF Record, Stages
  <2>5. req' = [req EXCEPT ![s] = f] BY <1>2, <1>6, <2>1, <2>3 DEF Join
  <2>6. SlotOK(f) BY <1>6, <2>1, <2>2, <2>4 DEF SlotOK, Holding
  <2>7. \A p : Apart(f, p) BY <2>4 DEF Apart, Leading
  <2> QED BY <1>1, <1>6, <2>5, <2>6, <2>7, CachesSame, QuietMove DEF Join
<1>7. CASE k \notin DOMAIN flight /\ Lead(s, k)
  <2>1. PICK v : v = [since |-> Newest, err |-> FALSE, model |-> NoModel] OBVIOUS
  <2>2. Newest \in Models \cup {0} /\ Newest \in Nat /\ \A i \in Models \cup {0} : i <= Newest
    BY NewestFacts DEF BaseInv
  <2>3. v \in Lookup /\ v.since = Newest /\ v.model = NoModel
    BY <2>1, <2>2 DEF Lookup, ModelRec, NoModel
  <2>4. flight' = [x \in DOMAIN flight \cup {k} |-> IF x = k THEN v ELSE flight[x]]
    BY <1>7, <2>1 DEF Lead, Put
  <2>5. PICK f : f = [q EXCEPT !.at = "querying"] OBVIOUS
  <2>6. f \in Record /\ f.at = "querying" /\ f.since = q.since /\ f.id = k
    BY <1>3, <2>5 DEF Record, Stages
  <2>7. req' = [req EXCEPT ![s] = f] BY <1>2, <1>7, <2>5 DEF Lead, Goto
  <2>8. DOMAIN flight' = DOMAIN flight \cup {k} /\ flight'[k] = v
        /\ \A x \in DOMAIN flight : flight'[x] = flight[x]
    BY <1>7, <2>4
  <2>9. Grows /\ RowsOK' /\ StoresOK' /\ Models' = Models
    BY <1>1 DEF BaseInv, RowsOK, StoresOK, Models, Grows, TypesOf
  <2>10. FlightOK'
    <3>1. DOMAIN flight' \subseteq Nat /\ flight' \in [DOMAIN flight' -> Lookup]
      BY <1>4, <2>3, <2>4, <2>8 DEF BaseInv, FlightOK
    <3>2. FoundOK(k, v)' BY <2>2, <2>3, <2>9 DEF FoundOK
    <3>3. ASSUME NEW x \in DOMAIN flight PROVE FoundOK(x, flight[x])'
      <4>1. PICK g : g = flight[x] OBVIOUS
      <4>2. FoundOK(x, g) BY <4>1 DEF BaseInv, FlightOK
      <4>3. FoundOK(x, g)' BY <2>9, <4>2, FoundStays
      <4>4. flight'[x] = g BY <2>8, <4>1
      <4> QED BY <4>3, <4>4 DEF FoundOK
    <3>4. FoundOK(k, flight[k])' BY <2>8, <3>2 DEF FoundOK
    <3> QED BY <2>8, <3>1, <3>3, <3>4 DEF FlightOK
  <2>11. ASSUME NEW t \in Slots \ {s} PROVE Apart(f, req[t]) /\ Undisturbed(req[t])
    <3>1. SlotOK(req[t]) BY DEF BaseInv, SlotsOK
    <3>2. Undisturbed(req[t]) BY <1>1, <2>8, <2>9, <3>1 DEF SlotOK, Undisturbed
    <3>3. req[t].at \in Leading => req[t].id # k BY <1>7, <3>1 DEF SlotOK, Looking
    <3> QED BY <2>6, <3>2, <3>3 DEF Apart
  <2>12. SlotOK(f)' BY <1>4, <2>2, <2>3, <2>6, <2>8, <2>9 DEF SlotOK, Holding
  <2>13. SlotsOK' BY <2>7, <2>9, <2>11, <2>12, SlotMoves
  <2> QED BY <1>1, <2>9, <2>10, <2>13, CachesSame, CachesStay DEF BaseInv
<1> QED BY <1>2, <1>3, <1>5, <1>6, <1>7 DEF Resolve

(* The first runs the query, on the table as it is then.                   *)
LEMMA QueryStep == ASSUME BaseInv, NEW s \in Slots, Query(s) PROVE BaseInv'
<1>1. req[s].at = "querying" /\ UNCHANGED <<stores, rows, typesys, drawn>>
  BY DEF Query, At, Tables
<1>2. PICK q \in Record : q = req[s] /\ SlotOK(q) BY <1>1, HasRecord
<1>3. PICK k : k = q.id OBVIOUS
<1>4. /\ k \in Nat /\ k \in DOMAIN flight /\ q.since \in Models \cup {0}
      /\ q.since <= flight[k].since
  BY <1>1, <1>2, <1>3 DEF Record, SlotOK, Looking, Leading
<1>5. PICK g : g = flight[k] OBVIOUS
<1>6. g \in Lookup /\ FoundOK(k, g) BY <1>4, <1>5 DEF BaseInv, FlightOK
<1>7. PICK m : m = IF k = Latest THEN FindLatestAuthorizationModel ELSE ReadThrough(k)
  OBVIOUS
<1>8. m = NoModel \/ (m \in ModelRec /\ ModelOK(m) /\ Right(k, g.since, m))
  <2>1. CASE k = Latest
    <3>1. \A i \in Models \cup {0} : i \in Nat BY DEF BaseInv, RowsOK, Row, Models
    <3>2. m = NoModel \/ (m \in ModelRec /\ ModelOK(m) /\ \A i \in Models : i <= m.id)
      BY <1>7, <2>1, LatestFacts DEF BaseInv
    <3>3. m \in ModelRec => m.id \in Nat BY DEF ModelRec
    <3>4. g.since \in Models \cup {0} BY <1>6 DEF FoundOK
    <3>5. m = NoModel \/ (m \in ModelRec /\ ModelOK(m) /\ m.id >= g.since)
      BY <3>1, <3>2, <3>3, <3>4
    <3> QED BY <2>1, <3>5 DEF Right
  <2>2. CASE k # Latest
    <3>1. m = ReadThrough(k) BY <1>7, <2>2
    <3>3. m = NoModel \/ (m \in ModelRec /\ ModelOK(m) /\ m.id = k) BY <1>4, <3>1, ThroughFacts
    <3> QED BY <2>2, <3>3 DEF Right
  <2> QED BY <2>1, <2>2
<1>9. m \in ModelRec
  <2>1. NoModel \in ModelRec BY DEF ModelRec, NoModel
  <2> QED BY <1>8, <2>1
<1>10. PICK v : flight' = [flight EXCEPT ![k] = v] /\ v \in Lookup /\ v.since = g.since /\ FoundOK(k, v)
  <2>1. \/ flight' = [flight EXCEPT ![k].model = m] \/ flight' = [flight EXCEPT ![k].err = TRUE]
    BY <1>2, <1>3, <1>7 DEF Query
  <2>2. CASE flight' = [flight EXCEPT ![k].model = m]
    <3>1. PICK v : v = [g EXCEPT !.model = m] OBVIOUS
    <3>2. v \in Lookup /\ v.since = g.since /\ v.model = m BY <1>6, <1>9, <3>1 DEF Lookup
    <3>3. FoundOK(k, v) BY <1>6, <1>8, <3>2 DEF FoundOK
    <3> QED BY <1>5, <2>2, <3>1, <3>2, <3>3
  <2>3. CASE flight' = [flight EXCEPT ![k].err = TRUE]
    <3>1. PICK v : v = [g EXCEPT !.err = TRUE] OBVIOUS
    <3>2. v \in Lookup /\ v.since = g.since /\ v.model = g.model BY <1>6, <3>1 DEF Lookup
    <3>3. FoundOK(k, v) BY <1>6, <3>2 DEF FoundOK
    <3> QED BY <1>5, <2>3, <3>1, <3>2, <3>3
  <2> QED BY <2>1, <2>2, <2>3
<1>11. DOMAIN flight' = DOMAIN flight /\ flight'[k] = v
       /\ \A x \in DOMAIN flight \ {k} : flight'[x] = flight[x]
  BY <1>4, <1>10
<1>12. Grows /\ RowsOK' /\ StoresOK' /\ Models' = Models
  BY <1>1 DEF BaseInv, RowsOK, StoresOK, Models, Grows, TypesOf
<1>13. FlightOK'
  <2>1. DOMAIN flight' \subseteq Nat /\ flight' \in [DOMAIN flight' -> Lookup]
    BY <1>10, <1>11 DEF BaseInv, FlightOK
  <2>2. ASSUME NEW x \in DOMAIN flight PROVE FoundOK(x, flight[x])'
    <3>1. PICK h : h = flight'[x] OBVIOUS
    <3>2. FoundOK(x, h) BY <1>10, <1>11, <3>1 DEF BaseInv, FlightOK
    <3>3. FoundOK(x, h)' BY <1>12, <3>2, FoundStays
    <3> QED BY <3>1, <3>3 DEF FoundOK
  <2> QED BY <1>11, <2>1, <2>2 DEF FlightOK
<1>14. PICK f : f = [q EXCEPT !.at = "landing"] OBVIOUS
<1>15. f \in Record /\ f.at = "landing" /\ f.since = q.since /\ f.id = k
  BY <1>3, <1>14 DEF Record, Stages
<1>16. req' = [req EXCEPT ![s] = f] BY <1>2, <1>14 DEF Query, Goto
<1>17. ASSUME NEW t \in Slots \ {s} PROVE Apart(f, req[t]) /\ Undisturbed(req[t])
  <2>1. SlotOK(req[t]) /\ Apart(req[s], req[t]) BY DEF BaseInv, SlotsOK
  <2>2. Undisturbed(req[t])
    <3>1. \A x \in DOMAIN flight : flight'[x].since = flight[x].since
      BY <1>5, <1>10, <1>11
    <3> QED BY <1>1, <1>11, <1>12, <2>1, <3>1 DEF SlotOK, Undisturbed
  <2>3. Apart(f, req[t]) BY <1>1, <1>2, <1>3, <1>15, <2>1 DEF Apart, Leading
  <2> QED BY <2>2, <2>3
<1>18. SlotOK(f)' BY <1>4, <1>5, <1>10, <1>11, <1>12, <1>15 DEF SlotOK, Holding
<1>19. SlotsOK' BY <1>12, <1>16, <1>17, <1>18, SlotMoves
<1>20. CacheOK(typesys' \cup read')
  <2>1. CASE UNCHANGED read BY <1>1, <2>1, CachesSame
  <2>2. CASE read' = Keep(read, v.model) /\ v.model # NoModel
    <3>1. v.model \in ModelRec /\ ModelOK(v.model) BY <1>10, <2>2 DEF Lookup, FoundOK
    <3> QED BY <1>1, <2>2, <3>1, KeepFacts DEF BaseInv
  <2> QED BY <1>2, <1>3, <1>11, <2>1, <2>2 DEF Query
<1> QED BY <1>12, <1>13, <1>19, <1>20, CachesStay DEF BaseInv

(* All who share a lookup are given what it found.                         *)
LEMMA LandStep == ASSUME BaseInv, NEW s \in Slots, Land(s) PROVE BaseInv'
<1>1. req[s].at = "landing" /\ UNCHANGED <<stores, rows, typesys, read, drawn>>
  BY DEF Land, Landed, At, Tables
<1>2. PICK k : k = req[s].id OBVIOUS
<1>3. PICK g : g = flight[k] OBVIOUS
<1>4. k \in Nat /\ k \in DOMAIN flight /\ g \in Lookup /\ FoundOK(k, g)
  <2>1. req[s] \in Record /\ SlotOK(req[s]) BY <1>1, HasRecord
  <2>2. k \in Nat /\ k \in DOMAIN flight BY <1>1, <1>2, <2>1 DEF Record, SlotOK, Looking, Leading
  <2> QED BY <1>3, <2>2 DEF BaseInv, FlightOK
<1> DEFINE fails == g.err \/ g.model = NoModel
<1>5. /\ \A t \in Slots : req'[t] = IF t \in Sharing(s)
                                      THEN IF fails THEN Idle
                                           ELSE [req[t] EXCEPT !.at = "validating", !.model = g.model]
                                      ELSE req[t]
      /\ DOMAIN req' = Slots /\ req' = [t \in Slots |-> req'[t]]
  BY <1>2, <1>3 DEF Land, Landed
<1>6. flight' = [x \in DOMAIN flight \ {k} |-> flight[x]] BY <1>2 DEF Land, Landed
<1>7. DOMAIN flight' = DOMAIN flight \ {k} /\ \A x \in DOMAIN flight \ {k} : flight'[x] = flight[x]
  BY <1>6
<1>8. Grows /\ RowsOK' /\ StoresOK' /\ Models' = Models
  BY <1>1 DEF BaseInv, RowsOK, StoresOK, Models, Grows, TypesOf
<1>9. FlightOK'
  <2>1. DOMAIN flight' \subseteq Nat /\ flight' \in [DOMAIN flight' -> Lookup]
    BY <1>6, <1>7 DEF BaseInv, FlightOK
  <2>2. ASSUME NEW x \in DOMAIN flight' PROVE FoundOK(x, flight[x])'
    <3>1. PICK h : h = flight[x] OBVIOUS
    <3>2. FoundOK(x, h) BY <1>7, <3>1 DEF BaseInv, FlightOK
    <3>3. FoundOK(x, h)' BY <1>8, <3>2, FoundStays
    <3>4. flight'[x] = h BY <1>7, <3>1
    <3> QED BY <3>3, <3>4 DEF FoundOK
  <2> QED BY <2>1, <2>2 DEF FlightOK
<1>10. ASSUME NEW t \in Slots \ Sharing(s)
       PROVE  SlotOK(req[t])'
  <2>1. PICK q : q = req[t] OBVIOUS
  <2>2. SlotOK(q) /\ Apart(req[s], q) /\ t # s BY <2>1 DEF BaseInv, SlotsOK, Sharing
  <2>3. q.at \in Looking => q.id # k
    <3>1. q.at = "waiting" => q.id # k BY <1>2, <2>1 DEF Sharing, At
    <3>2. q.at \in Leading => q.id # k BY <1>1, <1>2, <2>2 DEF Apart, Leading
    <3> QED BY <3>1, <3>2 DEF Looking
  <2>4. Undisturbed(q) BY <1>1, <1>7, <1>8, <2>2, <2>3 DEF SlotOK, Undisturbed
  <2>5. SlotOK(q)' BY <1>8, <2>2, <2>4, SlotStays
  <2>6. req'[t] = q BY <1>5, <2>1
  <2> QED BY <2>5, <2>6 DEF SlotOK
<1>11. ASSUME NEW t \in Sharing(s), ~fails
       PROVE  SlotOK(req[t])' /\ req'[t].at = "validating"
  <2>1. PICK q : q = req[t] OBVIOUS
  <2>2. t \in Slots /\ q.at \in {"waiting", "landing"} /\ q.id = k
    BY <1>1, <1>2, <2>1 DEF Sharing, At
  <2>3. q \in Record /\ SlotOK(q) BY <2>1, <2>2, HasRecord
  <2>4. PICK f : f = [q EXCEPT !.at = "validating", !.model = g.model] OBVIOUS
  <2>5. req'[t] = f BY <1>5, <1>11, <2>1, <2>2, <2>4
  <2>6. f \in Record /\ f.at = "validating" /\ f.since = q.since /\ f.id = k /\ f.model = g.model
    BY <1>4, <2>2, <2>3, <2>4 DEF Record, Stages, Holding, Lookup
  <2>7. q.since \in Models \cup {0} /\ q.since <= g.since
    BY <1>3, <2>2, <2>3 DEF SlotOK, Looking, Leading
  <2>8. ModelOK(g.model) /\ Right(k, g.since, g.model) BY <1>4, <1>11 DEF FoundOK
  <2>9. Right(k, q.since, g.model)
    <3>1. q.since \in Nat /\ g.since \in Nat /\ g.model.id \in Nat
      BY <1>4, <2>3 DEF Record, Lookup, ModelRec
    <3> QED BY <2>7, <2>8, <3>1 DEF Right
  <2>10. ModelOK(f.model)' BY <1>1, <2>6, <2>8 DEF ModelOK, Models, TypesOf
  <2>11. SlotOK(f)' BY <1>8, <2>6, <2>7, <2>9, <2>10 DEF SlotOK, Looking, Leading
  <2> QED BY <2>5, <2>6, <2>11 DEF SlotOK
<1>12. ASSUME NEW t \in Sharing(s), fails PROVE SlotOK(req[t])' /\ req'[t].at = "idle"
  <2>1. req'[t] = Idle BY <1>5, <1>12 DEF Sharing
  <2> QED BY <2>1 DEF SlotOK, Idle, Looking, Leading, Holding
<1> HIDE DEF fails
<1>13. \A t \in Slots : SlotOK(req[t])' BY <1>10, <1>11, <1>12
<1>14. req' \in [Slots -> {Idle} \cup Record]
  <2>1. \A t \in Slots : req'[t] \in {Idle} \cup Record BY <1>13 DEF SlotOK
  <2> QED BY <1>5, <2>1
<1>15. ASSUME NEW t \in Slots, NEW u \in Slots, t # u PROVE Apart(req[t], req[u])'
  <2>1. CASE t \in Sharing(s)
    <3>1. req'[t].at \in {"validating", "idle"} BY <1>11, <1>12, <2>1
    <3> QED BY <3>1 DEF Apart, Leading
  <2>2. CASE u \in Sharing(s)
    <3>1. req'[u].at \in {"validating", "idle"} BY <1>11, <1>12, <2>2
    <3> QED BY <3>1 DEF Apart, Leading
  <2>3. CASE t \notin Sharing(s) /\ u \notin Sharing(s)
    <3>1. req'[t] = req[t] /\ req'[u] = req[u] BY <1>5, <2>3
    <3>2. Apart(req[t], req[u]) BY <1>15 DEF BaseInv, SlotsOK
    <3> QED BY <3>1, <3>2 DEF Apart
  <2> QED BY <2>1, <2>2, <2>3
<1>16. SlotsOK' BY <1>13, <1>14, <1>15 DEF SlotsOK
<1> QED BY <1>1, <1>8, <1>9, <1>16, CachesSame, CachesStay DEF BaseInv

LEMMA ValidateStep == ASSUME BaseInv, NEW s \in Slots, Validate(s) PROVE BaseInv'
<1>1. req[s].at = "validating" /\ UNCHANGED <<stores, rows, read, drawn, flight>>
  BY DEF Validate, At, Tables, Hit
<1>2. CASE Answer(s) /\ UNCHANGED typesys BY <1>1, <1>2, CachesSame, Answers
<1>3. PICK q \in Record : q = req[s] /\ SlotOK(q) BY <1>1, HasRecord
<1>4. ModelOK(q.model) /\ Right(q.id, q.since, q.model) /\ q.since \in Models \cup {0}
  BY <1>1, <1>3 DEF SlotOK, Holding
<1>5. CASE Goto(s, "resolved") /\ typesys' = Keep(typesys, q.model)
  <2>1. PICK f : f = [q EXCEPT !.at = "resolved"] OBVIOUS
  <2>2. /\ f \in Record /\ f.at = "resolved" /\ f.since = q.since /\ f.id = q.id /\ f.model = q.model
        /\ f.at \in Holding
    BY <2>1 DEF Record, Stages, Holding
  <2>3. req' = [req EXCEPT ![s] = f] BY <1>3, <1>5, <2>1 DEF Goto
  <2>4. q.model \in ModelRec BY DEF Record
  <2>5. CacheOK(typesys' \cup read') BY <1>1, <1>4, <1>5, <2>4, KeepFacts DEF BaseInv
  <2> QED BY <1>1, <1>4, <2>2, <2>3, <2>5, HoldsModel
<1>6. CASE q.model.id \in Ids(typesys) /\ Hit(s, q.model.id) /\ UNCHANGED typesys
  <2>1. CacheOK(typesys) BY DEF BaseInv, CacheOK
  <2>2. PICK m : m = Of(typesys, q.model.id) OBVIOUS
  <2>3. m \in ModelRec /\ ModelOK(m) /\ m.id = q.model.id BY <1>6, <2>1, <2>2, OfFacts
  <2>4. PICK f : f = [q EXCEPT !.at = "resolved", !.model = m] OBVIOUS
  <2>5. /\ f \in Record /\ f.at = "resolved" /\ f.since = q.since /\ f.id = q.id /\ f.model = m
        /\ f.at \in Holding
    BY <2>3, <2>4 DEF Record, Stages, Holding
  <2>6. req' = [req EXCEPT ![s] = f] BY <1>3, <1>6, <2>2, <2>4 DEF Hit
  <2>7. Right(f.id, f.since, f.model) BY <1>4, <2>3, <2>5 DEF Right
  <2> QED BY <1>1, <1>4, <1>6, <2>3, <2>5, <2>6, <2>7, CachesSame, HoldsModel
<1> QED BY <1>2, <1>3, <1>5, <1>6 DEF Validate

LEMMA WriteAssertionsStep ==
    ASSUME BaseInv, NEW s \in Slots, WriteAssertionsExecute(s) \/ WriteAssertions(s)
    PROVE  BaseInv'
<1>1. req[s].at # "idle" /\ UNCHANGED <<stores, rows, flight, typesys, drawn>>
  BY DEF WriteAssertionsExecute, WriteAssertions, At, Caches, Tables
<1>2. Answer(s) \/ Goto(s, "writingAssertions")
  BY DEF WriteAssertionsExecute, WriteAssertions, Goto
<1>3. CASE UNCHANGED read BY <1>1, <1>2, <1>3, CachesSame, Answers, GoesOn
<1>4. CASE req[s].at = "resolved" /\ read' = Keep(read, ReadThrough(req[s].model.id))
  <2>1. ModelOK(req[s].model) BY <1>1, <1>4, HasRecord DEF SlotOK, Holding
  <2>2. PICK k : k = req[s].model.id OBVIOUS
  <2>3. k \in Models /\ k \in Nat BY <2>1, <2>2 DEF ModelOK, BaseInv, RowsOK, Row, Models
  <2>4. PICK m : m = ReadThrough(k) OBVIOUS
  <2>5. m \in ModelRec /\ ModelOK(m) BY <2>3, <2>4, ThroughFacts
  <2>6. CacheOK(typesys' \cup read') BY <1>1, <1>4, <2>2, <2>4, <2>5, KeepFacts DEF BaseInv
  <2> QED BY <1>1, <1>2, <2>6, Answers, GoesOn
<1> QED BY <1>3, <1>4 DEF WriteAssertionsExecute, WriteAssertions, At, Caches

LEMMA HandleStep ==
    ASSUME BaseInv, NEW s \in Slots, NEW r \in Requests, Handle(s, r)
    PROVE  BaseInv'
<1>1. r.id \in Nat BY CatalogAssumption
<1>2. drawn \in Nat BY DEF BaseInv, RowsOK
<1>3. CASE CreateStoreExecute(s)
  <2>1. drawn' = drawn + 1 /\ drawn' \in Nat /\ Begin(s, "createStore", "insertingStore", drawn')
    BY <1>2, <1>3 DEF CreateStoreExecute
  <2>2. PICK id \in Nat : id = drawn' BY <2>1
  <2>3. "createStore" \in Ops /\ "insertingStore" \in Starts BY DEF Ops, Starts
  <2> QED BY <2>1, <2>2, <2>3, Begins
<1>4. CASE WriteAuthorizationModelExecute(s)
  <2>1. drawn' = drawn + 1 /\ drawn' \in Nat BY <1>2, <1>4 DEF WriteAuthorizationModelExecute
  <2>2. PICK id \in Nat : id = drawn' BY <2>1
  <2>3. "writeModel" \in Ops /\ "insertingModel" \in Starts BY DEF Ops, Starts
  <2>4. CASE Begin(s, "writeModel", "insertingModel", drawn') BY <2>1, <2>2, <2>3, <2>4, Begins
  <2>5. CASE UNCHANGED <<Tables, Caches, req, list, faults>>
    BY <2>1, <2>5, QuietStay DEF Tables, Caches
  <2> QED BY <1>4, <2>4, <2>5 DEF WriteAuthorizationModelExecute
<1>5. ASSUME NEW op \in Ops, NEW a \in Starts \ {"insertingStore", "insertingModel"},
             Begin(s, op, a, r.id), UNCHANGED drawn
      PROVE  BaseInv'
  <2>1. PICK id \in Nat : id = r.id BY <1>1
  <2> QED BY <1>5, <2>1, Begins
<1>6. /\ {"deleteStore", "getStore", "readModel", "query", "writeAssertions", "readAssertions"} \subseteq Ops
      /\ {"gettingStore", "readingModel", "resolving"} \subseteq Starts \ {"insertingStore", "insertingModel"}
  BY DEF Ops, Starts
<1>7. CASE HandleDeleteStore(s, r.id) \/ HandleGetStore(s, r.id)
  BY <1>5, <1>6, <1>7 DEF HandleDeleteStore, HandleGetStore
<1>8. CASE HandleReadAuthorizationModel(s, r.id)
  BY <1>5, <1>6, <1>8 DEF HandleReadAuthorizationModel
<1>9. CASE HandleQuery(s, r.id) \/ HandleWriteAssertions(s, r.id) \/ HandleReadAssertions(s, r.id)
  BY <1>5, <1>6, <1>9 DEF HandleQuery, HandleWriteAssertions, HandleReadAssertions
<1> QED BY <1>3, <1>4, <1>7, <1>8, <1>9 DEF Handle, HandleCreateStore, HandleWriteAuthorizationModel

LEMMA ServeStep == ASSUME BaseInv, NEW s \in Slots, Serve(s) PROVE BaseInv'
<1>1. CASE GetStoreExecute(s) \/ Answered(s) \/ QueryAnswered(s) \/ ReadAssertionsExecute(s)
  <2>1. Answer(s) /\ UNCHANGED <<stores, rows, flight, typesys, read, drawn>>
    BY <1>1 DEF GetStoreExecute, Answered, QueryAnswered, ReadAssertionsExecute, Caches, Tables
  <2> QED BY <2>1, CachesSame, Answers
<1> QED BY <1>1, CreateStoreStep, DeleteStoreExecuteStep, DeleteStoreStep, WriteModelStep,
           ReadModelStep, ResolveStep, QueryStep, LandStep, ValidateStep, WriteAssertionsStep DEF Serve

LEMMA BaseInvStep == BaseInv /\ [CatalogNext]_catalogVars => BaseInv'
<1> SUFFICES ASSUME BaseInv, [CatalogNext]_catalogVars PROVE BaseInv'
  OBVIOUS
<1>1. CASE UNCHANGED catalogVars BY <1>1, QuietStay DEF catalogVars
<1>2. CASE Evict
  <2>1. UNCHANGED <<stores, rows, flight, req, drawn>> /\ typesys' \subseteq typesys /\ read' \subseteq read
    BY <1>2 DEF Evict, Tables
  <2> QED BY <2>1, QuietStay
<1>3. CASE HandleListStores \/ HandleReadAuthorizationModels \/ ListStoresExecute
           \/ ReadAuthorizationModelsExecute
  <2>1. UNCHANGED <<stores, rows, flight, req, drawn, typesys, read>>
    BY <1>3 DEF HandleListStores, HandleReadAuthorizationModels, Listing, ListStoresExecute,
                ReadAuthorizationModelsExecute, NextPage, Tables, Caches
  <2> QED BY <2>1, QuietStay
<1> QED BY <1>1, <1>2, <1>3, ServeStep, HandleStep DEF CatalogNext

LEMMA BaseInvInit == CatalogInit => BaseInv
<1> SUFFICES ASSUME CatalogInit PROVE BaseInv
  OBVIOUS
<1> DEFINE S == Stores0 \cup {r.id : r \in Rows0} \cup {0}
<1> DEFINE I == {r.id : r \in Rows0}
<1>0. I \subseteq Nat \ {0}
  <2>1. ASSUME NEW r \in Rows0 PROVE r.id \in Nat \ {0} BY CatalogAssumption
  <2> QED BY <2>1
<1>1. S \subseteq Nat
  <2>1. Stores0 \subseteq Nat BY CatalogAssumption
  <2>2. S = Stores0 \cup I \cup {0} OBVIOUS
  <2> HIDE DEF S, I
  <2> QED BY <1>0, <2>1, <2>2
<1>2. IsFiniteSet(I)
  <2> DEFINE g == [r \in Rows0 |-> r.id]
  <2>1. g \in Surjection(Rows0, I) BY DEF Surjection
  <2>2. IsFiniteSet(Rows0) BY CatalogAssumption
  <2> HIDE DEF I, g
  <2> QED BY <2>1, <2>2, FS_Surjection
<1>3. IsFiniteSet(S)
  <2>1. IsFiniteSet(Stores0 \cup {r.id : r \in Rows0}) BY <1>2, CatalogAssumption, FS_Union
  <2> QED BY <2>1, FS_AddElement
<1>4. First \in Nat /\ \A i \in S : i <= First
  <2>1. First = Max(S) BY DEF First
  <2>2. S # {} OBVIOUS
  <2> HIDE DEF S
  <2> QED BY <1>1, <1>3, <2>1, <2>2, MaxFacts
<1>5. RowsOK
  <2>1. rows \subseteq Row BY CatalogAssumption DEF CatalogInit, Row, Types
  <2>2. drawn \in Nat /\ \A r \in rows : r.id <= drawn BY <1>4 DEF CatalogInit
  <2> QED BY <2>1, <2>2, CatalogAssumption DEF CatalogInit, RowsOK
<1>6. StoresOK
  <2>1. DOMAIN stores = Stores0 /\ stores \in [Stores0 -> BOOLEAN] BY DEF CatalogInit
  <2>2. \A i \in Stores0 : i \in 1..drawn BY <1>1, <1>4, CatalogAssumption DEF CatalogInit
  <2> QED BY <2>1, <2>2 DEF StoresOK
<1>7. FlightOK
  <2>1. DOMAIN flight = {} BY DEF CatalogInit
  <2> QED BY <2>1 DEF FlightOK, CatalogInit
<1>8. SlotsOK
  <2>1. \A s \in Slots : req[s] = Idle BY DEF CatalogInit
  <2>2. req \in [Slots -> {Idle} \cup Record] BY DEF CatalogInit
  <2> QED BY <2>1, <2>2, IdleOK DEF SlotsOK
<1> QED BY <1>5, <1>6, <1>7, <1>8 DEF BaseInv, CatalogInit, CacheOK

(* Whatever is created, looked up together, evicted or failing, a request  *)
(* for the latest model gets none older than the newest when its lookup    *)
(* began, one for a model by name that model, and both the whole of it.    *)
THEOREM ModelsAreResolvedRight == CatalogSpec => []ResolvedIsRight
<1>1. BaseInv => ResolvedIsRight
  <2> SUFFICES ASSUME BaseInv, NEW s \in Slots
               PROVE  /\ At(s, "resolved") =>
                           IF req[s].id = Latest THEN req[s].model.id >= req[s].since
                                                 ELSE req[s].model.id = req[s].id
                      /\ req[s].at \in {"resolved", "answered"} =>
                           req[s].model.types = {r.type : r \in {r \in rows : r.id = req[s].model.id}}
    BY DEF ResolvedIsRight
  <2>1. SlotOK(req[s]) BY DEF BaseInv, SlotsOK
  <2> QED BY <2>1 DEF SlotOK, At, Right, ModelOK, TypesOf, Holding
<1> QED BY <1>1, BaseInvInit, BaseInvStep, PTL DEF CatalogSpec

-----------------------------------------------------------------------------
(* Clients that page through stores or models. *)

ListRec == [at : {"paging", "done"}, kind : {"stores", "models"}, token : Nat,
            got : Seq(Nat), must : SUBSET Nat]

Order(kind) ==
    IF kind = "stores" THEN {p \in Nat \X Nat : p[1] < p[2]} ELSE {p \in Nat \X Nat : p[1] > p[2]}
Ahead(l, x) == l.token = 0 \/ <<x, l.token>> \notin Order(l.kind)

(* What a client has got lies before its token, and what it must get and   *)
(* still can lies on it or behind.                                         *)
PageOK(l, C) ==
    /\ \A i, j \in 1..Len(l.got) : i < j => l.got[i] # l.got[j]
    /\ l.at = "paging" => \A i \in 1..Len(l.got) : ~Ahead(l, l.got[i])
    /\ \A x \in l.must \cap C : \/ \E i \in 1..Len(l.got) : l.got[i] = x
                                \/ l.at = "paging" /\ Ahead(l, x)

Known(kind) == IF kind = "stores" THEN DOMAIN stores ELSE Models
Current(kind) == IF kind = "stores" THEN LiveStores ELSE Models
ListOK == list = NoList \/ (/\ list \in ListRec /\ list.must \subseteq Known(list.kind)
                            /\ PageOK(list, Current(list.kind)))

(* What a client has got, and the first elements of what was found.        *)
LEMMA GetsMore ==
    ASSUME NEW h \in Seq(Nat), NEW found \in Seq(Nat), NEW n \in 0..Len(found),
           NEW g, g = h \o SubSeq(found, 1, n)
    PROVE  /\ g \in Seq(Nat) /\ Len(g) = Len(h) + n
           /\ \A i \in 1..Len(h) : i \in 1..Len(g) /\ g[i] = h[i]
           /\ \A i \in 1..n : Len(h) + i \in 1..Len(g) /\ g[Len(h) + i] = found[i]
           /\ \A i \in 1..Len(g) : i \notin 1..Len(h) => i - Len(h) \in 1..n /\ g[i] = found[i - Len(h)]
<1>1. PICK p : p = SubSeq(found, 1, n) OBVIOUS
<1>2. p \in Seq(Nat) /\ Len(p) = n /\ \A i \in 1..n : p[i] = found[i] BY <1>1
<1>3. g = h \o p BY <1>1
<1>4. g \in Seq(Nat) /\ Len(g) = Len(h) + Len(p) BY <1>2, <1>3
<1>5. \A i \in 1..Len(g) : g[i] = IF i <= Len(h) THEN h[i] ELSE p[i - Len(h)] BY <1>2, <1>3
<1>6. PICK a \in Nat : a = Len(h) OBVIOUS
<1>7. n \in Nat /\ Len(g) = a + n BY <1>2, <1>4, <1>6
<1>8. \A i \in 1..a : i \in 1..(a + n) /\ i <= a BY <1>7
<1>9. \A i \in 1..n : a + i \in 1..(a + n) /\ ~(a + i <= a) /\ (a + i) - a = i BY <1>7
<1>10. \A i \in 1..(a + n) : i \notin 1..a => i - a \in 1..n /\ ~(i <= a) BY <1>7
<1>11. \A i \in 1..a : i \in 1..Len(g) /\ g[i] = h[i] BY <1>5, <1>6, <1>7, <1>8
<1>12. \A i \in 1..n : a + i \in 1..Len(g) /\ g[a + i] = found[i] BY <1>2, <1>5, <1>6, <1>7, <1>9
<1>13. \A i \in 1..Len(g) : i \notin 1..a => i - a \in 1..n /\ g[i] = found[i - a]
  BY <1>2, <1>5, <1>6, <1>7, <1>10
<1> QED BY <1>2, <1>4, <1>6, <1>11, <1>12, <1>13

Remaining(l, C) == {x \in C : Ahead(l, x)}
Found(l, C, found) ==
    /\ found \in Seq(Remaining(l, C))
    /\ \A i, j \in 1..Len(found) : i < j => <<found[i], found[j]>> \in Order(l.kind)
    /\ \A x \in Remaining(l, C) : \E i \in 1..Len(found) : found[i] = x
Paged(found) == IF Len(found) > PageSize THEN PageSize ELSE Len(found)
Turned(l, found) ==
    [l EXCEPT !.got = @ \o SubSeq(found, 1, Paged(found)),
              !.token = IF Len(found) > PageSize THEN found[PageSize + 1] ELSE 0,
              !.at = IF Len(found) > PageSize THEN "paging" ELSE "done"]

(* One page more: what is left, in its order, up to the size of a page.    *)
LEMMA TurnsPage ==
    ASSUME NEW l \in ListRec, l.at = "paging", NEW C \in SUBSET (Nat \ {0}), PageOK(l, C),
           NEW found, Found(l, C, found)
    PROVE  /\ Turned(l, found) \in ListRec /\ PageOK(Turned(l, found), C)
           /\ Turned(l, found).kind = l.kind /\ Turned(l, found).must = l.must
<1>1. PageSize \in Nat /\ 1 <= PageSize BY CatalogAssumption
<1>0. PICK n : n = Paged(found) OBVIOUS
<1>3. \A i \in 1..Len(found) : found[i] \in C /\ Ahead(l, found[i]) /\ found[i] \in Nat /\ found[i] # 0
  <2>1. found \in Seq(Remaining(l, C)) BY DEF Found
  <2>2. \A i \in 1..Len(found) : found[i] \in Remaining(l, C) BY <2>1
  <2> QED BY <2>2 DEF Remaining
<1>2. Len(found) \in Nat /\ n \in Nat /\ n <= Len(found) /\ n <= PageSize BY <1>0, <1>1 DEF Paged, Found
<1>4. found \in Seq(Nat)
  <2>1. found \in Seq(Remaining(l, C)) BY DEF Found
  <2> QED BY <1>3, <2>1
<1>5. l.got \in Seq(Nat) /\ l.token \in Nat /\ l.kind \in {"stores", "models"} /\ Len(l.got) \in Nat
  BY DEF ListRec
<1> DEFINE g == l.got \o SubSeq(found, 1, n)
<1>6. PICK m : m = Turned(l, found) OBVIOUS
<1>17. m = [l EXCEPT !.got = g, !.token = IF Len(found) > PageSize THEN found[PageSize + 1] ELSE 0,
                    !.at = IF Len(found) > PageSize THEN "paging" ELSE "done"]
  BY <1>0, <1>6 DEF Turned
<1>7. /\ g \in Seq(Nat) /\ Len(g) = Len(l.got) + n
      /\ \A i \in 1..Len(l.got) : i \in 1..Len(g) /\ g[i] = l.got[i]
      /\ \A i \in 1..n : Len(l.got) + i \in 1..Len(g) /\ g[Len(l.got) + i] = found[i]
      /\ \A i \in 1..Len(g) : i \notin 1..Len(l.got) => i - Len(l.got) \in 1..n /\ g[i] = found[i - Len(l.got)]
  <2>2. n \in 0..Len(found) BY <1>2
  <2>3. PICK h \in Seq(Nat) : h = l.got BY <1>5
  <2>4. PICK c : c = h \o SubSeq(found, 1, n) OBVIOUS
  <2>5. /\ c \in Seq(Nat) /\ Len(c) = Len(h) + n
        /\ \A i \in 1..Len(h) : i \in 1..Len(c) /\ c[i] = h[i]
        /\ \A i \in 1..n : Len(h) + i \in 1..Len(c) /\ c[Len(h) + i] = found[i]
        /\ \A i \in 1..Len(c) : i \notin 1..Len(h) => i - Len(h) \in 1..n /\ c[i] = found[i - Len(h)]
    BY <1>4, <2>2, <2>4, GetsMore
  <2>6. g = c BY <2>3, <2>4
  <2> HIDE DEF g
  <2> QED BY <2>3, <2>5, <2>6
<1> HIDE DEF g
<1>8. /\ m \in ListRec /\ m.kind = l.kind /\ m.must = l.must /\ m.got = g
      /\ m.token = IF Len(found) > PageSize THEN found[PageSize + 1] ELSE 0
      /\ m.at = IF Len(found) > PageSize THEN "paging" ELSE "done"
  <2>1. (IF Len(found) > PageSize THEN found[PageSize + 1] ELSE 0) \in Nat BY <1>1, <1>2, <1>3
  <2> QED BY <1>7, <1>17, <2>1 DEF ListRec
<1>9. \A i \in 1..Len(l.got) : ~Ahead(l, l.got[i]) BY DEF PageOK
<1>10. \A i \in 1..n : Ahead(l, found[i]) /\ i \in 1..Len(found) BY <1>2, <1>3
<1>18. \A i, j \in 1..Len(found) : i < j => <<found[i], found[j]>> \in Order(l.kind) BY DEF Found
<1>11. \A x \in Nat : <<x, x>> \notin Order(l.kind) BY DEF Order
<1>12. ASSUME NEW i \in 1..Len(g), NEW j \in 1..Len(g), i < j PROVE g[i] # g[j]
  <2>1. CASE j \in 1..Len(l.got)
    <3>1. i \in 1..Len(l.got) BY <1>5, <1>7, <1>12, <2>1
    <3>2. l.got[i] # l.got[j] BY <1>12, <2>1, <3>1 DEF PageOK
    <3> QED BY <1>7, <2>1, <3>1, <3>2
  <2>2. CASE i \in 1..Len(l.got) /\ j \notin 1..Len(l.got)
    <3>1. ~Ahead(l, g[i]) BY <1>7, <1>9, <2>2
    <3>2. Ahead(l, g[j]) BY <1>7, <1>10, <2>2
    <3> QED BY <3>1, <3>2
  <2>3. CASE i \notin 1..Len(l.got) /\ j \notin 1..Len(l.got)
    <3>1. PICK a \in 1..n : a = i - Len(l.got) /\ g[i] = found[a] BY <1>7, <2>3
    <3>2. PICK b \in 1..n : b = j - Len(l.got) /\ g[j] = found[b] BY <1>7, <2>3
    <3>3. a < b
      <4>1. i \in Int /\ j \in Int /\ Len(l.got) \in Int BY <1>2, <1>5, <1>7
      <4> QED BY <1>12, <3>1, <3>2, <4>1
    <3>5. a \in 1..Len(found) /\ b \in 1..Len(found) BY <1>10
    <3>4. <<found[a], found[b]>> \in Order(l.kind) BY <1>18, <3>3, <3>5
    <3> QED BY <1>3, <1>11, <3>1, <3>2, <3>4, <3>5
  <2> QED BY <2>1, <2>2, <2>3
<1> DEFINE last == PageSize + 1
<1>13. ASSUME Len(found) > PageSize
       PROVE  /\ m.at = "paging" /\ last \in 1..Len(found) /\ m.token = found[last]
              /\ Ahead(l, m.token) /\ m.token \in Nat
              /\ \A x : ~Ahead(m, x) <=> <<x, m.token>> \in Order(l.kind)
  <2>1. last \in 1..Len(found) BY <1>1, <1>2, <1>13
  <2>2. m.token = found[last] /\ m.at = "paging" BY <1>8, <1>13
  <2> QED BY <1>3, <1>8, <1>13, <2>1, <2>2 DEF Ahead
<1>14. ASSUME m.at = "paging", NEW i \in 1..Len(g) PROVE ~Ahead(m, g[i])
  <2>1. Len(found) > PageSize BY <1>8, <1>14
  <2>2. CASE i \in 1..Len(l.got)
    <3>1. ~Ahead(l, g[i]) /\ g[i] \in Nat BY <1>7, <1>9, <2>2
    <3>2. <<g[i], l.token>> \in Order(l.kind) /\ l.token # 0 BY <3>1 DEF Ahead
    <3>3. <<m.token, l.token>> \notin Order(l.kind) BY <1>13, <2>1, <3>2 DEF Ahead
    <3>4. <<g[i], m.token>> \in Order(l.kind)
      BY <1>5, <1>13, <2>1, <3>1, <3>2, <3>3 DEF Order
    <3> QED BY <1>13, <2>1, <3>4
  <2>3. CASE i \notin 1..Len(l.got)
    <3>1. PICK a \in 1..n : g[i] = found[a] BY <1>7, <2>3
    <3>2. a \in 1..Len(found) /\ a < last BY <1>1, <1>2, <1>13, <2>1
    <3>3. <<found[a], found[last]>> \in Order(l.kind) BY <1>13, <1>18, <2>1, <3>2
    <3> QED BY <1>13, <2>1, <3>1, <3>3
  <2> QED BY <2>2, <2>3
<1>15. ASSUME NEW x \in m.must \cap C
       PROVE  (\E i \in 1..Len(g) : g[i] = x) \/ (m.at = "paging" /\ Ahead(m, x))
  <2>0. x \in l.must \cap C /\ x \in Nat BY <1>8, <1>15
  <2>1. CASE \E i \in 1..Len(l.got) : l.got[i] = x BY <1>7, <2>1
  <2>2. CASE Ahead(l, x)
    <3>1. PICK j \in 1..Len(found) : found[j] = x BY <2>0, <2>2 DEF Found, Remaining
    <3>2. CASE j <= n
      <4>1. j \in 1..n BY <1>2, <3>1, <3>2
      <4> QED BY <1>7, <3>1, <4>1
    <3>3. CASE n < j
      <4>1. Len(found) > PageSize /\ last <= j BY <1>0, <1>1, <1>2, <3>1, <3>3 DEF Paged
      <4>2. <<x, m.token>> \notin Order(l.kind)
        <5>1. CASE j = last BY <1>11, <1>13, <2>0, <3>1, <4>1, <5>1
        <5>2. CASE last < j
          <6>1. <<found[last], found[j]>> \in Order(l.kind) BY <1>13, <1>18, <3>1, <4>1, <5>2
          <6>2. <<m.token, x>> \in Order(l.kind) BY <1>13, <3>1, <4>1, <6>1
          <6> QED BY <6>2 DEF Order
        <5> QED BY <1>1, <3>1, <4>1, <5>1, <5>2
      <4> QED BY <1>13, <4>1, <4>2
    <3> QED BY <1>2, <3>1, <3>2, <3>3
  <2> QED BY <2>0, <2>1, <2>2 DEF PageOK
<1>16. PageOK(m, C)
  <2>1. m.got = g BY <1>8
  <2>2. \A i, j \in 1..Len(m.got) : i < j => m.got[i] # m.got[j] BY <1>12, <2>1
  <2>3. m.at = "paging" => \A i \in 1..Len(m.got) : ~Ahead(m, m.got[i]) BY <1>14, <2>1
  <2>4. \A x \in m.must \cap C :
            (\E i \in 1..Len(m.got) : m.got[i] = x) \/ (m.at = "paging" /\ Ahead(m, x))
    BY <1>15, <2>1
  <2> QED BY <2>2, <2>3, <2>4 DEF PageOK
<1> QED BY <1>6, <1>8, <1>16

(* Steps of others: what is to be got is there no more, or as it was.      *)
LEMMA ListStays ==
    ASSUME ListOK, UNCHANGED list,
           \A k \in {"stores", "models"} : /\ Known(k) \subseteq Known(k)'
                                           /\ Current(k)' \cap Known(k) \subseteq Current(k)
    PROVE  ListOK'
<1>1. CASE list = NoList BY <1>1 DEF ListOK
<1>2. CASE list # NoList
  <2>1. PICK l \in ListRec : l = list BY <1>2 DEF ListOK
  <2>2. PICK k \in {"stores", "models"} : k = l.kind BY DEF ListRec
  <2>3. l.must \subseteq Known(k) /\ PageOK(l, Current(k)) BY <1>2, <2>1, <2>2 DEF ListOK
  <2>4. l.must \cap Current(k)' \subseteq l.must \cap Current(k) BY <2>3
  <2>5. PageOK(l, Current(k)') BY <2>3, <2>4 DEF PageOK
  <2>6. l.must \subseteq Known(k)' BY <2>3
  <2> QED BY <2>1, <2>2, <2>5, <2>6 DEF ListOK
<1> QED BY <1>1, <1>2

LEMMA CurrentFacts ==
    ASSUME BaseInv
    PROVE  \A k \in {"stores", "models"} : /\ Current(k) \subseteq Known(k)
                                           /\ Known(k) \subseteq 1..drawn
                                           /\ drawn \in Nat
                                           /\ IsFiniteSet(Current(k))
<1>1. drawn \in Nat /\ DOMAIN stores \subseteq 1..drawn /\ Models \subseteq 1..drawn
  BY DEF BaseInv, RowsOK, StoresOK, Models, Row
<1>2. LiveStores \subseteq DOMAIN stores BY DEF LiveStores
<1>3. IsFiniteSet(1..drawn) BY <1>1, FS_Interval
<1>4. IsFiniteSet(LiveStores) /\ IsFiniteSet(Models) BY <1>1, <1>2, <1>3, FS_Subset
<1> QED BY <1>1, <1>2, <1>4 DEF Known, Current

(* A client begins, with all there is before it.                           *)
LEMMA ListBegins ==
    ASSUME BaseInv, NEW k \in {"stores", "models"}, Listing(k, Current(k))
    PROVE  ListOK'
<1>1. PICK l : l = list' OBVIOUS
<1>2. l = [at |-> "paging", kind |-> k, token |-> 0, got |-> <<>>, must |-> Current(k)]
  BY <1>1 DEF Listing
<1>3. Current(k) \subseteq Known(k) /\ Current(k) \subseteq Nat BY CurrentFacts
<1>4. Current(k)' = Current(k) /\ Known(k)' = Known(k)
  BY DEF Listing, Tables, Current, Known, LiveStores, Models
<1>5. PICK C : C = Current(k) OBVIOUS
<1>6. l \in ListRec /\ l.must = C /\ l.kind = k /\ Len(l.got) = 0 /\ l.token = 0 /\ l.at = "paging"
  <2>1. <<>> \in Seq(Nat) /\ Len(<<>>) = 0 OBVIOUS
  <2> QED BY <1>2, <1>3, <1>5, <2>1 DEF ListRec
<1>7. PageOK(l, C) BY <1>6 DEF PageOK, Ahead
<1> QED BY <1>1, <1>3, <1>4, <1>5, <1>6, <1>7 DEF ListOK

LEMMA FoundInOrder ==
    ASSUME NEW l \in ListRec, NEW C \in SUBSET (Nat \ {0}), IsFiniteSet(C), NEW F, F = Remaining(l, C)
    PROVE  Found(l, C, IF l.kind = "stores" THEN Upwards(F) ELSE Downwards(F))
<1>1. IsFiniteSet(F) /\ F \subseteq Nat BY FS_Subset DEF Remaining
<1> DEFINE R == {p \in F \X F : <<p[1], p[2]>> \in Order(l.kind)}
<1>2. \A x, y \in F : <<x, y>> \in R <=> <<x, y>> \in Order(l.kind) OBVIOUS
<1>3. \/ \A x, y \in Nat : <<x, y>> \in Order(l.kind) <=> x < y
      \/ \A x, y \in Nat : <<x, y>> \in Order(l.kind) <=> x > y
  BY DEF Order
<1>4. WeakOrder(F, R)
  <2> HIDE DEF R
  <2>1. \A x, y, z \in F : x \in Nat /\ y \in Nat /\ z \in Nat BY <1>1
  <2>2. CASE \A x, y \in Nat : <<x, y>> \in Order(l.kind) <=> x < y
    <3>1. \A x, y \in F : <<x, y>> \in R <=> x < y BY <1>2, <2>1, <2>2
    <3> QED BY <2>1, <3>1 DEF WeakOrder
  <2>3. CASE \A x, y \in Nat : <<x, y>> \in Order(l.kind) <=> x > y
    <3>1. \A x, y \in F : <<x, y>> \in R <=> x > y BY <1>2, <2>1, <2>3
    <3> QED BY <2>1, <3>1 DEF WeakOrder
  <2> QED BY <1>3, <2>2, <2>3
<1>5. (IF l.kind = "stores" THEN Upwards(F) ELSE Downwards(F)) = Sorted(F, R)
  <2>1. CASE l.kind = "stores"
    <3>1. R = {p \in F \X F : p[1] < p[2]} BY <1>1, <2>1 DEF Order
    <3> QED BY <2>1, <3>1 DEF Upwards
  <2>2. CASE l.kind # "stores"
    <3>1. R = {p \in F \X F : p[1] > p[2]} BY <1>1, <2>2 DEF Order
    <3> QED BY <2>2, <3>1 DEF Downwards
  <2> QED BY <2>1, <2>2
<1>6. PICK s : s = Sorted(F, R) OBVIOUS
<1> HIDE DEF R
<1>7. /\ s \in Seq(F) /\ Len(s) = Cardinality(F) /\ Cardinality(F) \in Nat
      /\ \A i, j \in 1..Cardinality(F) : i < j => s[i] # s[j] /\ <<s[j], s[i]>> \notin R
      /\ \A x \in F : \E i \in 1..Cardinality(F) : s[i] = x
  BY <1>1, <1>4, <1>6, SortedFacts
<1>8. ASSUME NEW i \in 1..Len(s), NEW j \in 1..Len(s), i < j PROVE <<s[i], s[j]>> \in Order(l.kind)
  <2>1. s[i] \in F /\ s[j] \in F BY <1>7
  <2>2. s[i] # s[j] /\ <<s[j], s[i]>> \notin R BY <1>7, <1>8
  <2> QED BY <1>1, <1>2, <1>3, <2>1, <2>2
<1>9. Found(l, C, s) BY <1>7, <1>8 DEF Found
<1> QED BY <1>5, <1>6, <1>9

(* The client turns a page.                                                *)
LEMMA ListGoesOn ==
    ASSUME BaseInv, ListOK, ListStoresExecute \/ ReadAuthorizationModelsExecute
    PROVE  ListOK'
<1>1. list.at = "paging" BY DEF ListStoresExecute, ReadAuthorizationModelsExecute
<1>2. PICK l \in ListRec : l = list BY <1>1 DEF ListOK, NoList
<1>3. PICK k \in {"stores", "models"} : k = l.kind BY DEF ListRec
<1>4. PICK C : C = Current(k) OBVIOUS
<1>5. l.must \subseteq Known(k) /\ PageOK(l, C) BY <1>1, <1>2, <1>3, <1>4 DEF ListOK, NoList
<1>6. C \in SUBSET (Nat \ {0}) /\ IsFiniteSet(C) BY <1>4, CurrentFacts
<1>7. PICK F : F = Remaining(l, C) OBVIOUS
<1>8. PICK found : found = IF l.kind = "stores" THEN Upwards(F) ELSE Downwards(F) OBVIOUS
<1>9. Found(l, C, found) BY <1>6, <1>7, <1>8, FoundInOrder
<1>10. NextPage(found)
  <2>0. l.token \in Nat /\ C \subseteq Nat BY <1>6 DEF ListRec
  <2>1. CASE k = "stores"
    <3>0. \A x \in C : Ahead(l, x) <=> x >= l.token BY <1>3, <2>0, <2>1 DEF Ahead, Order
    <3>1. {i \in LiveStores : i >= l.token} = F
      BY <1>4, <1>7, <2>1, <3>0 DEF Remaining, Current
    <3>2. found = ListStores(list.token) BY <1>2, <1>3, <1>8, <2>1, <3>1 DEF ListStores
    <3> QED BY <1>2, <1>3, <2>1, <3>2 DEF ListStoresExecute, ReadAuthorizationModelsExecute
  <2>2. CASE k = "models"
    <3>1. {i \in Models : l.token = 0 \/ i <= l.token} = F
      BY <1>3, <1>4, <1>7, <2>0, <2>2 DEF Remaining, Current, Ahead, Order
    <3>2. found = ReadAuthorizationModels(list.token)
      BY <1>2, <1>3, <1>8, <2>2, <3>1 DEF ReadAuthorizationModels
    <3> QED BY <1>2, <1>3, <2>2, <3>2 DEF ListStoresExecute, ReadAuthorizationModelsExecute
  <2> QED BY <2>1, <2>2
<1>11. list' = Turned(l, found) BY <1>2, <1>10 DEF NextPage, Turned, Paged
<1>12. PICK m : m = list' OBVIOUS
<1>13. m \in ListRec /\ m.kind = k /\ m.must = l.must /\ PageOK(m, C)
  BY <1>1, <1>2, <1>3, <1>5, <1>6, <1>9, <1>11, <1>12, TurnsPage
<1>14. Known(k)' = Known(k) /\ Current(k)' = Current(k)
  BY <1>10 DEF NextPage, Tables, Known, Current, LiveStores, Models
<1> QED BY <1>4, <1>5, <1>12, <1>13, <1>14 DEF ListOK

LEMMA ListOKStep == BaseInv /\ ListOK /\ [CatalogNext]_catalogVars => ListOK'
<1> SUFFICES ASSUME BaseInv, ListOK, [CatalogNext]_catalogVars PROVE ListOK'
  OBVIOUS
<1>1. CASE HandleListStores BY <1>1, ListBegins DEF HandleListStores, Current
<1>2. CASE HandleReadAuthorizationModels BY <1>2, ListBegins DEF HandleReadAuthorizationModels, Current
<1>3. CASE ListStoresExecute \/ ReadAuthorizationModelsExecute BY <1>3, ListGoesOn
<1>4. ASSUME UNCHANGED <<stores, rows, list>> PROVE ListOK'
  <2>1. \A k : Known(k)' = Known(k) /\ Current(k)' = Current(k)
    BY <1>4 DEF Known, Current, LiveStores, Models
  <2> QED BY <1>4, <2>1, ListStays
<1>5. CASE UNCHANGED catalogVars BY <1>4, <1>5 DEF catalogVars
<1>6. CASE Evict BY <1>4, <1>6 DEF Evict, Tables
<1>7. ASSUME NEW s \in Slots, NEW r \in Requests, Handle(s, r) PROVE ListOK'
  BY <1>4, <1>7 DEF Handle, HandleCreateStore, HandleDeleteStore, HandleGetStore,
     HandleWriteAuthorizationModel, HandleReadAuthorizationModel, HandleQuery, HandleWriteAssertions,
     HandleReadAssertions, CreateStoreExecute, WriteAuthorizationModelExecute, Begin, Tables
<1>8. ASSUME NEW s \in Slots, CreateStore(s) PROVE ListOK'
  <2>1. req[s].at = "insertingStore" /\ UNCHANGED <<rows, list>> BY <1>8 DEF CreateStore, At
  <2>2. PICK id : id = req[s].id OBVIOUS
  <2>3. id \notin DOMAIN stores BY <2>1, <2>2 DEF BaseInv, SlotsOK, SlotOK
  <2>4. CASE UNCHANGED stores BY <1>4, <2>1, <2>4
  <2>5. CASE stores' = Put(stores, id, TRUE)
    <3>1. DOMAIN stores' = DOMAIN stores \cup {id} /\ \A x \in DOMAIN stores : stores'[x] = stores[x]
      BY <2>3, <2>5 DEF Put
    <3>2. \A k : Known(k) \subseteq Known(k)' /\ Current(k)' \cap Known(k) \subseteq Current(k)
      BY <2>1, <3>1 DEF Known, Current, LiveStores, Models
    <3> QED BY <2>1, <3>2, ListStays
  <2> QED BY <1>8, <2>2, <2>4, <2>5 DEF CreateStore
<1>9. ASSUME NEW s \in Slots, DeleteStore(s) PROVE ListOK'
  <2>1. UNCHANGED <<rows, list>> BY <1>9 DEF DeleteStore
  <2>2. PICK id : id = req[s].id OBVIOUS
  <2>4. CASE UNCHANGED stores BY <1>4, <2>1, <2>4
  <2>5. CASE stores' = [stores EXCEPT ![id] = FALSE]
    <3>1. DOMAIN stores' = DOMAIN stores /\ \A x \in DOMAIN stores : stores'[x] => stores[x]
      BY <2>5 DEF BaseInv, StoresOK
    <3>2. \A k : Known(k) \subseteq Known(k)' /\ Current(k)' \cap Known(k) \subseteq Current(k)
      BY <2>1, <3>1 DEF Known, Current, LiveStores, Models
    <3> QED BY <2>1, <3>2, ListStays
  <2> QED BY <1>9, <2>2, <2>4, <2>5 DEF DeleteStore
<1>10. ASSUME NEW s \in Slots, WriteAuthorizationModel(s) PROVE ListOK'
  <2>1. UNCHANGED <<stores, list>> BY <1>10 DEF WriteAuthorizationModel
  <2>2. Models \subseteq Models' BY <1>10, WriteModelStep DEF Grows
  <2>3. \A k : Known(k) \subseteq Known(k)' /\ Current(k)' \cap Known(k) \subseteq Current(k)
    BY <2>1, <2>2 DEF Known, Current, LiveStores
  <2> QED BY <2>1, <2>3, ListStays
<1>11. ASSUME NEW s \in Slots,
              DeleteStoreExecute(s) \/ GetStoreExecute(s) \/ ReadAuthorizationModelExecute(s)
              \/ Answered(s) \/ Resolve(s) \/ Query(s) \/ Land(s) \/ Validate(s) \/ QueryAnswered(s)
              \/ WriteAssertionsExecute(s) \/ WriteAssertions(s) \/ ReadAssertionsExecute(s)
       PROVE  ListOK'
  BY <1>4, <1>11 DEF DeleteStoreExecute, GetStoreExecute, ReadAuthorizationModelExecute, Answered, Resolve,
     Query, Land, Landed, Validate, QueryAnswered, WriteAssertionsExecute, WriteAssertions,
     ReadAssertionsExecute, Tables
<1> QED BY <1>1, <1>2, <1>3, <1>5, <1>6, <1>7, <1>8, <1>9, <1>10, <1>11 DEF CatalogNext, Serve

(* However many stores and models are created while a client pages, and    *)
(* whichever store is deleted, the one its token names included, it gets   *)
(* each once, and all that were there throughout.                          *)
THEOREM ListsStayExact == CatalogSpec => []ListsAreExact
<1>1. CatalogInit => ListOK BY DEF CatalogInit, ListOK
<1>2. BaseInv /\ ListOK => ListsAreExact
  <2> SUFFICES ASSUME BaseInv, ListOK, list.at # "none" PROVE ListsAreExact
    BY DEF ListsAreExact
  <2>1. PICK l \in ListRec : l = list BY DEF ListOK, NoList
  <2>2. PICK C : C = Current(l.kind) OBVIOUS
  <2>3. PageOK(l, C) BY <2>1, <2>2 DEF ListOK, NoList
  <2>4. l.got \in Seq(Nat) /\ DOMAIN l.got = 1..Len(l.got) BY DEF ListRec
  <2>5. l.at = "done" => \A x \in l.must \cap C : \E i \in 1..Len(l.got) : l.got[i] = x
    BY <2>3 DEF PageOK
  <2>6. l.at = "done" => l.must \cap C \subseteq ToSet(l.got) BY <2>4, <2>5 DEF ToSet
  <2>7. \A i, j \in DOMAIN l.got : i < j => l.got[i] # l.got[j] BY <2>3, <2>4 DEF PageOK
  <2> QED BY <2>1, <2>2, <2>6, <2>7 DEF ListsAreExact, Current
<1> QED BY <1>1, <1>2, BaseInvInit, BaseInvStep, ListOKStep, PTL DEF CatalogSpec

-----------------------------------------------------------------------------
(* Lookups and the requests that run them. *)

(* Somebody runs every lookup in progress.                                 *)
Led == \A k \in DOMAIN flight : \E s \in Slots : req[s].at \in Leading /\ req[s].id = k

(* A step of a request that runs no lookup, before or after it.            *)
LEMMA LeadersStay ==
    ASSUME BaseInv, Led, NEW s \in Slots, req[s].at \notin Leading, UNCHANGED flight, NEW f,
           req' = [req EXCEPT ![s] = f]
    PROVE  Led'
<1> SUFFICES ASSUME NEW k \in DOMAIN flight
             PROVE  \E t \in Slots : req'[t].at \in Leading /\ req'[t].id = k
  BY DEF Led
<1>1. PICK t \in Slots : req[t].at \in Leading /\ req[t].id = k BY DEF Led
<1>2. t # s BY <1>1
<1>3. req'[t] = req[t] BY <1>2 DEF BaseInv, SlotsOK
<1> QED BY <1>1, <1>3

LEMMA LedStep == BaseInv /\ Led /\ [CatalogNext]_catalogVars => Led'
<1> SUFFICES ASSUME BaseInv, Led, [CatalogNext]_catalogVars PROVE Led'
  OBVIOUS
<1>0. req \in [Slots -> {Idle} \cup Record] BY DEF BaseInv, SlotsOK
<1>1. ASSUME UNCHANGED <<req, flight>> PROVE Led' BY <1>1 DEF Led
<1>2. CASE UNCHANGED catalogVars BY <1>1, <1>2 DEF catalogVars
<1>3. CASE Evict BY <1>1, <1>3 DEF Evict
<1>4. CASE HandleListStores \/ HandleReadAuthorizationModels \/ ListStoresExecute
           \/ ReadAuthorizationModelsExecute
  BY <1>1, <1>4 DEF HandleListStores, HandleReadAuthorizationModels, Listing, ListStoresExecute,
                    ReadAuthorizationModelsExecute, NextPage, Caches
<1>5. ASSUME NEW s \in Slots, NEW r \in Requests, Handle(s, r) PROVE Led'
  <2>1. ASSUME NEW op, NEW a, NEW id, Begin(s, op, a, id) PROVE Led'
    <3>1. req[s].at \notin Leading /\ UNCHANGED flight BY <2>1 DEF Begin, At, Leading, Caches
    <3>2. \E f : req' = [req EXCEPT ![s] = f] BY <2>1 DEF Begin
    <3> QED BY <3>1, <3>2, LeadersStay
  <2> QED BY <1>1, <1>5, <2>1 DEF Handle, HandleCreateStore, HandleDeleteStore, HandleGetStore,
     HandleWriteAuthorizationModel, HandleReadAuthorizationModel, HandleQuery, HandleWriteAssertions,
     HandleReadAssertions, CreateStoreExecute, WriteAuthorizationModelExecute, Caches
<1>6. ASSUME NEW s \in Slots,
             CreateStore(s) \/ DeleteStoreExecute(s) \/ GetStoreExecute(s) \/ DeleteStore(s)
             \/ WriteAuthorizationModel(s) \/ ReadAuthorizationModelExecute(s) \/ Answered(s)
             \/ Validate(s) \/ QueryAnswered(s) \/ WriteAssertionsExecute(s) \/ WriteAssertions(s)
             \/ ReadAssertionsExecute(s)
      PROVE  Led'
  <2>1. req[s].at \notin Leading /\ UNCHANGED flight
    BY <1>6 DEF CreateStore, DeleteStoreExecute, GetStoreExecute, DeleteStore, WriteAuthorizationModel,
       ReadAuthorizationModelExecute, Answered, Validate, QueryAnswered, WriteAssertionsExecute,
       WriteAssertions, ReadAssertionsExecute, Hit, At, Leading, Caches
  <2>2. ASSUME NEW f, req' = [req EXCEPT ![s] = f] PROVE Led' BY <2>1, <2>2, LeadersStay
  <2>3. CASE Answer(s) BY <2>2, <2>3 DEF Answer
  <2>4. ASSUME NEW a, Goto(s, a) PROVE Led' BY <2>2, <2>4 DEF Goto
  <2>5. CASE ReadAuthorizationModelExecute(s)
    BY <2>2, <2>3, <2>5 DEF ReadAuthorizationModelExecute, CachedReadAuthorizationModel
  <2>6. CASE WriteAssertionsExecute(s) BY <2>2, <2>3, <2>6 DEF WriteAssertionsExecute
  <2>7. CASE Validate(s) BY <2>2, <2>3, <2>4, <2>7 DEF Validate, Hit
  <2> QED BY <1>6, <2>3, <2>4, <2>5, <2>6, <2>7 DEF CreateStore, DeleteStoreExecute, GetStoreExecute,
     DeleteStore, WriteAuthorizationModel, Answered, QueryAnswered, WriteAssertions,
     ReadAssertionsExecute
<1>7. ASSUME NEW s \in Slots, Resolve(s) PROVE Led'
  <2>1. PICK k : k = req[s].id OBVIOUS
  <2>2. req[s].at = "resolving" /\ req[s] \in Record BY <1>7, HasRecord DEF Resolve, At
  <2>3. CASE Hit(s, k) \/ Join(s, k)
    <3>1. req[s].at \notin Leading BY <2>2 DEF Leading
    <3>2. UNCHANGED flight /\ \E f : req' = [req EXCEPT ![s] = f] BY <2>3 DEF Hit, Join
    <3> QED BY <3>1, <3>2, LeadersStay
  <2>4. CASE Lead(s, k)
    <3>1. /\ req'[s].at = "querying" /\ req'[s].id = k
          /\ \A t \in Slots \ {s} : req'[t] = req[t]
      BY <1>0, <2>1, <2>2, <2>4 DEF Lead, Goto, Record
    <3>2. DOMAIN flight' = DOMAIN flight \cup {k} BY <2>4 DEF Lead, Put
    <3>3. \A x \in DOMAIN flight : \E t \in Slots \ {s} : req[t].at \in Leading /\ req[t].id = x
      BY <2>2 DEF Led, Leading
    <3> QED BY <3>1, <3>2, <3>3 DEF Led, Leading
  <2> QED BY <1>7, <2>1, <2>3, <2>4 DEF Resolve
<1>8. ASSUME NEW s \in Slots, Query(s) PROVE Led'
  <2>1. PICK q \in Record : q = req[s] BY <1>8, HasRecord DEF Query, At
  <2>2. /\ req'[s].at = "landing" /\ req'[s].id = req[s].id
        /\ \A t \in Slots \ {s} : req'[t] = req[t]
    BY <1>0, <1>8, <2>1 DEF Query, Goto, Record
  <2>3. DOMAIN flight' = DOMAIN flight BY <1>8 DEF Query
  <2> QED BY <2>2, <2>3 DEF Led, Leading
<1>9. ASSUME NEW s \in Slots, Land(s) PROVE Led'
  <2>1. PICK k : k = req[s].id OBVIOUS
  <2>2. DOMAIN flight' = DOMAIN flight \ {k} BY <1>9, <2>1 DEF Land, Landed
  <2>3. \A t \in Slots : t \notin Sharing(s) => req'[t] = req[t] BY <1>9 DEF Land, Landed
  <2>4. \A t \in Sharing(s) : t = s \/ req[t].at = "waiting" BY DEF Sharing, At
  <2>5. ASSUME NEW x \in DOMAIN flight \ {k}
        PROVE  \E t \in Slots : req'[t].at \in Leading /\ req'[t].id = x
    <3>1. PICK t \in Slots : req[t].at \in Leading /\ req[t].id = x BY DEF Led
    <3>2. t \notin Sharing(s) BY <2>1, <2>4, <3>1 DEF Leading
    <3> QED BY <2>3, <3>1, <3>2
  <2> QED BY <2>2, <2>5 DEF Led
<1> QED BY <1>2, <1>3, <1>4, <1>5, <1>6, <1>7, <1>8, <1>9 DEF CatalogNext, Serve

(* At every moment exactly one request runs each lookup that the resolver  *)
(* shares, and nobody waits for one that is not in progress: no request    *)
(* can be left behind by singleflight, however lookups begin, fail and     *)
(* land.                                                                   *)
THEOREM LookupsHaveLeaders == CatalogSpec => []FlightsHaveLeaders
<1>1. CatalogInit => Led
  <2> SUFFICES ASSUME CatalogInit PROVE Led
    OBVIOUS
  <2>1. DOMAIN flight = {} BY DEF CatalogInit
  <2> QED BY <2>1 DEF Led
<1>2. BaseInv /\ Led => FlightsHaveLeaders
  <2> SUFFICES ASSUME BaseInv, Led PROVE FlightsHaveLeaders
    OBVIOUS
  <2>1. ASSUME NEW k \in DOMAIN flight
        PROVE  Cardinality({s \in Slots : req[s].at \in {"querying", "landing"} /\ req[s].id = k}) = 1
    <3>1. PICK s \in Slots : req[s].at \in Leading /\ req[s].id = k BY DEF Led
    <3>2. ASSUME NEW t \in Slots, req[t].at \in Leading, req[t].id = k PROVE t = s
      BY <3>1, <3>2 DEF BaseInv, SlotsOK, Apart
    <3>3. {t \in Slots : req[t].at \in {"querying", "landing"} /\ req[t].id = k} = {s}
      BY <3>1, <3>2 DEF Leading
    <3> QED BY <3>3, FS_Singleton
  <2>2. ASSUME NEW s \in Slots, At(s, "waiting") PROVE req[s].id \in DOMAIN flight
    BY <2>2 DEF BaseInv, SlotsOK, SlotOK, At, Looking
  <2> QED BY <2>1, <2>2 DEF FlightsHaveLeaders
<1> QED BY <1>1, <1>2, BaseInvInit, BaseInvStep, LedStep, PTL DEF CatalogSpec

-----------------------------------------------------------------------------
(* Types, and invalid models. *)

Bounds ==
    /\ begun \in 0..MaxRequests /\ faults \in 0..MaxFaults
    /\ First \in Nat /\ drawn \in Nat /\ First <= drawn /\ drawn <= First + begun
    /\ list.at \in {"none", "paging", "done"}

(* A model that a request goes on with is valid, and the cache of the      *)
(* resolver holds none that is not.                                        *)
Using == {"resolved", "writingAssertions"}
ValidOK ==
    /\ Ids(typesys) \cap Invalid = {} /\ assertions \subseteq Models \ Invalid
    /\ \A s \in Slots : /\ req[s].at # "idle" => req[s].model.id \in Models \cup {0}
                        /\ req[s].at \in Using => req[s].model.id \in Models \ Invalid

LEMMA BoundsStep == Bounds /\ ListOK' /\ [CatalogNext]_catalogVars => Bounds'
<1> SUFFICES ASSUME Bounds, ListOK', [CatalogNext]_catalogVars PROVE Bounds'
  OBVIOUS
<1> USE CatalogAssumption DEF Bounds
<1>1. list'.at \in {"none", "paging", "done"} BY DEF ListOK, NoList, ListRec
<1>3. Fault => faults' \in 0..MaxFaults BY DEF Fault
<1>4. Another => begun' = begun + 1 /\ begun' \in 0..MaxRequests BY DEF Another
<1>5. ASSUME (Another /\ drawn' \in {drawn, drawn + 1}) \/ UNCHANGED <<begun, drawn>>,
             Fault \/ UNCHANGED faults
      PROVE  Bounds'
  BY <1>1, <1>3, <1>4, <1>5
<1>6. CASE UNCHANGED catalogVars BY <1>5, <1>6 DEF catalogVars
<1>7. CASE Evict BY <1>5, <1>7 DEF Evict
<1>8. CASE HandleListStores \/ HandleReadAuthorizationModels \/ ListStoresExecute
           \/ ReadAuthorizationModelsExecute
  BY <1>5, <1>8 DEF HandleListStores, HandleReadAuthorizationModels, Listing, ListStoresExecute,
                    ReadAuthorizationModelsExecute, NextPage
<1>9. ASSUME NEW s \in Slots, NEW r \in Requests, Handle(s, r) PROVE Bounds'
  BY <1>5, <1>9 DEF Handle, HandleCreateStore, HandleDeleteStore, HandleGetStore,
     HandleWriteAuthorizationModel, HandleReadAuthorizationModel, HandleQuery, HandleWriteAssertions,
     HandleReadAssertions, CreateStoreExecute, WriteAuthorizationModelExecute, Begin
<1>10. ASSUME NEW s \in Slots, Serve(s) PROVE Bounds'
  BY <1>5, <1>10 DEF Serve, CreateStore, DeleteStoreExecute, GetStoreExecute, DeleteStore,
     WriteAuthorizationModel, ReadAuthorizationModelExecute, CachedReadAuthorizationModel, Answered,
     Resolve, Query, Land, Landed, Validate, QueryAnswered, WriteAssertionsExecute, WriteAssertions,
     ReadAssertionsExecute
<1> QED BY <1>6, <1>7, <1>8, <1>9, <1>10 DEF CatalogNext

(* One request moves; models stay.                                         *)
LEMMA ValidMoves ==
    ASSUME BaseInv, ValidOK, Models \subseteq Models', NEW s \in Slots, NEW f,
           req' = [req EXCEPT ![s] = f],
           f.at # "idle" => f.model.id \in Models' \cup {0},
           f.at \in Using => f.model.id \in Models' \ Invalid,
           Ids(typesys') \cap Invalid = {}, assertions' \subseteq Models' \ Invalid
    PROVE  ValidOK'
<1>1. req'[s] = f /\ \A t \in Slots \ {s} : req'[t] = req[t] BY DEF BaseInv, SlotsOK
<1> QED BY <1>1 DEF ValidOK, Ids

LEMMA ValidStep == BaseInv /\ ValidOK /\ [CatalogNext]_catalogVars => ValidOK'
<1> SUFFICES ASSUME BaseInv, ValidOK, [CatalogNext]_catalogVars PROVE ValidOK'
  OBVIOUS
<1>0. req \in [Slots -> {Idle} \cup Record] BY DEF BaseInv, SlotsOK
<1>1. ASSUME UNCHANGED <<req, rows, assertions>>, typesys' \subseteq typesys
      PROVE  ValidOK'
  BY <1>1 DEF ValidOK, Models, Ids
<1>2. CASE UNCHANGED catalogVars BY <1>1, <1>2 DEF catalogVars
<1>3. CASE Evict BY <1>1, <1>3 DEF Evict, Tables
<1>4. CASE HandleListStores \/ HandleReadAuthorizationModels \/ ListStoresExecute
           \/ ReadAuthorizationModelsExecute
  BY <1>1, <1>4 DEF HandleListStores, HandleReadAuthorizationModels, Listing, ListStoresExecute,
                    ReadAuthorizationModelsExecute, NextPage, Caches, Tables
<1>5. ASSUME NEW s \in Slots, NEW r \in Requests, Handle(s, r) PROVE ValidOK'
  <2>1. ASSUME NEW op, NEW a \in Starts, NEW id, Begin(s, op, a, id) PROVE ValidOK'
    <3>1. PICK f : f = [at |-> a, op |-> op, id |-> id, model |-> NoModel, since |-> Newest] OBVIOUS
    <3>2. req' = [req EXCEPT ![s] = f] /\ UNCHANGED <<rows, assertions, typesys>>
      BY <2>1, <3>1 DEF Begin, Caches, Tables
    <3>3. f.at \notin Using /\ f.model.id = 0 BY <3>1 DEF Using, Starts, NoModel
    <3> QED BY <3>2, <3>3, ValidMoves DEF ValidOK, Models
  <2>2. {"insertingStore", "gettingStore", "insertingModel", "readingModel", "resolving"} \subseteq Starts
    BY DEF Starts
  <2> QED BY <1>1, <1>5, <2>1, <2>2 DEF Handle, HandleCreateStore, HandleDeleteStore, HandleGetStore,
     HandleWriteAuthorizationModel, HandleReadAuthorizationModel, HandleQuery, HandleWriteAssertions,
     HandleReadAssertions, CreateStoreExecute, WriteAuthorizationModelExecute, Caches, Tables
<1>6. ASSUME NEW s \in Slots, Serve(s) PROVE ValidOK'
  <2>1. Models \subseteq Models'
    <3>1. CASE WriteAuthorizationModel(s) BY <3>1, WriteModelStep DEF Grows
    <3>2. CASE UNCHANGED rows BY <3>2 DEF Models
    <3> QED BY <1>6, <3>1, <3>2 DEF Serve, CreateStore, DeleteStoreExecute, GetStoreExecute, DeleteStore,
       ReadAuthorizationModelExecute, Answered, Resolve, Query, Land, Landed, Validate, QueryAnswered,
       WriteAssertionsExecute, WriteAssertions, ReadAssertionsExecute, Tables
  <2>2. ASSUME Answer(s), UNCHANGED typesys, assertions' \subseteq Models \ Invalid
        PROVE  ValidOK'
    <3>1. Idle.at = "idle" /\ "idle" \notin Using BY DEF Idle, Using
    <3> QED BY <2>1, <2>2, <3>1, ValidMoves DEF ValidOK, Answer
  <2>3. CASE CreateStore(s) \/ DeleteStore(s) \/ WriteAuthorizationModel(s) \/ GetStoreExecute(s)
             \/ Answered(s) \/ QueryAnswered(s) \/ ReadAssertionsExecute(s)
    BY <2>2, <2>3 DEF CreateStore, DeleteStore, WriteAuthorizationModel, GetStoreExecute, Answered,
       QueryAnswered, ReadAssertionsExecute, Caches, Tables, ValidOK
  <2>4. CASE DeleteStoreExecute(s)
    <3>1. UNCHANGED <<typesys, assertions>> BY <2>4 DEF DeleteStoreExecute, Caches, Tables
    <3>2. CASE Answer(s) BY <2>2, <3>1, <3>2 DEF ValidOK
    <3>3. CASE Goto(s, "deletingStore")
      <4>1. PICK q \in Record : q = req[s] BY <2>4, HasRecord DEF DeleteStoreExecute, At
      <4>2. PICK f : f = [q EXCEPT !.at = "deletingStore"] OBVIOUS
      <4>3. req' = [req EXCEPT ![s] = f] /\ f.at = "deletingStore" /\ f.model = q.model
        BY <3>3, <4>1, <4>2 DEF Goto, Record
      <4>4. q.model.id \in Models \cup {0} BY <2>4, <4>1 DEF ValidOK, DeleteStoreExecute, At
      <4> QED BY <2>1, <3>1, <4>3, <4>4, ValidMoves DEF ValidOK, Using
    <3> QED BY <2>4, <3>2, <3>3 DEF DeleteStoreExecute
  <2>5. CASE ReadAuthorizationModelExecute(s)
    <3>1. UNCHANGED <<typesys, assertions>> BY <2>5 DEF ReadAuthorizationModelExecute, Tables
    <3>2. CASE Answer(s) BY <2>2, <3>1, <3>2 DEF ValidOK
    <3>3. PICK q \in Record : q = req[s] BY <2>5, HasRecord DEF ReadAuthorizationModelExecute, At
    <3>4. PICK m : m = ReadThrough(q.id) OBVIOUS
    <3>5. CASE m # NoModel /\ req' = [req EXCEPT ![s].at = "answered", ![s].model = m]
      <4>1. q.id \in Nat BY DEF Record
      <4>2. m.id \in Models BY <3>4, <3>5, <4>1, ThroughFacts DEF ModelOK
      <4>3. PICK f : f = [q EXCEPT !.at = "answered", !.model = m] OBVIOUS
      <4>4. req' = [req EXCEPT ![s] = f] /\ f.at = "answered" /\ f.model = m
        BY <3>3, <3>5, <4>3 DEF Record
      <4> QED BY <2>1, <3>1, <3>5, <4>2, <4>4, ValidMoves DEF ValidOK, Using
    <3> QED BY <2>5, <3>2, <3>3, <3>4, <3>5 DEF ReadAuthorizationModelExecute, CachedReadAuthorizationModel
  <2>6. CASE Resolve(s)
    <3>1. UNCHANGED <<typesys, assertions>> BY <2>6 DEF Resolve, Tables
    <3>2. PICK q \in Record : q = req[s] BY <2>6, HasRecord DEF Resolve, At
    <3>3. PICK k : k = q.id OBVIOUS
    <3>4. q.model.id \in Models \cup {0} BY <2>6, <3>2 DEF ValidOK, Resolve, At
    <3>5. CASE k \in Ids(typesys) /\ Hit(s, k)
      <4>1. k \notin Invalid /\ CacheOK(typesys) BY <3>5 DEF BaseInv, ValidOK, CacheOK
      <4>2. PICK m : m = Of(typesys, k) OBVIOUS
      <4>3. m.id = k /\ k \in Models BY <3>5, <4>1, <4>2, OfFacts DEF ModelOK
      <4>4. PICK f : f = [q EXCEPT !.at = "resolved", !.model = m] OBVIOUS
      <4>5. req' = [req EXCEPT ![s] = f] /\ f.at = "resolved" /\ f.model = m
        BY <3>2, <3>5, <4>2, <4>4 DEF Record, Hit
      <4> QED BY <2>1, <3>1, <4>1, <4>3, <4>5, ValidMoves DEF ValidOK
    <3>6. CASE Join(s, k)
      <4>1. PICK f : f = [q EXCEPT !.at = "waiting", !.since = flight[k].since] OBVIOUS
      <4>2. req' = [req EXCEPT ![s] = f] /\ f.at = "waiting" /\ f.model = q.model
        BY <3>2, <3>6, <4>1 DEF Record, Join
      <4> QED BY <2>1, <3>1, <3>4, <4>2, ValidMoves DEF ValidOK, Using
    <3>7. CASE Lead(s, k)
      <4>1. PICK f : f = [q EXCEPT !.at = "querying"] OBVIOUS
      <4>2. req' = [req EXCEPT ![s] = f] /\ f.at = "querying" /\ f.model = q.model
        BY <3>2, <3>7, <4>1 DEF Record, Lead, Goto
      <4> QED BY <2>1, <3>1, <3>4, <4>2, ValidMoves DEF ValidOK, Using
    <3> QED BY <2>6, <3>2, <3>3, <3>5, <3>6, <3>7 DEF Resolve
  <2>7. CASE Query(s)
    <3>1. UNCHANGED <<rows, typesys, assertions>> /\ req[s].at = "querying" BY <2>7 DEF Query, At, Tables
    <3>2. PICK q \in Record : q = req[s] BY <3>1, HasRecord
    <3>3. PICK f : f = [q EXCEPT !.at = "landing"] OBVIOUS
    <3>4. req' = [req EXCEPT ![s] = f] /\ f.at = "landing" /\ f.model = q.model
      BY <2>7, <3>2, <3>3 DEF Record, Query, Goto
    <3>5. q.model.id \in Models \cup {0} BY <3>1, <3>2 DEF ValidOK
    <3> QED BY <2>1, <3>1, <3>4, <3>5, ValidMoves DEF ValidOK, Using
  <2>8. CASE Land(s)
    <3>1. UNCHANGED <<rows, typesys, assertions>> /\ req[s].at = "landing"
      BY <2>8 DEF Land, Landed, At, Tables
    <3>2. PICK g : g = flight[req[s].id] OBVIOUS
    <3>3. \A t \in Slots : req'[t] = IF t \in Sharing(s)
                                       THEN IF g.err \/ g.model = NoModel THEN Idle
                                            ELSE [req[t] EXCEPT !.at = "validating", !.model = g.model]
                                       ELSE req[t]
      BY <2>8, <3>2 DEF Land, Landed
    <3>4. g.model # NoModel => g.model.id \in Models
      BY <3>1, <3>2 DEF BaseInv, SlotsOK, SlotOK, Looking, Leading, FlightOK, FoundOK, ModelOK
    <3>5. \A t \in Sharing(s) : req[t].at # "idle" /\ t \in Slots BY <3>1 DEF Sharing, At
    <3>6. ASSUME NEW t \in Slots
          PROVE  /\ req'[t].at # "idle" => req'[t].model.id \in Models \cup {0}
                 /\ req'[t].at \in Using => req'[t].model.id \in Models \ Invalid
      <4>1. CASE t \notin Sharing(s) BY <3>3, <4>1 DEF ValidOK
      <4>2. CASE t \in Sharing(s) /\ req'[t] = Idle BY <4>2 DEF Idle, Using
      <4>3. CASE g.model # NoModel /\ t \in Sharing(s)
                 /\ req'[t] = [req[t] EXCEPT !.at = "validating", !.model = g.model]
        <5>1. req[t] \in Record BY <3>5, <4>3, HasRecord
        <5>2. req'[t].at = "validating" /\ req'[t].model = g.model BY <4>3, <5>1 DEF Record
        <5> QED BY <3>4, <4>3, <5>2 DEF Using
      <4> QED BY <3>3, <4>1, <4>2, <4>3
    <3> QED BY <3>1, <3>6 DEF ValidOK, Models
  <2>9. CASE Validate(s)
    <3>1. UNCHANGED <<rows, assertions>> /\ req[s].at = "validating"
      BY <2>9 DEF Validate, At, Tables
    <3>2. PICK q \in Record : q = req[s] /\ SlotOK(q) BY <3>1, HasRecord
    <3>3. q.model.id \in Models BY <3>1, <3>2 DEF SlotOK, Holding, ModelOK
    <3>4. CASE Answer(s) /\ UNCHANGED typesys BY <2>2, <3>1, <3>4 DEF ValidOK
    <3>5. CASE /\ q.model.id \notin Invalid
               /\ Goto(s, "resolved") /\ typesys' = Keep(typesys, q.model)
      <4>1. Ids(typesys') \cap Invalid = {} BY <3>5 DEF ValidOK, Ids, Keep
      <4>2. PICK f : f = [q EXCEPT !.at = "resolved"] OBVIOUS
      <4>3. req' = [req EXCEPT ![s] = f] /\ f.at = "resolved" /\ f.model = q.model
        BY <3>2, <3>5, <4>2 DEF Record, Goto
      <4> QED BY <2>1, <3>1, <3>3, <3>5, <4>1, <4>3, ValidMoves DEF ValidOK
    <3>6. CASE q.model.id \in Ids(typesys) /\ Hit(s, q.model.id) /\ UNCHANGED typesys
      <4>1. q.model.id \notin Invalid /\ CacheOK(typesys) BY <3>6 DEF BaseInv, ValidOK, CacheOK
      <4>2. PICK m : m = Of(typesys, q.model.id) OBVIOUS
      <4>3. m.id = q.model.id BY <3>6, <4>1, <4>2, OfFacts
      <4>4. PICK f : f = [q EXCEPT !.at = "resolved", !.model = m] OBVIOUS
      <4>5. req' = [req EXCEPT ![s] = f] /\ f.at = "resolved" /\ f.model = m
        BY <3>2, <3>6, <4>2, <4>4 DEF Record, Hit
      <4> QED BY <2>1, <3>1, <3>3, <3>6, <4>1, <4>3, <4>5, ValidMoves DEF ValidOK
    <3> QED BY <2>9, <3>2, <3>4, <3>5, <3>6 DEF Validate
  <2>10. CASE WriteAssertionsExecute(s)
    <3>1. UNCHANGED <<rows, typesys, assertions>> /\ req[s].at = "resolved"
      BY <2>10 DEF WriteAssertionsExecute, At, Tables
    <3>2. PICK q \in Record : q = req[s] BY <3>1, HasRecord
    <3>3. q.model.id \in Models \ Invalid BY <3>1, <3>2 DEF ValidOK, Using
    <3>5. CASE Answer(s) BY <2>2, <3>1, <3>5 DEF ValidOK
    <3>6. CASE req' = [req EXCEPT ![s].at = "writingAssertions"]
      <4>1. PICK f : f = [q EXCEPT !.at = "writingAssertions"] OBVIOUS
      <4>2. req' = [req EXCEPT ![s] = f] /\ f.model = q.model BY <3>2, <3>6, <4>1 DEF Record
      <4> QED BY <2>1, <3>1, <3>3, <4>2, ValidMoves DEF ValidOK
    <3> QED BY <2>10, <3>5, <3>6 DEF WriteAssertionsExecute
  <2>11. CASE WriteAssertions(s)
    <3>1. req[s].model.id \in Models \ Invalid BY <2>11 DEF WriteAssertions, At, ValidOK, Using
    <3> QED BY <2>2, <2>11, <3>1 DEF WriteAssertions, Caches, ValidOK
  <2> QED BY <1>6, <2>3, <2>4, <2>5, <2>6, <2>7, <2>8, <2>9, <2>10, <2>11 DEF Serve
<1> QED BY <1>2, <1>3, <1>4, <1>5, <1>6 DEF CatalogNext

(* The variables keep their types, a model that is no longer valid never   *)
(* enters the cache of the resolver, and no assertions are ever kept for   *)
(* one, through whichever of the three ways a request came by its model.   *)
THEOREM CatalogTypes == CatalogSpec => []CatalogTypeOK
<1>1. CatalogInit => ListOK BY DEF CatalogInit, ListOK
<1>2. CatalogInit => ValidOK
  BY DEF CatalogInit, ValidOK, Idle, Using, Ids
<1>3. CatalogInit => Bounds
  <2> SUFFICES ASSUME CatalogInit PROVE Bounds
    OBVIOUS
  <2>1. drawn \in Nat BY BaseInvInit DEF BaseInv, RowsOK
  <2> QED BY <2>1, CatalogAssumption DEF CatalogInit, Bounds, NoList
<1>4. BaseInv /\ ValidOK /\ Bounds => CatalogTypeOK
  <2> SUFFICES ASSUME BaseInv, ValidOK, Bounds PROVE CatalogTypeOK
    OBVIOUS
  <2>1. \A i \in DOMAIN stores : i \in 1..drawn /\ stores[i] \in BOOLEAN BY DEF BaseInv, StoresOK
  <2>2. Models \subseteq 1..drawn BY DEF BaseInv, RowsOK, Row, Models
  <2>3. drawn \in First..(First + MaxRequests) BY CatalogAssumption DEF Bounds
  <2>4. Ids(read) \subseteq Models /\ Ids(typesys) \subseteq Models \ Invalid
    BY DEF BaseInv, ValidOK, CacheOK, ModelOK, Ids
  <2> QED BY <2>1, <2>2, <2>3, <2>4 DEF CatalogTypeOK, ValidOK, Bounds, At
<1> QED BY <1>1, <1>2, <1>3, <1>4, BaseInvInit, BaseInvStep, ListOKStep, ValidStep, BoundsStep, PTL
        DEF CatalogSpec

-----------------------------------------------------------------------------
(* Requests come to their ends. *)

(* The requests that work with a model, and where they do.                 *)
ModelOps == {"query", "writeAssertions", "readAssertions"}
WithModel == Looking \cup {"resolving", "validating", "resolved"}
KindOK(q) ==
    /\ q.at = "gettingStore" => q.op \in {"deleteStore", "getStore"}
    /\ q.at \in WithModel => q.op \in ModelOps
KindsOK == \A s \in Slots : KindOK(req[s])

(* A request of which the next statement is ready: guards of Serve.        *)
IsServed(s) ==
    \/ req[s].at \in (Stages \ {"gettingStore", "resolved", "waiting"})
    \/ At(s, "gettingStore") /\ req[s].op \in {"deleteStore", "getStore"}
    \/ At(s, "resolved") /\ req[s].op \in ModelOps

(* Every request goes on or waits for the lookup of one that does. (The    *)
(* state predicate behind RequestsEnd.)                                    *)
NobodyIsLeftBehind ==
    \A s \in Slots : ~At(s, "idle") =>
        \/ IsServed(s)
        \/ At(s, "waiting") /\ \E t \in Slots : IsServed(t) /\ req[t].at \in Leading /\ req[t].id = req[s].id

(* The most statements a request has before it at each stage.              *)
StagesLeft(at) ==
    CASE at = "idle" -> 0
      [] at \in {"resolved", "readingModel", "gettingStore"} -> 2
      [] at = "validating" -> 3
      [] at \in {"landing", "waiting"} -> 4
      [] at = "querying" -> 5
      [] at = "resolving" -> 6
      [] OTHER -> 1

(* No step puts a request back: it stays as it is or has fewer before it.  *)
OnlyForward ==
    \A s \in Slots : At(s, "idle") \/ req'[s] = req[s] \/ StagesLeft(req'[s].at) < StagesLeft(req[s].at)

(* One request moves on.                                                   *)
LEMMA MovesForward ==
    ASSUME BaseInv, KindsOK, NEW s \in Slots, NEW f, req' = [req EXCEPT ![s] = f], KindOK(f),
           req[s].at = "idle" \/ StagesLeft(f.at) < StagesLeft(req[s].at)
    PROVE  KindsOK' /\ OnlyForward
<1>1. req'[s] = f /\ \A t \in Slots \ {s} : req'[t] = req[t] BY DEF BaseInv, SlotsOK
<1>2. KindsOK' BY <1>1 DEF KindsOK, KindOK
<1>3. OnlyForward BY <1>1 DEF OnlyForward, At
<1> QED BY <1>2, <1>3

(* Every step of the server leaves requests where they are or moves them   *)
(* forward.                                                                *)
LEMMA ForwardStep == BaseInv /\ KindsOK /\ [CatalogNext]_catalogVars => KindsOK' /\ OnlyForward
<1> SUFFICES ASSUME BaseInv, KindsOK, [CatalogNext]_catalogVars PROVE KindsOK' /\ OnlyForward
  OBVIOUS
<1> DEFINE Goal == KindsOK' /\ OnlyForward
<1>0. req \in [Slots -> {Idle} \cup Record] BY DEF BaseInv, SlotsOK
<1>1. ASSUME UNCHANGED req PROVE Goal
  <2>1. KindsOK' BY <1>1 DEF KindsOK, KindOK
  <2> QED BY <1>1, <2>1 DEF OnlyForward
<1>2. CASE UNCHANGED catalogVars BY <1>1, <1>2 DEF catalogVars
<1>3. CASE Evict BY <1>1, <1>3 DEF Evict
<1>4. CASE HandleListStores \/ HandleReadAuthorizationModels \/ ListStoresExecute
           \/ ReadAuthorizationModelsExecute
  BY <1>1, <1>4 DEF HandleListStores, HandleReadAuthorizationModels, Listing, ListStoresExecute,
                    ReadAuthorizationModelsExecute, NextPage
<1>5. ASSUME NEW s \in Slots, NEW r \in Requests, Handle(s, r) PROVE Goal
  <2>1. ASSUME NEW op, NEW a, NEW id, Begin(s, op, a, id),
               a = "gettingStore" => op \in {"deleteStore", "getStore"},
               a \in WithModel => op \in ModelOps
        PROVE  Goal
    <3>1. PICK f : f = [at |-> a, op |-> op, id |-> id, model |-> NoModel, since |-> Newest] OBVIOUS
    <3>2. req' = [req EXCEPT ![s] = f] /\ req[s].at = "idle" BY <2>1, <3>1 DEF Begin, At
    <3>3. KindOK(f) BY <2>1, <3>1 DEF KindOK
    <3> QED BY <3>2, <3>3, MovesForward
  <2>2. {"insertingStore", "gettingStore", "insertingModel", "readingModel"} \cap WithModel = {}
    BY DEF WithModel, Looking, Leading
  <2>3. "query" \in ModelOps /\ "writeAssertions" \in ModelOps /\ "readAssertions" \in ModelOps
    BY DEF ModelOps
  <2> HIDE DEF Goal
  <2> QED BY <1>1, <1>5, <2>1, <2>2, <2>3 DEF Handle, HandleCreateStore, HandleDeleteStore, HandleGetStore,
     HandleWriteAuthorizationModel, HandleReadAuthorizationModel, HandleQuery, HandleWriteAssertions,
     HandleReadAssertions, CreateStoreExecute, WriteAuthorizationModelExecute
<1>6. ASSUME NEW s \in Slots, Answer(s), req[s].at # "idle" PROVE Goal
  <2>1. req[s] \in Record BY <1>0, <1>6 DEF Idle
  <2>2. StagesLeft(Idle.at) = 0 /\ StagesLeft(req[s].at) > 0
    BY <1>6, <2>1 DEF StagesLeft, Idle
  <2>3. KindOK(Idle) BY DEF KindOK, Idle, WithModel, Looking, Leading
  <2> QED BY <1>6, <2>2, <2>3, MovesForward DEF Answer
<1>7. ASSUME NEW s \in Slots, NEW a, req[s] \in Record, KindOK([req[s] EXCEPT !.at = a]),
             StagesLeft(a) < StagesLeft(req[s].at), Goto(s, a)
      PROVE  Goal
  <2>1. PICK f : f = [req[s] EXCEPT !.at = a] OBVIOUS
  <2>2. req' = [req EXCEPT ![s] = f] /\ f.at = a BY <1>7, <2>1 DEF Goto, Record
  <2> QED BY <1>7, <2>1, <2>2, MovesForward
<1>8. ASSUME NEW s \in Slots, CreateStore(s) \/ GetStoreExecute(s) \/ DeleteStore(s)
             \/ WriteAuthorizationModel(s) \/ Answered(s) \/ QueryAnswered(s) \/ WriteAssertions(s)
             \/ ReadAssertionsExecute(s)
      PROVE  Goal
  BY <1>6, <1>8 DEF CreateStore, GetStoreExecute, DeleteStore, WriteAuthorizationModel, Answered,
     QueryAnswered, WriteAssertions, ReadAssertionsExecute, At
<1>9. ASSUME NEW s \in Slots, DeleteStoreExecute(s) PROVE Goal
  <2>1. req[s] \in Record /\ req[s].at = "gettingStore" BY <1>9, HasRecord DEF DeleteStoreExecute, At
  <2>2. CASE Answer(s) BY <1>6, <2>1, <2>2
  <2>3. CASE Goto(s, "deletingStore")
    <3>1. KindOK([req[s] EXCEPT !.at = "deletingStore"]) BY <2>1 DEF KindOK, WithModel, Looking, Leading, Record
    <3>2. StagesLeft("deletingStore") = 1 /\ StagesLeft(req[s].at) = 2 BY <2>1 DEF StagesLeft
    <3> QED BY <1>7, <2>1, <2>3, <3>1, <3>2
  <2> QED BY <1>9, <2>2, <2>3 DEF DeleteStoreExecute
<1>10. ASSUME NEW s \in Slots, ReadAuthorizationModelExecute(s) PROVE Goal
  <2>1. req[s] \in Record /\ req[s].at = "readingModel" BY <1>10, HasRecord DEF ReadAuthorizationModelExecute, At
  <2>2. CASE Answer(s) BY <1>6, <2>1, <2>2
  <2>3. ASSUME NEW m, req' = [req EXCEPT ![s].at = "answered", ![s].model = m] PROVE Goal
    <3>1. PICK f : f = [req[s] EXCEPT !.at = "answered", !.model = m] OBVIOUS
    <3>2. req' = [req EXCEPT ![s] = f] /\ f.at = "answered" BY <1>0, <2>1, <2>3, <3>1 DEF Record
    <3>3. KindOK(f) BY <3>2 DEF KindOK, WithModel, Looking, Leading
    <3>4. StagesLeft(f.at) = 1 /\ StagesLeft(req[s].at) = 2 BY <2>1, <3>2 DEF StagesLeft
    <3>5. StagesLeft(f.at) < StagesLeft(req[s].at) BY <3>4
    <3> QED BY <3>2, <3>3, <3>5, MovesForward
  <2> HIDE DEF Goal
  <2> QED BY <1>10, <2>2, <2>3 DEF ReadAuthorizationModelExecute, CachedReadAuthorizationModel
<1>11. ASSUME NEW s \in Slots, Resolve(s) PROVE Goal
  <2>1. PICK k : k = req[s].id OBVIOUS
  <2>2. req[s].at = "resolving" /\ req[s] \in Record BY <1>11, HasRecord DEF Resolve, At
  <2>3. req[s].op \in ModelOps BY <2>2 DEF KindsOK, KindOK, WithModel
  <2>4. StagesLeft(req[s].at) = 6 BY <2>2 DEF StagesLeft
  <2>5. ASSUME NEW f, req' = [req EXCEPT ![s] = f], f.op = req[s].op,
               f.at \in {"resolved", "waiting", "querying"}
        PROVE  Goal
    <3>1. KindOK(f) BY <2>3, <2>5 DEF KindOK
    <3>2. StagesLeft(f.at) \in 2..5 BY <2>5 DEF StagesLeft
    <3>3. StagesLeft(f.at) < StagesLeft(req[s].at) BY <2>4, <3>2
    <3> QED BY <2>5, <3>1, <3>3, MovesForward
  <2>6. CASE Hit(s, k)
    <3>1. PICK f : f = [req[s] EXCEPT !.at = "resolved", !.model = Of(typesys, k)] OBVIOUS
    <3>2. req' = [req EXCEPT ![s] = f] BY <1>0, <2>2, <2>6, <3>1 DEF Hit, Record
    <3>3. f.op = req[s].op /\ f.at = "resolved" BY <2>2, <3>1 DEF Record
    <3> QED BY <2>5, <3>2, <3>3
  <2>7. CASE Join(s, k)
    <3>1. PICK f : f = [req[s] EXCEPT !.at = "waiting", !.since = flight[k].since] OBVIOUS
    <3>2. req' = [req EXCEPT ![s] = f] BY <1>0, <2>2, <2>7, <3>1 DEF Join, Record
    <3>3. f.op = req[s].op /\ f.at = "waiting" BY <2>2, <3>1 DEF Record
    <3> QED BY <2>5, <3>2, <3>3
  <2>8. CASE Lead(s, k)
    <3>1. PICK f : f = [req[s] EXCEPT !.at = "querying"] OBVIOUS
    <3>2. req' = [req EXCEPT ![s] = f] BY <2>8, <3>1 DEF Lead, Goto
    <3>3. f.op = req[s].op /\ f.at = "querying" BY <2>2, <3>1 DEF Record
    <3> QED BY <2>5, <3>2, <3>3
  <2> HIDE DEF Goal
  <2> QED BY <1>11, <2>1, <2>6, <2>7, <2>8 DEF Resolve
<1>12. ASSUME NEW s \in Slots, Query(s) PROVE Goal
  <2>1. req[s] \in Record /\ req[s].at = "querying" BY <1>12, HasRecord DEF Query, At
  <2>2. req[s].op \in ModelOps BY <2>1 DEF KindsOK, KindOK, WithModel, Looking, Leading
  <2>3. KindOK([req[s] EXCEPT !.at = "landing"]) BY <2>1, <2>2 DEF KindOK, Record
  <2>4. StagesLeft("landing") = 4 /\ StagesLeft(req[s].at) = 5 BY <2>1 DEF StagesLeft
  <2> QED BY <1>7, <1>12, <2>1, <2>3, <2>4 DEF Query
<1>13. ASSUME NEW s \in Slots, Land(s) PROVE Goal
  <2>1. PICK f : f = flight[req[s].id] OBVIOUS
  <2>2. \A t \in Slots : \/ req'[t] = req[t]
                         \/ t \in Sharing(s) /\ req'[t] = Idle
                         \/ t \in Sharing(s) /\ req'[t] = [req[t] EXCEPT !.at = "validating", !.model = f.model]
    BY <1>13, <2>1 DEF Land, Landed
  <2>3. \A t \in Sharing(s) : req[t].at \in {"landing", "waiting"} /\ req[t] \in Record
    BY <1>13, HasRecord DEF Land, Landed, Sharing, At
  <2>4. ASSUME NEW t \in Slots
        PROVE  KindOK(req'[t]) /\ (At(t, "idle") \/ req'[t] = req[t] \/ StagesLeft(req'[t].at) < StagesLeft(req[t].at))
    <3>1. CASE req'[t] = req[t] BY <3>1 DEF KindsOK
    <3>2. CASE t \in Sharing(s) /\ req'[t] = Idle
      <4>1. StagesLeft(req[t].at) = 4 BY <2>3, <3>2 DEF StagesLeft
      <4>2. StagesLeft(req'[t].at) = 0 BY <3>2 DEF StagesLeft, Idle
      <4>3. KindOK(req'[t]) BY <3>2 DEF KindOK, Idle, WithModel, Looking, Leading
      <4> QED BY <4>1, <4>2, <4>3
    <3>3. CASE t \in Sharing(s) /\ req'[t] = [req[t] EXCEPT !.at = "validating", !.model = f.model]
      <4>1. req'[t].at = "validating" /\ req'[t].op = req[t].op BY <2>3, <3>3 DEF Record
      <4>2. StagesLeft(req[t].at) = 4 BY <2>3, <3>3 DEF StagesLeft
      <4>3. StagesLeft(req'[t].at) = 3 BY <4>1 DEF StagesLeft
      <4>4. req[t].op \in ModelOps BY <2>3, <3>3 DEF KindsOK, KindOK, WithModel, Looking, Leading
      <4>5. KindOK(req'[t]) BY <4>1, <4>4 DEF KindOK
      <4> QED BY <4>2, <4>3, <4>5
    <3> QED BY <2>2, <3>1, <3>2, <3>3
  <2> QED BY <2>4 DEF KindsOK, KindOK, OnlyForward
<1>14. ASSUME NEW s \in Slots, Validate(s) PROVE Goal
  <2>1. req[s] \in Record /\ req[s].at = "validating" BY <1>14, HasRecord DEF Validate, At
  <2>2. CASE Answer(s) BY <1>6, <2>1, <2>2
  <2>3. CASE Goto(s, "resolved")
    <3>1. req[s].op \in ModelOps BY <2>1 DEF KindsOK, KindOK, WithModel
    <3>2. KindOK([req[s] EXCEPT !.at = "resolved"]) BY <2>1, <3>1 DEF KindOK, Record
    <3>3. StagesLeft("resolved") = 2 /\ StagesLeft(req[s].at) = 3 BY <2>1 DEF StagesLeft
    <3> QED BY <1>7, <2>1, <2>3, <3>2, <3>3
  <2>4. ASSUME NEW k, Hit(s, k) PROVE Goal
    <3>1. PICK f : f = [req[s] EXCEPT !.at = "resolved", !.model = Of(typesys, k)] OBVIOUS
    <3>2. req' = [req EXCEPT ![s] = f] BY <1>0, <2>1, <2>4, <3>1 DEF Hit, Record
    <3>3. f.op = req[s].op /\ f.at = "resolved" BY <2>1, <3>1 DEF Record
    <3>4. KindOK(f) BY <2>1, <3>3 DEF KindsOK, KindOK, WithModel
    <3>5. StagesLeft(f.at) = 2 /\ StagesLeft(req[s].at) = 3 BY <2>1, <3>3 DEF StagesLeft
    <3>6. StagesLeft(f.at) < StagesLeft(req[s].at) BY <3>5
    <3> QED BY <3>2, <3>4, <3>6, MovesForward
  <2> HIDE DEF Goal
  <2> QED BY <1>14, <2>2, <2>3, <2>4 DEF Validate
<1>15. ASSUME NEW s \in Slots, WriteAssertionsExecute(s) PROVE Goal
  <2>1. req[s] \in Record /\ req[s].at = "resolved" BY <1>15, HasRecord DEF WriteAssertionsExecute, At
  <2>2. CASE Answer(s) BY <1>6, <2>1, <2>2
  <2>3. CASE Goto(s, "writingAssertions")
    <3>1. KindOK([req[s] EXCEPT !.at = "writingAssertions"])
      BY <2>1 DEF KindOK, WithModel, Looking, Leading, Record
    <3>2. StagesLeft("writingAssertions") = 1 /\ StagesLeft(req[s].at) = 2 BY <2>1 DEF StagesLeft
    <3> QED BY <1>7, <2>1, <2>3, <3>1, <3>2
  <2> QED BY <1>15, <2>2, <2>3 DEF WriteAssertionsExecute, Goto
<1> HIDE DEF Goal
<1>16. ASSUME NEW s \in Slots, Serve(s) PROVE Goal
  BY <1>8, <1>9, <1>10, <1>11, <1>12, <1>13, <1>14, <1>15, <1>16 DEF Serve
<1>17. ASSUME NEW s \in Slots, Serve(s) \/ \E r \in Requests : Handle(s, r) PROVE KindsOK' /\ OnlyForward
  BY <1>5, <1>16, <1>17 DEF Goal
<1> QED BY <1>2, <1>3, <1>4, <1>17 DEF CatalogNext

(* Whoever is not idle has a statement ready, or waits for a request that  *)
(* has.                                                                    *)
LEMMA SomebodyServes == BaseInv /\ KindsOK /\ Led => NobodyIsLeftBehind
<1> SUFFICES ASSUME BaseInv, KindsOK, Led, NEW s \in Slots, ~At(s, "idle"), ~IsServed(s)
             PROVE  /\ At(s, "waiting")
                    /\ \E t \in Slots : IsServed(t) /\ req[t].at \in Leading /\ req[t].id = req[s].id
  BY DEF NobodyIsLeftBehind
<1>1. req[s] \in Record BY HasRecord DEF At
<1>2. req[s].at \in Stages BY <1>1 DEF Record
<1>3. At(s, "waiting")
  BY <1>2 DEF IsServed, At, KindsOK, KindOK, WithModel
<1>4. req[s].id \in DOMAIN flight BY <1>3 DEF BaseInv, SlotsOK, SlotOK, Looking, At
<1>5. PICK t \in Slots : req[t].at \in Leading /\ req[t].id = req[s].id BY <1>4 DEF Led
<1>6. IsServed(t) BY <1>5 DEF IsServed, Leading, Stages
<1> QED BY <1>3, <1>5, <1>6

(* No request about stores, models or assertions is ever left behind: it   *)
(* has a statement ready or shares the lookup of one that has, whether     *)
(* statements fail or not, and no step sends it back.                      *)
THEOREM RequestsAreServed == CatalogSpec => []NobodyIsLeftBehind /\ [][OnlyForward]_catalogVars
<1>1. CatalogInit => Led
  <2> SUFFICES ASSUME CatalogInit PROVE Led
    OBVIOUS
  <2>1. DOMAIN flight = {} BY DEF CatalogInit
  <2> QED BY <2>1 DEF Led
<1>2. CatalogInit => KindsOK
  BY DEF CatalogInit, KindsOK, KindOK, Idle, WithModel, Looking, Leading
<1> QED BY <1>1, <1>2, BaseInvInit, BaseInvStep, LedStep, ForwardStep, SomebodyServes, PTL DEF CatalogSpec

=============================================================================
