---------------------------- MODULE PortalProofs ----------------------------
(***************************************************************************)
(* The portal for any users, tables, edits and permissions, any number of  *)
(* requests at a time and of failures: the container reuses its store, the *)
(* tables stay whole, a menu lies between what was allowed all the time    *)
(* and at some time, and a page shows its own user's.                      *)
(***************************************************************************)
EXTENDS MenuPage, FiniteSetTheorems, TLAPS

-----------------------------------------------------------------------------
(* The store of the container. *)

Stages == {"stopped", "migrating", "waiting", "listing", "creating", "models",
           "uploading", "retrying", "serving"}
BoxType  == [at : Stages, store : Nat, misled : BOOLEAN]
Early    == {"stopped", "migrating", "waiting", "listing", "creating"}
StoreRow == [model : BOOLEAN, tuples : SUBSET Grants]

StartTypes ==
    /\ migrated \in BOOLEAN /\ misreads \in Nat
    /\ stores \in Seq(StoreRow)
    /\ box \in BoxType

(* Stores are there only in a migrated database; the script has none until *)
(* it lists or creates one, and it creates one for an empty list or for an *)
(* error it took for one although there was a store, which is counted.     *)
StoreInv ==
    /\ StartTypes
    /\ stores # <<>> => migrated
    /\ Len(stores) <= 1 + misreads
    /\ box.at \in Early => box.store = NoStore
    /\ box.at = "creating" => IF box.misled THEN Len(stores) <= misreads ELSE stores = <<>>
    /\ box.store <= Len(stores)
    /\ box.store > 1 => box.misled

(* A change of one store's row keeps the others and their number.          *)
LEMMA StoreChange ==
    ASSUME NEW ss \in Seq(StoreRow), NEW b \in 1..Len(ss), NEW row \in StoreRow
    PROVE  /\ [ss EXCEPT ![b] = row] \in Seq(StoreRow)
           /\ Len([ss EXCEPT ![b] = row]) = Len(ss)
OBVIOUS

(* A row with another model or with other tuples is a row.                 *)
LEMMA RowChange ==
    ASSUME NEW row \in StoreRow, NEW m \in BOOLEAN, NEW T \in SUBSET Grants
    PROVE  [row EXCEPT !.model = m] \in StoreRow /\ [row EXCEPT !.tuples = T] \in StoreRow
BY DEF StoreRow

(* The script moves on, with what it has or with nothing.                  *)
LEMMA ScriptMoves ==
    ASSUME StoreInv, UNCHANGED stores, migrated' \in BOOLEAN, migrated => migrated',
           misreads' \in {misreads, misreads + 1},
           box' \in BoxType, box'.at # "creating", box'.at \in Early => box'.store = NoStore,
           box'.store = NoStore \/ (box'.store = box.store /\ box'.misled = box.misled)
    PROVE  StoreInv'
BY DEF StoreInv, StartTypes, NoStore

LEMMA ExitFacts ==
    ASSUME Exit
    PROVE  box' \in BoxType /\ box'.at = "stopped" /\ box'.store = NoStore
BY DEF Exit, Script, BoxType, Stages, NoStore

LEMMA MoveFacts ==
    ASSUME StoreInv, NEW at \in Stages, box' = [box EXCEPT !.at = at]
    PROVE  box' \in BoxType /\ box'.at = at /\ box'.store = box.store /\ box'.misled = box.misled
BY DEF StoreInv, StartTypes, BoxType

LEMMA StoreInitially == Init => StoreInv
<1> SUFFICES ASSUME Init PROVE StoreInv
  OBVIOUS
<1>1. stores \in Seq(StoreRow) /\ Len(stores) <= 1
  <2> DEFINE old == [model |-> TRUE, tuples |-> OldTuples]
  <2>1. old \in StoreRow BY UsersAssumption DEF StoreRow
  <2>2. stores = <<>> \/ stores = <<old>> BY DEF Init, StartInit
  <2> HIDE DEF old
  <2>3. <<old>> \in Seq(StoreRow) /\ Len(<<old>>) = 1 BY <2>1
  <2>4. <<>> \in Seq(StoreRow) /\ Len(<<>>) = 0 OBVIOUS
  <2>5. CASE stores = <<>> BY <2>4, <2>5
  <2>6. CASE stores = <<old>> BY <2>3, <2>6
  <2> QED BY <2>2, <2>5, <2>6
<1>2. stores # <<>> => migrated BY DEF Init, StartInit
<1>3. migrated \in BOOLEAN /\ misreads = 0 BY DEF Init, StartInit
<1>4. box \in BoxType /\ box.at = "stopped" /\ box.store = NoStore
  BY DEF Init, StartInit, Script, BoxType, Stages, NoStore
<1> QED BY <1>1, <1>2, <1>3, <1>4 DEF StoreInv, StartTypes, NoStore

(* A step of the container keeps it.                                       *)
LEMMA StoreContainerStep ==
    ASSUME StoreInv, Step \/ OpenFGAComesUp \/ OpenFGADies \/ ContainerStops
    PROVE  StoreInv'
<1> USE DEF Stages, Early
<1>0. migrated \in BOOLEAN /\ misreads \in Nat /\ box \in BoxType /\ stores \in Seq(StoreRow)
      /\ Len(stores) \in Nat
  BY DEF StoreInv, StartTypes
<1>1. CASE Start
  <2>1. box' \in BoxType /\ box'.at = "migrating" /\ box'.store = NoStore
    BY <1>1 DEF Start, Script, BoxType, NoStore
  <2> QED BY <1>0, <1>1, <2>1, ScriptMoves DEF Start
<1>2. CASE Migrate
  <2>1. box.store = NoStore BY <1>2 DEF Migrate, StoreInv
  <2>2. box' \in BoxType /\ box'.at = "waiting" /\ box'.store = box.store BY <1>2, MoveFacts DEF Migrate
  <2> QED BY <1>0, <1>2, <2>1, <2>2, ScriptMoves DEF Migrate
<1>3. CASE WaitForOpenFGA
  <2>1. box.store = NoStore BY <1>3 DEF WaitForOpenFGA, StoreInv
  <2>2. box' \in BoxType /\ box'.at \in {"listing", "serving", "stopped"} /\ box'.store = NoStore
    BY <1>3, <2>1, MoveFacts, ExitFacts DEF WaitForOpenFGA
  <2> QED BY <1>0, <1>3, <2>2, ScriptMoves DEF WaitForOpenFGA
<1>4. CASE ListStores
  <2>1. box.at = "listing" /\ box.store = NoStore /\ UNCHANGED <<migrated, stores>>
    BY <1>4 DEF ListStores, StoreInv
  <2>2. CASE Calm /\ stores = <<>> /\ box' = [box EXCEPT !.at = "creating"]
    <3>1. box' \in BoxType /\ box'.at = "creating" /\ box'.store = box.store /\ box'.misled = box.misled
      BY <2>2, MoveFacts
    <3> QED BY <2>1, <2>2, <3>1 DEF StoreInv, StartTypes, Calm, NoStore
  <2>3. CASE Calm /\ stores # <<>> /\ box' = [box EXCEPT !.at = "models", !.store = 1]
    <3>1. box' \in BoxType /\ box'.at = "models" /\ box'.store = 1 BY <1>0, <2>3 DEF BoxType
    <3>2. Len(stores) >= 1 BY <1>0, <2>3
    <3> QED BY <2>1, <2>3, <3>1, <3>2 DEF StoreInv, StartTypes, Calm, NoStore
  <2>4. CASE /\ misreads' = IF stores = <<>> THEN misreads ELSE misreads + 1
             /\ box' = [box EXCEPT !.at = "creating", !.misled = stores # <<>>]
    <3>1. /\ box' \in BoxType /\ box'.at = "creating" /\ box'.store = box.store
          /\ box'.misled = (stores # <<>>)
      BY <1>0, <2>4 DEF BoxType
    <3> QED BY <1>0, <2>1, <2>4, <3>1 DEF StoreInv, StartTypes, NoStore
  <2>5. CASE Refused /\ Calm
    BY <1>0, <2>1, <2>5, ExitFacts, ScriptMoves DEF Refused, Calm
  <2> QED BY <1>4, <2>2, <2>3, <2>4, <2>5 DEF ListStores
<1>5. CASE CreateStore
  <2>1. box.at = "creating" /\ box.store = NoStore /\ UNCHANGED migrated
    BY <1>5 DEF CreateStore, StoreInv
  <2>2. ASSUME Answers, UNCHANGED misreads, stores' = Append(stores, NewStore), box' \in BoxType,
               box'.at \notin {"creating"}, box'.at \in Early => box'.store = NoStore,
               box'.store \in {NoStore, Len(stores')}, box'.store # NoStore => box'.misled = box.misled
        PROVE  StoreInv'
    <3>1. NewStore \in StoreRow BY DEF NewStore, StoreRow
    <3>2. stores' \in Seq(StoreRow) /\ Len(stores') = Len(stores) + 1 BY <1>0, <2>2, <3>1
    <3>3. migrated BY <2>2 DEF Answers
    <3>4. IF box.misled THEN Len(stores) <= misreads ELSE Len(stores) = 0 BY <2>1 DEF StoreInv
    <3> QED BY <1>0, <2>1, <2>2, <3>2, <3>3, <3>4 DEF StoreInv, StartTypes, NoStore
  <2>3. CASE Answers /\ Calm /\ stores' = Append(stores, NewStore)
             /\ box' = [box EXCEPT !.at = "models", !.store = Len(stores')]
    <3>1. Len(stores') \in Nat BY <1>0, <2>3 DEF NewStore, StoreRow
    <3>2. box' \in BoxType /\ box'.at = "models" /\ box'.store = Len(stores') /\ box'.misled = box.misled
      BY <1>0, <2>3, <3>1 DEF BoxType
    <3> QED BY <2>2, <2>3, <3>2 DEF Calm
  <2>4. CASE Failure /\ box' = [box EXCEPT !.at = "models"] /\ UNCHANGED stores
    BY <1>0, <2>1, <2>4, MoveFacts, ScriptMoves DEF Failure
  <2>5. CASE Answers /\ stores' = Append(stores, NewStore) /\ Exit /\ UNCHANGED misreads
    BY <2>2, <2>5, ExitFacts
  <2>6. CASE Refused /\ Calm /\ UNCHANGED stores
    BY <1>0, <2>1, <2>6, ExitFacts, ScriptMoves DEF Refused, Calm
  <2> QED BY <1>5, <2>3, <2>4, <2>5, <2>6 DEF CreateStore
<1>6. CASE ListModels
  <2>1. UNCHANGED <<migrated, stores>> BY <1>6 DEF ListModels
  <2>2. misreads' \in {misreads, misreads + 1} BY <1>6 DEF ListModels, Calm, Failure
  <2>3. Exit \/ \E at \in {"serving", "uploading"} : box' = [box EXCEPT !.at = at]
    BY <1>6 DEF ListModels, Refused
  <2> QED BY <1>0, <2>1, <2>2, <2>3, ExitFacts, MoveFacts, ScriptMoves
<1>7. CASE UploadModel
  <2>1. UNCHANGED migrated /\ misreads' \in {misreads, misreads + 1}
    BY <1>7 DEF UploadModel, Calm, Failure
  <2>2. Exit \/ \E at \in {"serving", "retrying"} : box' = [box EXCEPT !.at = at]
    BY <1>7 DEF UploadModel, Refused
  <2>3. CASE UNCHANGED stores
    BY <1>0, <2>1, <2>2, <2>3, ExitFacts, MoveFacts, ScriptMoves
  <2>4. CASE box.store # NoStore /\ stores' = [stores EXCEPT ![box.store].model = TRUE]
    <3>1. box.store \in 1..Len(stores) BY <1>0, <2>4 DEF StoreInv, BoxType, NoStore
    <3>2. [stores[box.store] EXCEPT !.model = TRUE] \in StoreRow
      <4>1. stores[box.store] \in StoreRow BY <1>0, <3>1
      <4> QED BY <4>1, RowChange
    <3>3. stores' = [stores EXCEPT ![box.store] = [stores[box.store] EXCEPT !.model = TRUE]] BY <2>4
    <3>4. stores' \in Seq(StoreRow) /\ Len(stores') = Len(stores) BY <1>0, <3>1, <3>2, <3>3, StoreChange
    <3>5. /\ box' \in BoxType /\ box'.at \notin {"creating"} /\ (box'.at \in Early => box'.store = NoStore)
          /\ box'.store = NoStore \/ (box'.store = box.store /\ box'.misled = box.misled)
      BY <2>2, ExitFacts, MoveFacts
    <3>6. stores # <<>> /\ stores' # <<>> BY <1>0, <3>1, <3>4
    <3> QED BY <1>0, <2>1, <3>4, <3>5, <3>6 DEF StoreInv, StartTypes, NoStore
  <2> QED BY <1>7, <2>3, <2>4 DEF UploadModel
<1>8. CASE RetryModel
  <2>1. Exit \/ box' = [box EXCEPT !.at = "serving"] BY <1>8 DEF RetryModel, Refused
  <2> QED BY <1>0, <1>8, <2>1, ExitFacts, MoveFacts, ScriptMoves DEF RetryModel
<1>9. CASE OpenFGAComesUp \/ OpenFGADies
  BY <1>9 DEF OpenFGAComesUp, OpenFGADies, StoreInv, StartTypes
<1>10. CASE ContainerStops
  BY <1>0, <1>10, ExitFacts, ScriptMoves DEF ContainerStops
<1> QED BY <1>1, <1>2, <1>3, <1>4, <1>5, <1>6, <1>7, <1>8, <1>9, <1>10 DEF Step

(* A request for the menu service leaves the container alone; a grant or a *)
(* revocation changes the tuples of the container's store.                 *)
LEMMA RequestsLeaveContainer ==
    ASSUME MenuStep
    PROVE  /\ UNCHANGED <<migrated, box, misreads, openfga>>
           /\ \/ UNCHANGED stores
              \/ box.store # NoStore /\ \E t \in Grants : Written(t) \/ Deleted(t)
<1>1. ASSUME NEW s \in Slots, Serve(s) PROVE Stay
  BY <1>1 DEF Serve, SaveItem, SaveConfig, LoadItem, LookForGroup, SaveItemUpdate, RemoveItem,
              SaveGroup, LoadGroup, SaveGroupUpdate, RemoveGroup
<1>2. ASSUME NEW s \in Slots, NEW u \in Users, NEW call \in Calls, Edit(s, u, call)
      PROVE  UNCHANGED <<migrated, stores, box, openfga, misreads>>
  BY <1>2 DEF Edit, CreateMenuItem, UpdateMenuItem, DeleteMenuItem, CreateMenuGroup, UpdateMenuGroup,
              DeleteMenuGroup, Begin
<1> QED BY <1>1, <1>2 DEF MenuStep, AddUserPermission, WriteTuple, Reachable, HasModel, Stay,
                           startVars

LEMMA StoreMenuStep == StoreInv /\ MenuStep => StoreInv'
<1> SUFFICES ASSUME StoreInv, MenuStep PROVE StoreInv'
  OBVIOUS
<1>1. UNCHANGED <<migrated, box, misreads>> BY RequestsLeaveContainer
<1>2. CASE UNCHANGED stores BY <1>1, <1>2 DEF StoreInv, StartTypes
<1>3. CASE ~UNCHANGED stores
  <2>1. box.store # NoStore BY <1>3, RequestsLeaveContainer
  <2>2. box.store \in 1..Len(stores) /\ stores \in Seq(StoreRow)
    BY <2>1 DEF StoreInv, StartTypes, BoxType, NoStore
  <2>3. stores[box.store] \in StoreRow BY <2>2
  <2>4. stores[box.store].tuples \in SUBSET Grants BY <2>3 DEF StoreRow
  <2>5. PICK T \in SUBSET Grants : stores' = [stores EXCEPT ![box.store] = [stores[box.store] EXCEPT !.tuples = T]]
    <3>1. PICK t \in Grants : Written(t) \/ Deleted(t) BY <1>3, RequestsLeaveContainer
    <3>2. /\ stores[box.store].tuples \cup {t} \in SUBSET Grants
          /\ stores[box.store].tuples \ {t} \in SUBSET Grants
      BY <2>4
    <3> QED BY <3>1, <3>2 DEF Written, Deleted
  <2>6. stores' \in Seq(StoreRow) /\ Len(stores') = Len(stores)
    BY <2>2, <2>3, <2>5, RowChange, StoreChange
  <2>7. stores # <<>> /\ stores' # <<>> BY <2>2, <2>6
  <2>8. box.at # "creating" BY <2>1 DEF StoreInv, Early
  <2> QED BY <1>1, <2>6, <2>7, <2>8 DEF StoreInv, StartTypes
<1> QED BY <1>2, <1>3

LEMMA StoreStep == StoreInv /\ [Next]_vars => StoreInv'
<1> SUFFICES ASSUME StoreInv, [Next]_vars PROVE StoreInv'
  OBVIOUS
<1>1. CASE ContainerStep BY <1>1, StoreContainerStep DEF ContainerStep
<1>2. CASE MenuStep BY <1>2, StoreMenuStep
<1>3. CASE PageStep BY <1>3 DEF PageStep, PageFrame, startVars, StoreInv, StartTypes
<1>4. CASE UNCHANGED vars BY <1>4 DEF vars, startVars, StoreInv, StartTypes
<1> QED BY <1>1, <1>2, <1>3, <1>4 DEF Next

(* However often the container dies and is started again, also between a   *)
(* request and its answer, start.sh makes a second store only after a list *)
(* of stores came back as an error while there was one, one store for each *)
(* such list at most, and a container that read no such error serves with  *)
(* the first store.                                                        *)
THEOREM StoresStayReused == Spec => []StoresAreReused
<1>1. StoreInv => StoresAreReused BY DEF StoreInv, StoresAreReused
<1> QED BY <1>1, StoreInitially, StoreStep, PTL DEF Spec

-----------------------------------------------------------------------------
(* The user of the page and the owner of its menu. *)

PageType == [user : Users \cup {None}, loading : BOOLEAN, loaded : BOOLEAN, error : BOOLEAN,
             owner : Users \cup {None}, cached : BOOLEAN]

FetchShape ==
    \/ fetch = NoFetch
    \/ /\ InServer /\ fetch.user \in Users
       /\ DOMAIN fetch = {"at", "user", "rows", "pending", "found"}
    \/ /\ fetch.at = "answered" /\ fetch.user \in Users
       /\ fetch.ok \in BOOLEAN /\ fetch.cached \in BOOLEAN

PageTypes == page \in PageType /\ cache \in Users \cup {None} /\ FetchShape

(* Nobody's page is empty, a request in progress is the page's, and only   *)
(* an answer from the cache is another user's.                             *)
OwnInv ==
    /\ PageTypes
    /\ page.user = None => page = NoPage /\ fetch = NoFetch
    /\ InServer => fetch.user = page.user
    /\ fetch.at = "answered" => fetch.user = page.user \/ (fetch.ok /\ fetch.cached)
    /\ page.loading <=> fetch.at # "none"
    /\ page.owner \in {None, page.user} \/ page.cached

LEMMA OwnInitially == Init => OwnInv
BY DEF Init, OwnInv, PageTypes, PageType, FetchShape, InServer, NoPage, NoFetch

(* The answer of the server fails or goes to the user who asked.           *)
LEMMA AnswerKeepsOwner ==
    ASSUME OwnInv, InServer, UNCHANGED <<page, cache>>, NEW ok \in BOOLEAN, NEW menu,
           fetch' = Answered(fetch.user, ok, menu, FALSE)
    PROVE  OwnInv'
<1>1. fetch'.at = "answered" /\ fetch'.user = fetch.user /\ fetch'.ok = ok /\ fetch'.cached = FALSE
  BY DEF Answered
<1>2. fetch.user = page.user /\ fetch.user \in Users /\ fetch.at # "none"
  BY DEF OwnInv, PageTypes, FetchShape, InServer, NoFetch
<1> QED BY <1>1, <1>2, UsersAssumption DEF OwnInv, PageTypes, FetchShape, InServer

(* The server goes on with the request.                                    *)
LEMMA ServerKeepsOwner ==
    ASSUME OwnInv, InServer, InServer', UNCHANGED <<page, cache>>, fetch'.user = fetch.user,
           DOMAIN fetch' = {"at", "user", "rows", "pending", "found"}
    PROVE  OwnInv'
<1>1. fetch.user = page.user /\ fetch.user \in Users /\ fetch.at # "none"
  BY DEF OwnInv, PageTypes, FetchShape, InServer, NoFetch
<1> QED BY <1>1, UsersAssumption DEF OwnInv, PageTypes, FetchShape, InServer

(* What one more read makes of the request.                                *)
FoundWith(read)   == fetch.found \cup {<<read[1], t>> : t \in read[2] \cap Tuples}
PendingWith(read) == {p \in fetch.pending \ {read} : p[1] \notin AllowedBy(FoundWith(read))}

LEMMA CheckFacts ==
    ASSUME OwnInv, NEW read, CheckName(read)
    PROVE  \/ Fails
           \/ /\ Reachable /\ PendingWith(read) = {}
              /\ fetch' = Answered(fetch.user, TRUE, Menu(AllowedBy(FoundWith(read))), FALSE)
           \/ /\ Reachable
              /\ fetch'.at = "checking" /\ fetch'.user = fetch.user /\ fetch'.rows = fetch.rows
              /\ DOMAIN fetch' = {"at", "user", "rows", "pending", "found"}
              /\ fetch'.pending = PendingWith(read)
              /\ fetch'.found = FoundWith(read)
<1>1. fetch.at = "checking" /\ DOMAIN fetch = {"at", "user", "rows", "pending", "found"}
  BY DEF CheckName, OwnInv, PageTypes, FetchShape, InServer, NoFetch
<1>2. Fails \/ (Reachable /\ ReadFor(read, Tuples)) BY DEF CheckName
<1> DEFINE found == FoundWith(read)
           pending == PendingWith(read)
<1>3. ReadFor(read, Tuples) =>
        fetch' = IF pending = {} THEN Answered(fetch.user, TRUE, Menu(AllowedBy(found)), FALSE)
                 ELSE [fetch EXCEPT !.pending = pending, !.found = found]
  BY DEF ReadFor, FoundWith, PendingWith
<1> HIDE DEF found, pending
<1>4. CASE Reachable /\ fetch' = [fetch EXCEPT !.pending = pending, !.found = found]
  <2>1. /\ fetch'.at = "checking" /\ fetch'.user = fetch.user /\ fetch'.rows = fetch.rows
        /\ DOMAIN fetch' = {"at", "user", "rows", "pending", "found"}
        /\ fetch'.pending = pending /\ fetch'.found = found
    BY <1>1, <1>4
  <2> QED BY <1>4, <2>1 DEF found, pending
<1>5. CASE /\ Reachable /\ pending = {}
           /\ fetch' = Answered(fetch.user, TRUE, Menu(AllowedBy(found)), FALSE)
  BY <1>5 DEF found, pending
<1> QED BY <1>2, <1>3, <1>4, <1>5

(* What each step of the server makes of the request.                      *)
LEMMA OwnServerStep == OwnInv /\ GetMenuStructure => OwnInv'
<1> SUFFICES ASSUME OwnInv, GetMenuStructure PROVE OwnInv'
  OBVIOUS
<1>0. InServer /\ UNCHANGED <<page, cache>>
  BY DEF GetMenuStructure, ReadGroups, AskAdmin, CheckNames, CheckName, InServer
<1>1. CASE Fails BY <1>0, <1>1, AnswerKeepsOwner DEF Fails
<1>2. ASSUME NEW at \in {"admin", "checking"}, NEW rows, NEW pending,
             fetch' = Fetch(at, fetch.user, rows, pending)
      PROVE  OwnInv'
  BY <1>0, <1>2, ServerKeepsOwner DEF Fetch, InServer
<1>3. CASE ReadGroups BY <1>1, <1>2, <1>3 DEF ReadGroups
<1>4. CASE AskAdmin
  <2>1. ASSUME NEW menu, fetch' = Answered(fetch.user, TRUE, menu, FALSE) PROVE OwnInv'
    BY <1>0, <2>1, AnswerKeepsOwner
  <2> QED BY <1>1, <1>2, <1>4, <2>1 DEF AskAdmin
<1>5. ASSUME NEW read, CheckName(read) PROVE OwnInv'
  BY <1>0, <1>1, <1>5, CheckFacts, AnswerKeepsOwner, ServerKeepsOwner DEF InServer
<1> QED BY <1>3, <1>4, <1>5 DEF GetMenuStructure, CheckNames

(* What reloadMenu makes of the page.                                      *)
LEMMA OwnReload ==
    ASSUME OwnInv, NEW u \in Users, page.user \in {None, u}, ReloadMenu(u)
    PROVE  OwnInv'
<1>1. /\ page' \in PageType /\ page'.user = u /\ page'.loading = TRUE
      /\ page'.owner = page.owner /\ page'.cached = page.cached
  BY DEF OwnInv, PageTypes, PageType, ReloadMenu
<1>2. page'.owner \in {None, u} \/ page'.cached
  BY <1>1 DEF OwnInv, NoPage
<1>3. cache' = cache /\ cache \in Users \cup {None} BY DEF OwnInv, PageTypes, ReloadMenu
<1>4. CASE cache # None
  <2>1. fetch' = Answered(cache, TRUE, {}, TRUE) BY <1>4 DEF ReloadMenu
  <2>2. fetch'.at = "answered" /\ fetch'.user \in Users /\ fetch'.ok = TRUE /\ fetch'.cached = TRUE
    BY <1>3, <1>4, <2>1 DEF Answered
  <2> QED BY <1>1, <1>2, <1>3, <2>2, UsersAssumption DEF OwnInv, PageTypes, FetchShape, InServer
<1>5. CASE cache = None /\ Serving
  <2>1. fetch' = Fetch("reading", u, {}, {}) BY <1>5 DEF ReloadMenu
  <2>2. fetch'.at = "reading" /\ fetch'.user = u /\ DOMAIN fetch' = {"at", "user", "rows", "pending", "found"}
    BY <2>1 DEF Fetch
  <2> QED BY <1>1, <1>2, <1>3, <2>2, UsersAssumption DEF OwnInv, PageTypes, FetchShape, InServer
<1>6. CASE cache = None /\ ~Serving
  <2>1. fetch' = Answered(u, FALSE, {}, FALSE) BY <1>6 DEF ReloadMenu
  <2>2. fetch'.at = "answered" /\ fetch'.user = u /\ fetch'.ok = FALSE /\ fetch'.cached = FALSE
    BY <2>1 DEF Answered
  <2> QED BY <1>1, <1>2, <1>3, <2>2, UsersAssumption DEF OwnInv, PageTypes, FetchShape, InServer
<1> QED BY <1>4, <1>5, <1>6

LEMMA OwnPageStep == OwnInv /\ PageStep => OwnInv'
<1> SUFFICES ASSUME OwnInv, PageStep PROVE OwnInv'
  OBVIOUS
<1>0. page \in PageType /\ cache \in Users \cup {None} BY DEF OwnInv, PageTypes
<1>1. CASE GetMenuStructure BY <1>1, OwnServerStep
<1>2. CASE ReloadAfterEdit
  <2>1. page.user \in Users BY <1>0, <1>2 DEF ReloadAfterEdit, PageType
  <2> QED BY <1>2, <2>1, OwnReload DEF ReloadAfterEdit
<1>3. CASE ReceiveMenu
  <2>1. /\ fetch.at = "answered" /\ fetch.user \in Users /\ fetch.ok \in BOOLEAN /\ fetch.cached \in BOOLEAN
        /\ fetch.user = page.user \/ (fetch.ok /\ fetch.cached)
    BY <1>3 DEF ReceiveMenu, OwnInv, PageTypes, FetchShape, InServer, NoFetch
  <2>2. /\ page' \in PageType /\ page'.user = page.user /\ page'.loading = FALSE
        /\ page'.owner = IF fetch.ok THEN fetch.user ELSE page.owner
        /\ page'.cached = IF fetch.ok THEN fetch.cached ELSE page.cached
    BY <1>0, <1>3, <2>1 DEF ReceiveMenu, PageType
  <2>3. fetch' = NoFetch /\ fetch'.at = "none" /\ cache' \in Users \cup {None}
    BY <1>0, <1>3, <2>1 DEF ReceiveMenu, NoFetch
  <2>4. page.user # None BY <2>1 DEF OwnInv, NoFetch
  <2> QED BY <2>1, <2>2, <2>3, <2>4 DEF OwnInv, PageTypes, FetchShape, InServer
<1>4. CASE CacheExpires BY <1>4 DEF CacheExpires, OwnInv, PageTypes, FetchShape, InServer
<1>5. CASE SignOut
  <2>1. /\ page' = NoPage /\ fetch' = NoFetch /\ cache' = cache /\ page' \in PageType
        /\ page'.loading = FALSE /\ fetch'.at = "none" /\ page'.owner = None
    BY <1>5 DEF SignOut, NoPage, NoFetch, PageType
  <2> QED BY <1>0, <2>1 DEF OwnInv, PageTypes, FetchShape, InServer
<1>6. ASSUME NEW u \in Users, SignIn(u) PROVE OwnInv'
  <2>1. page = NoPage BY <1>6 DEF SignIn, OwnInv
  <2>2. ~LoadedOnce /\ page.user = None BY <2>1 DEF LoadedOnce, NoPage
  <2> QED BY <1>6, <2>2, OwnReload DEF SignIn
<1> QED BY <1>1, <1>2, <1>3, <1>4, <1>5, <1>6 DEF PageStep

LEMMA OwnStep == OwnInv /\ [Next]_vars => OwnInv'
<1> SUFFICES ASSUME OwnInv, [Next]_vars PROVE OwnInv'
  OBVIOUS
<1>1. CASE ContainerStep
  <2>1. UNCHANGED <<page, cache>> BY <1>1 DEF ContainerStep, ContainerFrame
  <2>2. CASE InServer /\ Fails BY <2>1, <2>2, AnswerKeepsOwner DEF Fails
  <2>3. CASE UNCHANGED fetch BY <2>1, <2>3 DEF OwnInv, PageTypes, FetchShape, InServer
  <2> QED BY <1>1, <2>2, <2>3 DEF ContainerStep, ContainerFrame, FetchInterrupted
<1>2. CASE MenuStep BY <1>2 DEF MenuStep, MenuFrame, OwnInv, PageTypes, FetchShape, InServer
<1>3. CASE PageStep BY <1>3, OwnPageStep
<1>4. CASE UNCHANGED vars BY <1>4 DEF vars, pageVars, OwnInv, PageTypes, FetchShape, InServer
<1> QED BY <1>1, <1>2, <1>3, <1>4 DEF Next

(* The menu on the page was computed for the user of the page, or came     *)
(* from the browser's cache, whoever signs out and in while a request of   *)
(* reloadMenu is on its way.                                               *)
THEOREM PagesShowTheirOwnMenu == Spec => []OwnMenuUnlessCached
<1>1. OwnInv => OwnMenuUnlessCached BY DEF OwnInv, OwnMenuUnlessCached
<1> QED BY <1>1, OwnInitially, OwnStep, PTL DEF Spec

-----------------------------------------------------------------------------
(* The menu and what was visible and allowed meanwhile. *)

(* Now is between all and some.                                            *)
NowBetween ==
    InServer => /\ Rows \subseteq seen.some.rows /\ seen.all.rows \subseteq Rows
                /\ Tuples \subseteq seen.some.tuples /\ seen.all.tuples \subseteq Tuples

(* So are the rows that were read, ...                                     *)
RowsBetween ==
    fetch.at \in {"admin", "checking"} =>
        fetch.rows \subseteq seen.some.rows /\ seen.all.rows \subseteq fetch.rows

(* ... and what the Checks have found so far: what was there all the time  *)
(* has been found or is still to be read, unless the Check is over.        *)
Ways(n) == {<<fetch.user, ObjectOf[n]>>} \cup (Roles \X {ObjectOf[n]}) \cup ({fetch.user} \X Roles)

FoundOrPending(found, pending, n, t) ==
    \/ <<n, t>> \in found
    \/ \E Q : <<n, Q>> \in pending /\ t \in Q
    \/ n \in AllowedBy(found)

ChecksBetween ==
    fetch.at = "checking" =>
        /\ <<fetch.user, Admin>> \notin seen.all.tuples
        /\ \A n, t : <<n, t>> \in fetch.found => t \in seen.some.tuples
        /\ \A n \in Names : \A t \in Ways(n) \cap seen.all.tuples :
              FoundOrPending(fetch.found, fetch.pending, n, t)

BetweenInv == StoreInv /\ OwnInv /\ NowBetween /\ RowsBetween /\ ChecksBetween /\ MenuIsBetween

LEMMA BetweenInitially == Init => BetweenInv
<1> SUFFICES ASSUME Init PROVE BetweenInv
  OBVIOUS
<1>1. StoreInv /\ OwnInv BY StoreInitially, OwnInitially
<1>2. fetch.at = "none" BY DEF Init, NoFetch
<1> QED BY <1>1, <1>2 DEF BetweenInv, NowBetween, RowsBetween, ChecksBetween, MenuIsBetween, InServer

LEMMA TuplesAreGrants ==
    ASSUME StoreInv
    PROVE  Tuples \subseteq Grants
<1>1. CASE box.store = NoStore BY <1>1 DEF Tuples
<1>2. CASE box.store # NoStore
  <2>1. box.store \in 1..Len(stores) /\ stores \in Seq(StoreRow)
    BY <1>2 DEF StoreInv, StartTypes, BoxType, NoStore
  <2>2. stores[box.store] \in StoreRow BY <2>1
  <2> QED BY <1>2, <2>2 DEF StoreRow, Tuples
<1> QED BY <1>1, <1>2

(* More tuples show more.                                                  *)
LEMMA ViewMore ==
    ASSUME NEW S, NEW T, NEW u, NEW o, MayView(S, u, o),
           \A t \in S \cap ({<<u, o>>} \cup (Roles \X {o}) \cup ({u} \X Roles)) : t \in T
    PROVE  MayView(T, u, o)
<1>1. CASE <<u, o>> \in S BY <1>1 DEF MayView
<1>2. ASSUME NEW r \in Roles, <<r, o>> \in S, <<u, r>> \in S PROVE MayView(T, u, o)
  <2>1. <<r, o>> \in Roles \X {o} /\ <<u, r>> \in {u} \X Roles OBVIOUS
  <2> QED BY <1>2, <2>1 DEF MayView
<1> QED BY <1>1, <1>2 DEF MayView

(* A Check that has found more allows no less.                             *)
LEMMA AllowMore ==
    ASSUME NEW F, NEW G, F \subseteq G
    PROVE  AllowedBy(F) \subseteq AllowedBy(G)
<1> SUFFICES ASSUME NEW n \in AllowedBy(F) PROVE n \in AllowedBy(G)
  OBVIOUS
<1>1. n \in Names /\ MayView({t \in Grants : <<n, t>> \in F}, fetch.user, ObjectOf[n]) BY DEF AllowedBy
<1>2. {t \in Grants : <<n, t>> \in F} \subseteq {t \in Grants : <<n, t>> \in G} OBVIOUS
<1>3. MayView({t \in Grants : <<n, t>> \in G}, fetch.user, ObjectOf[n]) BY <1>1, <1>2, ViewMore
<1> QED BY <1>1, <1>3 DEF AllowedBy

(* The reads of a Check look at every tuple that can show the item.        *)
LEMMA ReadsCoverWays ==
    ASSUME NEW n \in Names, NEW t \in Ways(n)
    PROVE  \E Q : <<n, Q>> \in ReadsOf(fetch.user, Names) /\ t \in Q
<1> DEFINE u == fetch.user
           o == ObjectOf[n]
           Of(m) == {<<m, {<<u, ObjectOf[m]>>}>>, <<m, Roles \X {ObjectOf[m]}>>}
                       \cup {<<m, {<<u, r>>}>> : r \in Roles}
<1>1. \A x : x \in Of(n) => x \in ReadsOf(u, Names) BY DEF ReadsOf
<1>2. CASE t = <<u, o>> BY <1>1, <1>2
<1>3. CASE t \in Roles \X {o} BY <1>1, <1>3
<1>4. CASE t \in {u} \X Roles
  <2>1. PICK r \in Roles : t = <<u, r>> BY <1>4
  <2> QED BY <1>1, <2>1
<1> QED BY <1>2, <1>3, <1>4 DEF Ways

(* The history while the server works, and when it has answered.           *)
LEMMA WatchFacts ==
    ASSUME Watch
    PROVE  /\ NowBetween'
           /\ InServer /\ InServer' => /\ seen.some.rows \subseteq seen'.some.rows
                                      /\ seen'.all.rows \subseteq seen.all.rows
                                      /\ seen.some.tuples \subseteq seen'.some.tuples
                                      /\ seen'.all.tuples \subseteq seen.all.tuples
           /\ InServer /\ fetch'.at = "answered" => seen' = seen
           /\ ~InServer /\ fetch'.at = "answered" => seen' = <<>>
<1>1. CASE ~InServer' BY <1>1 DEF Watch, NowBetween, InServer
<1>2. CASE InServer'
  <2>1. Now' = [rows |-> Rows', tuples |-> Tuples'] BY DEF Now
  <2>2. CASE ~InServer
    <3>1. seen' = [some |-> Now', all |-> Now'] BY <1>2, <2>2 DEF Watch, InServer
    <3> QED BY <1>2, <2>1, <2>2, <3>1 DEF NowBetween, InServer
  <2>3. CASE InServer
    <3>1. seen' = [some |-> [rows |-> seen.some.rows \cup Rows', tuples |-> seen.some.tuples \cup Tuples'],
                   all |-> [rows |-> seen.all.rows \cap Rows', tuples |-> seen.all.tuples \cap Tuples']]
      BY <1>2, <2>1, <2>3 DEF Watch, InServer
    <3> QED BY <1>2, <2>3, <3>1 DEF NowBetween, InServer
  <2> QED BY <2>2, <2>3
<1> QED BY <1>1, <1>2

(* The request stays as it is, fails, or is over.                          *)
LEMMA BetweenIdle ==
    ASSUME BetweenInv, Watch, StoreInv', OwnInv',
           \/ UNCHANGED fetch
           \/ fetch'.at = "none"
           \/ fetch'.at = "answered" /\ (InServer => ~fetch'.ok)
           \/ fetch'.at = "reading"
    PROVE  BetweenInv'
<1>1. NowBetween' BY WatchFacts
<1>2. MenuIsBetween'
  <2>1. CASE fetch'.at # "answered" BY <2>1 DEF MenuIsBetween
  <2>2. CASE fetch'.at = "answered" /\ ~InServer BY <2>2, WatchFacts DEF MenuIsBetween
  <2>3. CASE fetch'.at = "answered" /\ InServer BY <2>3 DEF MenuIsBetween, InServer
  <2> QED BY <2>1, <2>2, <2>3
<1>3. CASE fetch'.at \notin {"admin", "checking"}
  BY <1>1, <1>2, <1>3 DEF BetweenInv, RowsBetween, ChecksBetween
<1>4. CASE UNCHANGED fetch /\ fetch.at \in {"admin", "checking"}
  <2>1. /\ seen.some.rows \subseteq seen'.some.rows /\ seen'.all.rows \subseteq seen.all.rows
        /\ seen.some.tuples \subseteq seen'.some.tuples /\ seen'.all.tuples \subseteq seen.all.tuples
    BY <1>4, WatchFacts DEF InServer
  <2>2. /\ Names' = Names /\ \A n : Ways(n)' = Ways(n)
        /\ \A n, t : FoundOrPending(fetch.found, fetch.pending, n, t)'
                      = FoundOrPending(fetch.found, fetch.pending, n, t)
    BY <1>4 DEF Names, Ways, FoundOrPending, AllowedBy
  <2>3. RowsBetween' BY <1>4, <2>1 DEF BetweenInv, RowsBetween
  <2>4. ChecksBetween' BY <1>4, <2>1, <2>2 DEF BetweenInv, ChecksBetween
  <2> QED BY <1>1, <1>2, <2>3, <2>4 DEF BetweenInv
<1> QED BY <1>3, <1>4

(* One more read: what was there all the time is found by it, or was, or   *)
(* is left for the others.                                                 *)
LEMMA ReadBetween ==
    ASSUME BetweenInv, fetch.at = "checking", NEW read, read \in fetch.pending
    PROVE  /\ \A n, t : <<n, t>> \in FoundWith(read) => t \in seen.some.tuples
           /\ \A n \in Names : \A t \in Ways(n) \cap seen.all.tuples :
                 FoundOrPending(FoundWith(read), PendingWith(read), n, t)
<1>1. Tuples \subseteq seen.some.tuples /\ seen.all.tuples \subseteq Tuples
  BY DEF BetweenInv, NowBetween, InServer
<1>2. \A n, t : <<n, t>> \in FoundWith(read) => t \in seen.some.tuples
  <2> SUFFICES ASSUME NEW n, NEW t, <<n, t>> \in FoundWith(read) PROVE t \in seen.some.tuples
    OBVIOUS
  <2>1. CASE <<n, t>> \in fetch.found BY <2>1 DEF BetweenInv, ChecksBetween
  <2>2. CASE <<n, t>> \in {<<read[1], x>> : x \in read[2] \cap Tuples} BY <1>1, <2>2
  <2> QED BY <2>1, <2>2 DEF FoundWith
<1>3. ASSUME NEW n \in Names, NEW t \in Ways(n) \cap seen.all.tuples
      PROVE  FoundOrPending(FoundWith(read), PendingWith(read), n, t)
  <2>0. fetch.found \subseteq FoundWith(read) BY DEF FoundWith
  <2>1. FoundOrPending(fetch.found, fetch.pending, n, t) BY DEF BetweenInv, ChecksBetween
  <2>2. CASE <<n, t>> \in fetch.found BY <2>0, <2>2 DEF FoundOrPending
  <2>3. CASE n \in AllowedBy(fetch.found) BY <2>0, <2>3, AllowMore DEF FoundOrPending
  <2>4. ASSUME NEW Q, <<n, Q>> \in fetch.pending, t \in Q
        PROVE  FoundOrPending(FoundWith(read), PendingWith(read), n, t)
    <3>1. CASE read = <<n, Q>>
      <4>1. read[1] = n /\ t \in read[2] \cap Tuples BY <1>1, <2>4, <3>1
      <4>2. <<n, t>> \in FoundWith(read) BY <4>1 DEF FoundWith
      <4> QED BY <4>2 DEF FoundOrPending
    <3>2. CASE read # <<n, Q>> /\ n \notin AllowedBy(FoundWith(read))
      <4>1. <<n, Q>> \in PendingWith(read)
        <5> DEFINE p == <<n, Q>>
        <5>1. p \in fetch.pending \ {read} /\ p[1] \notin AllowedBy(FoundWith(read)) BY <2>4, <3>2
        <5> QED BY <5>1 DEF PendingWith
      <4> QED BY <2>4, <4>1 DEF FoundOrPending
    <3>3. CASE n \in AllowedBy(FoundWith(read)) BY <3>3 DEF FoundOrPending
    <3> QED BY <3>1, <3>2, <3>3
  <2> QED BY <2>1, <2>2, <2>3, <2>4 DEF FoundOrPending
<1> QED BY <1>2, <1>3

(* A step of the server: the tables and the store are as they were.        *)
LEMMA BetweenServerStep ==
    ASSUME BetweenInv, GetMenuStructure, PageFrame, StoreInv', OwnInv'
    PROVE  BetweenInv'
<1>0. InServer /\ Watch /\ UNCHANGED <<startVars, menuVars>>
  BY DEF GetMenuStructure, ReadGroups, AskAdmin, CheckNames, CheckName, InServer, PageFrame
<1>1. /\ Rows \subseteq seen.some.rows /\ seen.all.rows \subseteq Rows
      /\ Tuples \subseteq seen.some.tuples /\ seen.all.tuples \subseteq Tuples
  BY <1>0 DEF BetweenInv, NowBetween
<1>2. InServer' => /\ seen.some.rows \subseteq seen'.some.rows /\ seen'.all.rows \subseteq seen.all.rows
                   /\ seen.some.tuples \subseteq seen'.some.tuples
                   /\ seen'.all.tuples \subseteq seen.all.tuples
  BY <1>0, WatchFacts
<1>3. NowBetween' BY <1>0, WatchFacts
<1>4. fetch'.at = "answered" => seen' = seen BY <1>0, WatchFacts
<1>5. CASE Fails BY <1>0, <1>5, BetweenIdle DEF Fails, Answered
<1>6. CASE ReadGroups /\ ~Fails
  <2>1. fetch' = Fetch("admin", fetch.user, Rows, {}) BY <1>6 DEF ReadGroups
  <2>2. fetch'.at = "admin" /\ fetch'.rows = Rows BY <2>1 DEF Fetch
  <2>3. RowsBetween' BY <1>1, <1>2, <2>2 DEF RowsBetween, InServer
  <2> QED BY <1>3, <2>2, <2>3 DEF BetweenInv, ChecksBetween, MenuIsBetween
<1>7. CASE AskAdmin /\ ~Fails
  <2>1. fetch.at = "admin" /\ Reachable BY <1>7 DEF AskAdmin
  <2>2. fetch.rows \subseteq seen.some.rows /\ seen.all.rows \subseteq fetch.rows
    BY <2>1 DEF BetweenInv, RowsBetween
  <2>4. CASE IsAdmin(fetch.user) \/ Names = {}
    <3>1. fetch' = Answered(fetch.user, TRUE, fetch.rows, FALSE) BY <1>7, <2>4 DEF AskAdmin
    <3>2. fetch'.at = "answered" /\ fetch'.menu = fetch.rows /\ fetch'.user = fetch.user
      BY <3>1 DEF Answered
    <3>3. <<fetch.user, Admin>> \in Tuples \/ fetch.rows = {} BY <2>4 DEF Names, IsAdmin
    <3>4. MenuIsBetween' BY <1>1, <1>4, <2>2, <3>2, <3>3 DEF MenuIsBetween, Shown
    <3> QED BY <1>3, <3>2, <3>4 DEF BetweenInv, RowsBetween, ChecksBetween
  <2>5. CASE ~(IsAdmin(fetch.user) \/ Names = {})
    <3>1. fetch' = Fetch("checking", fetch.user, fetch.rows, ReadsOf(fetch.user, Names))
      BY <1>7, <2>5 DEF AskAdmin
    <3>2. /\ fetch'.at = "checking" /\ fetch'.rows = fetch.rows /\ fetch'.user = fetch.user
          /\ fetch'.pending = ReadsOf(fetch.user, Names) /\ fetch'.found = {}
      BY <3>1 DEF Fetch
    <3>3. RowsBetween' BY <1>2, <2>2, <3>2 DEF RowsBetween, InServer
    <3>4. Names' = Names /\ \A n : Ways(n)' = Ways(n) BY <3>2 DEF Names, Ways
    <3>5. ASSUME NEW n \in Names, NEW t \in Ways(n) PROVE FoundOrPending(fetch.found, fetch.pending, n, t)'
      BY <3>2, ReadsCoverWays DEF FoundOrPending
    <3>6. <<fetch.user, Admin>> \notin seen'.all.tuples
      BY <1>1, <1>2, <2>5, <3>2 DEF IsAdmin, InServer
    <3>7. ChecksBetween' BY <3>2, <3>4, <3>5, <3>6 DEF ChecksBetween
    <3> QED BY <1>3, <3>2, <3>3, <3>7 DEF BetweenInv, MenuIsBetween
  <2> QED BY <2>4, <2>5
<1>8. ASSUME NEW read, CheckName(read), ~Fails PROVE BetweenInv'
  <2> DEFINE found == FoundWith(read)
             pending == PendingWith(read)
  <2>1. fetch.at = "checking" /\ read \in fetch.pending BY <1>8 DEF CheckName
  <2>2. fetch.rows \subseteq seen.some.rows /\ seen.all.rows \subseteq fetch.rows
    BY <2>1 DEF BetweenInv, RowsBetween
  <2>3. /\ \A n, t : <<n, t>> \in found => t \in seen.some.tuples
        /\ \A n \in Names : \A t \in Ways(n) \cap seen.all.tuples : FoundOrPending(found, pending, n, t)
    BY <2>1, ReadBetween
  <2>4. <<fetch.user, Admin>> \notin seen.all.tuples BY <2>1 DEF BetweenInv, ChecksBetween
  <2> HIDE DEF found, pending
  <2>5. CASE pending = {} /\ fetch' = Answered(fetch.user, TRUE, Menu(AllowedBy(found)), FALSE)
    <3>1. fetch'.at = "answered" /\ fetch'.menu = Menu(AllowedBy(found)) /\ fetch'.user = fetch.user
      BY <2>5 DEF Answered
    <3>2. ASSUME NEW r \in Menu(AllowedBy(found))
          PROVE  r \in seen.some.rows /\ MayView(seen.some.tuples, fetch.user, ObjectOf[r[2]])
      <4>1. r \in fetch.rows /\ r[2] \in AllowedBy(found) BY <3>2 DEF Menu
      <4>2. MayView({t \in Grants : <<r[2], t>> \in found}, fetch.user, ObjectOf[r[2]])
        BY <4>1 DEF AllowedBy
      <4>3. \A t \in {x \in Grants : <<r[2], x>> \in found} : t \in seen.some.tuples BY <2>3
      <4> QED BY <2>2, <4>1, <4>2, <4>3, ViewMore
    <3>3. ASSUME NEW r \in seen.all.rows, MayView(seen.all.tuples, fetch.user, ObjectOf[r[2]])
          PROVE  r \in Menu(AllowedBy(found))
      <4> DEFINE n == r[2]
                 F == {t \in Grants : <<n, t>> \in found}
      <4>1. r \in fetch.rows /\ n \in Names BY <2>2, <3>3 DEF Names
      <4>2. seen.all.tuples \subseteq Grants BY <1>1, TuplesAreGrants DEF BetweenInv
      <4>3. n \in AllowedBy(found)
        <5> SUFFICES ASSUME n \notin AllowedBy(found) PROVE FALSE
          OBVIOUS
        <5>1. \A t \in seen.all.tuples \cap Ways(n) : t \in F
          BY <2>3, <2>5, <4>1, <4>2 DEF FoundOrPending
        <5> HIDE DEF F, n
        <5>2. MayView(seen.all.tuples, fetch.user, ObjectOf[n]) BY <3>3 DEF n
        <5>3. MayView(F, fetch.user, ObjectOf[n]) BY <5>1, <5>2, ViewMore DEF Ways
        <5>4. n \in AllowedBy(found) BY <4>1, <5>3 DEF AllowedBy, F
        <5> QED BY <5>4
      <4> QED BY <4>1, <4>3 DEF Menu
    <3>4. MenuIsBetween' BY <1>4, <2>4, <3>1, <3>2, <3>3 DEF MenuIsBetween, Shown
    <3> QED BY <1>3, <3>1, <3>4 DEF BetweenInv, RowsBetween, ChecksBetween
  <2>6. CASE /\ fetch'.at = "checking" /\ fetch'.rows = fetch.rows /\ fetch'.user = fetch.user
             /\ fetch'.pending = pending /\ fetch'.found = found
    <3>1. RowsBetween' BY <1>2, <2>2, <2>6 DEF RowsBetween, InServer
    <3>2. Names' = Names /\ \A n : Ways(n)' = Ways(n) BY <2>6 DEF Names, Ways
    <3>3. AllowedBy(fetch.found)' = AllowedBy(found) BY <2>6, <3>2 DEF AllowedBy
    <3>4. ASSUME NEW n \in Names, NEW t \in Ways(n) \cap seen.all.tuples
          PROVE  FoundOrPending(fetch.found, fetch.pending, n, t)'
      BY <2>3, <2>6, <3>3 DEF FoundOrPending
    <3>5. seen.some.tuples \subseteq seen'.some.tuples /\ seen'.all.tuples \subseteq seen.all.tuples
      BY <1>2, <2>6 DEF InServer
    <3>6. ChecksBetween' BY <2>3, <2>4, <2>6, <3>2, <3>4, <3>5 DEF ChecksBetween
    <3> QED BY <1>3, <2>6, <3>1, <3>6 DEF BetweenInv, MenuIsBetween
  <2>7. Fails \/ (pending = {} /\ fetch' = Answered(fetch.user, TRUE, Menu(AllowedBy(found)), FALSE))
        \/ (/\ fetch'.at = "checking" /\ fetch'.rows = fetch.rows /\ fetch'.user = fetch.user
            /\ fetch'.pending = pending /\ fetch'.found = found)
    BY <1>8, CheckFacts DEF BetweenInv, found, pending
  <2> QED BY <1>8, <2>5, <2>6, <2>7
<1> QED BY <1>5, <1>6, <1>7, <1>8 DEF GetMenuStructure, CheckNames

LEMMA BetweenStep == BetweenInv /\ [Next]_vars => BetweenInv'
<1> SUFFICES ASSUME BetweenInv, [Next]_vars PROVE BetweenInv'
  OBVIOUS
<1>0. StoreInv' /\ OwnInv' BY StoreStep, OwnStep DEF BetweenInv
<1>1. CASE ContainerStep
  <2>1. Watch /\ FetchInterrupted BY <1>1 DEF ContainerStep, ContainerFrame
  <2> QED BY <1>0, <2>1, BetweenIdle DEF FetchInterrupted, Fails, Answered
<1>2. CASE MenuStep BY <1>0, <1>2, BetweenIdle DEF MenuStep, MenuFrame
<1>3. CASE PageStep
  <2>1. CASE GetMenuStructure BY <1>0, <1>3, <2>1, BetweenServerStep DEF PageStep
  <2>2. CASE ~GetMenuStructure
    <3>1. \/ UNCHANGED fetch
          \/ fetch'.at = "none"
          \/ fetch'.at = "answered" /\ ~InServer
          \/ fetch'.at = "reading"
      <4>1. ASSUME NEW u, ReloadMenu(u), ~page.loading
            PROVE  (fetch'.at = "answered" /\ ~InServer) \/ fetch'.at = "reading"
        <5>1. ~InServer BY <4>1 DEF BetweenInv, OwnInv, InServer
        <5> QED BY <4>1, <5>1 DEF ReloadMenu, Answered, Fetch
      <4>2. CASE ReloadAfterEdit BY <4>1, <4>2 DEF ReloadAfterEdit
      <4>3. ASSUME NEW u \in Users, SignIn(u) PROVE UNCHANGED fetch \/ (ReloadMenu(u) /\ ~page.loading)
        BY <4>3 DEF SignIn, LoadedOnce
      <4>4. CASE ReceiveMenu \/ SignOut \/ CacheExpires
        BY <4>4 DEF ReceiveMenu, SignOut, CacheExpires, NoFetch
      <4> QED BY <1>3, <2>2, <4>1, <4>2, <4>3, <4>4 DEF PageStep
    <3>2. Watch BY <1>3 DEF PageStep, PageFrame
    <3> QED BY <1>0, <3>1, <3>2, BetweenIdle
  <2> QED BY <2>1, <2>2
<1>4. CASE UNCHANGED vars
  <2>1. UNCHANGED <<fetch, seen, box, stores, items, groups>>
    BY <1>4 DEF vars, startVars, menuVars, pageVars
  <2>2. /\ InServer' = InServer /\ Rows' = Rows /\ Tuples' = Tuples /\ Names' = Names
        /\ \A n : Ways(n)' = Ways(n)
        /\ \A n, t : FoundOrPending(fetch.found, fetch.pending, n, t)'
                      = FoundOrPending(fetch.found, fetch.pending, n, t)
    BY <2>1 DEF InServer, Rows, Tuples, Names, Ways, FoundOrPending, AllowedBy
  <2>3. NowBetween' /\ RowsBetween' /\ MenuIsBetween'
    BY <2>1, <2>2 DEF BetweenInv, NowBetween, RowsBetween, MenuIsBetween
  <2>4. ChecksBetween' BY <2>1, <2>2 DEF BetweenInv, ChecksBetween
  <2> QED BY <1>0, <2>3, <2>4 DEF BetweenInv
<1> QED BY <1>1, <1>2, <1>3, <1>4 DEF Next

(* A menu that GetMenuStructure answers has only rows that were visible at *)
(* some moment of the request and shown to the user by tuples each of      *)
(* which was there at some moment of it, and all rows that were visible    *)
(* throughout and shown by tuples that were there throughout, directly or  *)
(* through a role, whatever edits, grants, revocations and failures fall   *)
(* between the reads of the tables and those of each Check.                *)
THEOREM MenusAreBetween == Spec => []MenuIsBetween
<1>1. BetweenInv => MenuIsBetween BY DEF BetweenInv
<1> QED BY <1>1, BetweenInitially, BetweenStep, PTL DEF Spec

-----------------------------------------------------------------------------
(* The tables. *)

ItemCols   == {"name", "group", "visible"}
GroupCols  == {"parent", "visible"}
ConfigCols == {"item", "value"}

(* Identities are not used twice, also not those of the items that whole   *)
(* remembers.                                                              *)
Identities ==
    /\ next \in [group : Nat \ {0}, item : Nat \ {0}, config : Nat \ {0}]
    /\ DOMAIN items \subseteq 1..(next.item - 1) /\ DOMAIN whole \subseteq 1..(next.item - 1)
    /\ DOMAIN configs \subseteq 1..(next.config - 1)

Columns ==
    /\ \A i \in DOMAIN items : DOMAIN items[i] = ItemCols
    /\ \A g \in DOMAIN groups : DOMAIN groups[g] = GroupCols
    /\ \A c \in DOMAIN configs : DOMAIN configs[c] = ConfigCols

GroupRefs ==
    /\ \A i \in DOMAIN items : GroupExists(items[i].group)
    /\ \A g \in DOMAIN groups : GroupExists(groups[g].parent)

ConfigRefs ==
    /\ \A c \in DOMAIN configs : configs[c].item \in DOMAIN items
    /\ \A c, d \in DOMAIN configs : configs[c].item = configs[d].item => c = d

Acknowledged ==
    \A i \in DOMAIN whole \cap DOMAIN items :
        \E c \in DOMAIN configs : configs[c].item = i /\ configs[c].value = whole[i]

RowsInv == Identities /\ Columns /\ GroupRefs /\ ConfigRefs /\ Acknowledged

(* A request that has loaded an item has its columns, and configurations   *)
(* which are of that item still if they are there still.                   *)
ReqShape ==
    /\ DOMAIN req = Slots
    /\ \A s \in Slots : req[s] = Idle \/ DOMAIN req[s] = {"at", "call", "row", "config"}

HasItem(s)  == req[s].at = "looking" \/ (req[s].at = "saving" /\ req[s].call.op = "updateItem")
HasGroup(s) == req[s].at = "saving" /\ req[s].call.op = "updateGroup"

LoadedItems ==
    \A s \in Slots : HasItem(s) =>
        /\ req[s].call.op = "updateItem" /\ DOMAIN req[s].row = ItemCols
        /\ \A h \in req[s].config : /\ h.id \in 1..(next.config - 1)
                                    /\ h.id \in DOMAIN configs => configs[h.id].item = req[s].call.id

LoadedGroups == \A s \in Slots : HasGroup(s) => DOMAIN req[s].row = GroupCols

TableInv == RowsInv /\ ReqShape /\ LoadedItems /\ LoadedGroups

LEMMA TablesInitially == Init => TableInv
<1> SUFFICES ASSUME Init PROVE TableInv
  OBVIOUS
<1>1. groups = Groups0 /\ items = Items0 /\ configs = Configs0 /\ whole = <<>> BY DEF Init, MenuInit
<1>2. /\ Len(groups) \in Nat /\ DOMAIN groups = 1..Len(groups)
      /\ Len(items) \in Nat /\ DOMAIN items = 1..Len(items)
      /\ Len(configs) \in Nat /\ DOMAIN configs = 1..Len(configs)
  BY <1>1, TablesAssumption
<1>3. /\ \A g \in DOMAIN groups : groups[g] \in [parent : 0..Len(groups), visible : BOOLEAN]
      /\ \A i \in DOMAIN items : items[i] \in [name : DOMAIN ObjectOf, group : 0..Len(groups), visible : BOOLEAN]
      /\ \A c \in DOMAIN configs : configs[c] \in [item : 1..Len(items), value : Nat \ {None}]
  <2>1. ASSUME NEW S, NEW t \in Seq(S), NEW i \in 1..Len(t) PROVE t[i] \in S
    OBVIOUS
  <2>2. /\ groups \in Seq([parent : 0..Len(groups), visible : BOOLEAN])
        /\ items \in Seq([name : DOMAIN ObjectOf, group : 0..Len(groups), visible : BOOLEAN])
        /\ configs \in Seq([item : 1..Len(items), value : Nat \ {None}])
    BY <1>1, TablesAssumption
  <2> QED BY <1>2, <2>1, <2>2
<1>4. next = [group |-> Len(groups) + 1, item |-> Len(items) + 1, config |-> Len(configs) + 1]
  <2>1. ASSUME NEW n \in Nat PROVE Cardinality(1..n) = n
    BY <2>1, FS_Interval, 1 \in Int, n \in Int
  <2> QED BY <1>1, <1>2, <2>1 DEF Init, MenuInit
<1>5. Identities BY <1>1, <1>2, <1>4 DEF Identities
<1>6. Columns BY <1>3 DEF Columns, ItemCols, GroupCols, ConfigCols
<1>7. GroupRefs BY <1>2, <1>3 DEF GroupRefs, GroupExists, None
<1>8. ConfigRefs BY <1>1, <1>2, <1>3, TablesAssumption DEF ConfigRefs
<1>9. Acknowledged BY <1>1 DEF Acknowledged
<1>10. ReqShape /\ LoadedItems /\ LoadedGroups
  BY DEF Init, MenuInit, ReqShape, LoadedItems, LoadedGroups, HasItem, HasGroup, Idle
<1> QED BY <1>5, <1>6, <1>7, <1>8, <1>9, <1>10 DEF TableInv, RowsInv

(* The rows that requests have loaded keep their items.                    *)
ConfigsKeepItems ==
    /\ next'.config \in Nat /\ next'.config >= next.config
    /\ \A c \in DOMAIN configs' : \/ c \in DOMAIN configs /\ configs'[c].item = configs[c].item
                                 \/ c = next.config

(* The request of a slot changes and the others do not.                    *)
OtherRequests(s) == DOMAIN req' = Slots /\ \A t \in Slots \ {s} : req'[t] = req[t]

LEMMA RequestsStep ==
    ASSUME TableInv, NEW s \in Slots, ConfigsKeepItems, OtherRequests(s),
           req'[s] = Idle \/ DOMAIN req'[s] = {"at", "call", "row", "config"},
           HasItem(s)' => /\ req'[s].call.op = "updateItem" /\ DOMAIN req'[s].row = ItemCols
                          /\ \A h \in req'[s].config :
                                /\ h.id \in 1..(next.config - 1)
                                /\ h.id \in DOMAIN configs => configs[h.id].item = req'[s].call.id,
           HasGroup(s)' => DOMAIN req'[s].row = GroupCols
    PROVE  ReqShape' /\ LoadedItems' /\ LoadedGroups'
<1>1. next.config \in Nat BY DEF TableInv, RowsInv, Identities
<1>2. ReqShape' BY DEF OtherRequests, TableInv, ReqShape
<1>3. LoadedGroups' BY DEF OtherRequests, TableInv, LoadedGroups, HasGroup
<1>4. ASSUME NEW t \in Slots, HasItem(t)'
      PROVE  /\ req'[t].call.op = "updateItem" /\ DOMAIN req'[t].row = ItemCols
             /\ \A h \in req'[t].config :
                   /\ h.id \in 1..(next.config - 1)
                   /\ h.id \in DOMAIN configs => configs[h.id].item = req'[t].call.id
  <2>1. CASE t = s BY <1>4, <2>1
  <2>2. CASE t # s
    <3>1. req'[t] = req[t] BY <2>2 DEF OtherRequests
    <3>2. HasItem(t) BY <1>4, <3>1 DEF HasItem
    <3> QED BY <3>1, <3>2 DEF TableInv, LoadedItems
  <2> QED BY <2>1, <2>2
<1>5. LoadedItems'
  <2> SUFFICES ASSUME NEW t \in Slots, HasItem(t)'
               PROVE  /\ req'[t].call.op = "updateItem" /\ DOMAIN req'[t].row = ItemCols
                      /\ \A h \in req'[t].config :
                            /\ h.id \in 1..(next'.config - 1)
                            /\ h.id \in DOMAIN configs' => configs'[h.id].item = req'[t].call.id
    BY DEF LoadedItems
  <2> QED BY <1>1, <1>4 DEF ConfigsKeepItems
<1> QED BY <1>2, <1>3, <1>5

(* A request that is answered takes what it had loaded with it.            *)
LEMMA AnswerStep ==
    ASSUME TableInv, NEW s \in Slots, Answer(s), ConfigsKeepItems
    PROVE  ReqShape' /\ LoadedItems' /\ LoadedGroups'
<1>1. req'[s] = Idle /\ OtherRequests(s) BY DEF Answer, OtherRequests, TableInv, ReqShape
<1>2. ~HasItem(s)' /\ ~HasGroup(s)' BY <1>1 DEF HasItem, HasGroup, Idle
<1> QED BY <1>1, <1>2, RequestsStep

(* The tables stay.                                                        *)
LEMMA RowsStay ==
    ASSUME TableInv, Keep, UNCHANGED whole
    PROVE  RowsInv' /\ ConfigsKeepItems
<1>1. next.config \in Nat BY DEF TableInv, RowsInv, Identities
<1> QED BY <1>1 DEF TableInv, RowsInv, Identities, Columns, GroupRefs, GroupExists, ConfigRefs,
                    Acknowledged, ConfigsKeepItems, Keep, tableVars

(* An item is inserted.                                                    *)
LEMMA InsertItem ==
    ASSUME TableInv, NEW row, DOMAIN row = ItemCols, GroupExists(row.group),
           items' = Put(items, next.item, row), next' = [next EXCEPT !.item = next.item + 1],
           UNCHANGED <<groups, configs, whole>>
    PROVE  RowsInv' /\ ConfigsKeepItems
<1>1. /\ next.item \in Nat \ {0} /\ next.config \in Nat
      /\ next' \in [group : Nat \ {0}, item : Nat \ {0}, config : Nat \ {0}]
      /\ next'.item = next.item + 1 /\ next'.config = next.config
  BY DEF TableInv, RowsInv, Identities
<1>2. /\ DOMAIN items' = DOMAIN items \cup {next.item} /\ items'[next.item] = row
      /\ \A i \in DOMAIN items \ {next.item} : items'[i] = items[i]
  BY DEF Put
<1>3. next.item \notin DOMAIN items /\ next.item \notin DOMAIN whole
  BY <1>1 DEF TableInv, RowsInv, Identities
<1>4. Identities' BY <1>1, <1>2 DEF TableInv, RowsInv, Identities
<1>5. Columns' BY <1>2, <1>3 DEF TableInv, RowsInv, Columns
<1>6. GroupRefs' BY <1>2, <1>3 DEF TableInv, RowsInv, GroupRefs, GroupExists
<1>7. ConfigRefs' BY <1>2 DEF TableInv, RowsInv, ConfigRefs
<1>8. Acknowledged' BY <1>2, <1>3 DEF TableInv, RowsInv, Acknowledged
<1>9. ConfigsKeepItems BY <1>1 DEF ConfigsKeepItems
<1> QED BY <1>4, <1>5, <1>6, <1>7, <1>8, <1>9 DEF RowsInv

(* Items change in their columns and refer to groups that are there.       *)
ItemsEdited ==
    /\ DOMAIN items' = DOMAIN items
    /\ \A i \in DOMAIN items : DOMAIN items'[i] = ItemCols /\ GroupExists(items'[i].group)

LEMMA ItemsUnedited == TableInv /\ UNCHANGED items => ItemsEdited
BY DEF TableInv, RowsInv, Columns, GroupRefs, ItemsEdited

(* A configuration is inserted for an item that has none.                  *)
LEMMA InsertConfig ==
    ASSUME TableInv, NEW i, NEW value, MayConfigure(i), Inserted(i, value), ItemsEdited, UNCHANGED groups,
           whole' \in {Put(whole, i, value), Drop(whole, {i})}
    PROVE  RowsInv' /\ ConfigsKeepItems
<1>1. /\ next.config \in Nat \ {0} /\ next' \in [group : Nat \ {0}, item : Nat \ {0}, config : Nat \ {0}]
      /\ next'.item = next.item /\ next'.config = next.config + 1
  BY DEF TableInv, RowsInv, Identities, Inserted
<1>2. /\ DOMAIN configs' = DOMAIN configs \cup {next.config}
      /\ configs'[next.config] = [item |-> i, value |-> value]
      /\ \A c \in DOMAIN configs \ {next.config} : configs'[c] = configs[c]
  BY DEF Inserted, Put
<1>3. next.config \notin DOMAIN configs BY <1>1 DEF TableInv, RowsInv, Identities
<1>4. i \in DOMAIN items /\ \A c \in DOMAIN configs : configs[c].item # i BY DEF MayConfigure, ConfigsOf
<1>5. /\ DOMAIN whole' \subseteq DOMAIN whole \cup {i}
      /\ i \in DOMAIN whole' => whole'[i] = value
      /\ \A j \in DOMAIN whole' \ {i} : j \in DOMAIN whole /\ whole'[j] = whole[j]
  <2>1. CASE whole' = Put(whole, i, value) BY <2>1 DEF Put
  <2>2. CASE whole' = Drop(whole, {i}) BY <2>2 DEF Drop
  <2> QED BY <2>1, <2>2
<1>6. configs'[next.config].item = i /\ configs'[next.config].value = value
      /\ DOMAIN configs'[next.config] = ConfigCols
  BY <1>2 DEF ConfigCols
<1>7. Identities' BY <1>1, <1>2, <1>4, <1>5 DEF TableInv, RowsInv, Identities, ItemsEdited
<1>8. Columns' BY <1>2, <1>3, <1>6 DEF TableInv, RowsInv, Columns, ItemsEdited
<1>9. GroupRefs' BY DEF TableInv, RowsInv, GroupRefs, GroupExists, ItemsEdited
<1>10. ConfigRefs' BY <1>2, <1>3, <1>4, <1>6 DEF TableInv, RowsInv, ConfigRefs, ItemsEdited
<1>11. Acknowledged'
  <2> SUFFICES ASSUME NEW j \in DOMAIN whole', j \in DOMAIN items'
               PROVE  \E c \in DOMAIN configs' : configs'[c].item = j /\ configs'[c].value = whole'[j]
    BY DEF Acknowledged
  <2>1. CASE j = i BY <1>2, <1>5, <1>6, <2>1
  <2>2. CASE j # i
    <3>1. j \in DOMAIN whole /\ j \in DOMAIN items /\ whole'[j] = whole[j] BY <1>5, <2>2 DEF ItemsEdited
    <3>2. PICK c \in DOMAIN configs : configs[c].item = j /\ configs[c].value = whole[j]
      BY <3>1 DEF TableInv, RowsInv, Acknowledged
    <3> QED BY <1>2, <1>3, <3>1, <3>2
  <2> QED BY <2>1, <2>2
<1>12. ConfigsKeepItems BY <1>1, <1>2, <1>3 DEF ConfigsKeepItems
<1> QED BY <1>7, <1>8, <1>9, <1>10, <1>11, <1>12 DEF RowsInv

(* Only the configurations of item i change or go.                         *)
ConfigsEdited(i) ==
    /\ DOMAIN configs' \subseteq DOMAIN configs
    /\ \A c \in DOMAIN configs' : DOMAIN configs'[c] = ConfigCols /\ configs'[c].item = configs[c].item
    /\ \A c \in DOMAIN configs : configs[c].item # i => c \in DOMAIN configs' /\ configs'[c] = configs[c]

LEMMA EditConfigs ==
    ASSUME TableInv, NEW i, ConfigsEdited(i), ItemsEdited, UNCHANGED <<groups, next>>, whole' = Drop(whole, {i})
    PROVE  RowsInv' /\ ConfigsKeepItems
<1>1. next.config \in Nat BY DEF TableInv, RowsInv, Identities
<1>2. DOMAIN whole' = DOMAIN whole \ {i} /\ \A j \in DOMAIN whole' : whole'[j] = whole[j]
  BY DEF Drop
<1>3. Identities' BY <1>2 DEF TableInv, RowsInv, Identities, ItemsEdited, ConfigsEdited
<1>4. Columns' BY DEF TableInv, RowsInv, Columns, ItemsEdited, ConfigsEdited
<1>5. GroupRefs' BY DEF TableInv, RowsInv, GroupRefs, GroupExists, ItemsEdited
<1>6. ConfigRefs' BY DEF TableInv, RowsInv, ConfigRefs, ItemsEdited, ConfigsEdited
<1>7. Acknowledged'
  <2> SUFFICES ASSUME NEW j \in DOMAIN whole', j \in DOMAIN items'
               PROVE  \E c \in DOMAIN configs' : configs'[c].item = j /\ configs'[c].value = whole'[j]
    BY DEF Acknowledged
  <2>1. j \in DOMAIN whole /\ j \in DOMAIN items /\ whole'[j] = whole[j] /\ j # i BY <1>2 DEF ItemsEdited
  <2>2. PICK c \in DOMAIN configs : configs[c].item = j /\ configs[c].value = whole[j]
    BY <2>1 DEF TableInv, RowsInv, Acknowledged
  <2> QED BY <2>1, <2>2 DEF ConfigsEdited
<1>8. ConfigsKeepItems BY <1>1 DEF ConfigsKeepItems, ConfigsEdited
<1> QED BY <1>3, <1>4, <1>5, <1>6, <1>7, <1>8 DEF RowsInv

(* An item goes with its configurations.                                   *)
LEMMA DropItem ==
    ASSUME TableInv, NEW i, items' = Drop(items, {i}), configs' = Drop(configs, ConfigsOf(i)),
           UNCHANGED <<groups, next, whole>>
    PROVE  RowsInv' /\ ConfigsKeepItems
<1>1. next.config \in Nat BY DEF TableInv, RowsInv, Identities
<1>2. DOMAIN items' = DOMAIN items \ {i} /\ \A j \in DOMAIN items' : items'[j] = items[j]
  BY DEF Drop
<1>3. /\ \A c : c \in DOMAIN configs' <=> (c \in DOMAIN configs /\ configs[c].item # i)
      /\ \A c \in DOMAIN configs' : configs'[c] = configs[c]
  BY DEF Drop, ConfigsOf
<1>4. Identities' BY <1>2, <1>3 DEF TableInv, RowsInv, Identities
<1>5. Columns' BY <1>2, <1>3 DEF TableInv, RowsInv, Columns
<1>6. GroupRefs' BY <1>2 DEF TableInv, RowsInv, GroupRefs, GroupExists
<1>7. ConfigRefs' BY <1>2, <1>3 DEF TableInv, RowsInv, ConfigRefs
<1>8. Acknowledged' BY <1>2, <1>3 DEF TableInv, RowsInv, Acknowledged
<1>9. ConfigsKeepItems BY <1>1, <1>3 DEF ConfigsKeepItems
<1> QED BY <1>4, <1>5, <1>6, <1>7, <1>8, <1>9 DEF RowsInv

(* Groups change, and what refers to them is still right.                  *)
LEMMA ChangeGroups ==
    ASSUME TableInv, UNCHANGED <<items, configs, whole>>, GroupRefs',
           \A g \in DOMAIN groups' : DOMAIN groups'[g] = GroupCols,
           next' \in [group : Nat \ {0}, item : Nat \ {0}, config : Nat \ {0}],
           next'.item = next.item, next'.config = next.config
    PROVE  RowsInv' /\ ConfigsKeepItems
<1>1. next.config \in Nat BY DEF TableInv, RowsInv, Identities
<1> QED BY <1>1 DEF TableInv, RowsInv, Identities, Columns, ConfigRefs, Acknowledged, ConfigsKeepItems

(* A request moves on with other parts; what it was asked stays.           *)
LEMMA RequestMoves ==
    ASSUME TableInv, NEW s \in Slots, req[s] # Idle, NEW at, NEW row, NEW config,
           \/ req' = [req EXCEPT ![s].at = at, ![s].row = row, ![s].config = config]
           \/ req' = [req EXCEPT ![s].at = at, ![s].row = row] /\ config = req[s].config
    PROVE  /\ OtherRequests(s) /\ DOMAIN req'[s] = {"at", "call", "row", "config"}
           /\ req'[s].at = at /\ req'[s].row = row /\ req'[s].config = config /\ req'[s].call = req[s].call
<1>1. DOMAIN req = Slots /\ DOMAIN req[s] = {"at", "call", "row", "config"} BY DEF TableInv, ReqShape
<1> QED BY <1>1 DEF OtherRequests

(* The first save of CreateMenuItem.                                       *)
LEMMA TablesSaveItem ==
    ASSUME TableInv, NEW s \in Slots, SaveItem(s)
    PROVE  TableInv'
<1> DEFINE call == req[s].call
           row  == [name |-> call.name, group |-> call.group, visible |-> call.visible]
<1>1. CASE GroupExists(call.group) /\ next.item <= MaxRows
  <2>1. /\ items' = Put(items, next.item, row) /\ next' = [next EXCEPT !.item = next.item + 1]
        /\ UNCHANGED <<groups, configs, whole>>
    BY <1>1 DEF SaveItem
  <2>2. DOMAIN row = ItemCols /\ GroupExists(row.group) BY <1>1 DEF ItemCols
  <2>3. RowsInv' /\ ConfigsKeepItems BY <2>1, <2>2, InsertItem
  <2>4. CASE Answer(s) BY <2>3, <2>4, AnswerStep DEF TableInv
  <2>5. CASE req' = [req EXCEPT ![s].at = "configuring", ![s].row = next.item]
    <3>1. req[s] # Idle BY DEF SaveItem, Idle
    <3>2. /\ OtherRequests(s) /\ DOMAIN req'[s] = {"at", "call", "row", "config"}
          /\ req'[s].at = "configuring"
      BY <2>5, <3>1, RequestMoves
    <3> QED BY <2>3, <3>2, RequestsStep DEF TableInv, HasItem, HasGroup
  <2> QED BY <1>1, <2>4, <2>5 DEF SaveItem
<1>2. CASE ~(GroupExists(call.group) /\ next.item <= MaxRows)
  <2>1. Answer(s) /\ Keep /\ UNCHANGED whole BY <1>2 DEF SaveItem
  <2> QED BY <2>1, RowsStay, AnswerStep DEF TableInv
<1> QED BY <1>1, <1>2

(* The second save.                                                        *)
LEMMA TablesSaveConfig ==
    ASSUME TableInv, NEW s \in Slots, SaveConfig(s)
    PROVE  TableInv'
<1>1. Answer(s) BY DEF SaveConfig
<1>2. CASE Keep /\ UNCHANGED whole BY <1>1, <1>2, RowsStay, AnswerStep DEF TableInv
<1>3. CASE ~(Keep /\ UNCHANGED whole)
  <2>1. /\ MayConfigure(req[s].row) /\ Inserted(req[s].row, req[s].call.config) /\ UNCHANGED <<groups, items>>
        /\ whole' = Put(whole, req[s].row, req[s].call.config)
    BY <1>3 DEF SaveConfig
  <2> QED BY <1>1, <2>1, ItemsUnedited, InsertConfig, AnswerStep DEF TableInv
<1> QED BY <1>2, <1>3

(* UpdateMenuItem or DeleteMenuItem loads its item.                        *)
LEMMA TablesLoadItem ==
    ASSUME TableInv, NEW s \in Slots, LoadItem(s)
    PROVE  TableInv'
<1>1. RowsInv' /\ ConfigsKeepItems BY RowsStay DEF LoadItem
<1>2. CASE Answer(s) BY <1>1, <1>2, AnswerStep DEF TableInv
<1>3. CASE ~Answer(s)
  <2> DEFINE call   == req[s].call
             at     == IF call.op = "updateItem" /\ call.group # None THEN "looking" ELSE "saving"
             row    == items[call.id]
             config == {[id |-> c, value |-> configs[c].value] : c \in ConfigsOf(call.id)}
  <2>1. /\ call.id \in DOMAIN items /\ req[s] # Idle
        /\ req' = [req EXCEPT ![s].at = at, ![s].row = row, ![s].config = config]
    BY <1>3 DEF LoadItem, Idle
  <2>2. DOMAIN row = ItemCols BY <2>1 DEF TableInv, RowsInv, Columns
  <2>3. \A h \in config : h.id \in DOMAIN configs /\ configs[h.id].item = call.id BY DEF ConfigsOf
  <2>4. DOMAIN configs \subseteq 1..(next.config - 1) BY DEF TableInv, RowsInv, Identities
  <2>5. at = "looking" => call.op = "updateItem" OBVIOUS
  <2>6. call.op # "updateGroup" BY DEF LoadItem
  <2> HIDE DEF at, row, config
  <2>7. /\ OtherRequests(s) /\ DOMAIN req'[s] = {"at", "call", "row", "config"}
        /\ req'[s].at = at /\ req'[s].row = row /\ req'[s].config = config /\ req'[s].call = call
    BY <2>1, RequestMoves
  <2>8. \A h \in req'[s].config : /\ h.id \in 1..(next.config - 1)
                                  /\ h.id \in DOMAIN configs => configs[h.id].item = req'[s].call.id
    BY <2>3, <2>4, <2>7
  <2>9. HasItem(s)' => req'[s].call.op = "updateItem" BY <2>5, <2>7 DEF HasItem
  <2>10. ~HasGroup(s)' BY <2>6, <2>7 DEF HasGroup
  <2>11. DOMAIN req'[s].row = ItemCols BY <2>2, <2>7
  <2> QED BY <1>1, <2>7, <2>8, <2>9, <2>10, <2>11, RequestsStep DEF TableInv
<1> QED BY <1>2, <1>3

(* It looks for the group.                                                 *)
LEMMA TablesLookForGroup ==
    ASSUME TableInv, NEW s \in Slots, LookForGroup(s)
    PROVE  TableInv'
<1>1. RowsInv' /\ ConfigsKeepItems BY RowsStay DEF LookForGroup
<1>2. CASE Answer(s) BY <1>1, <1>2, AnswerStep DEF TableInv
<1>3. CASE Goto(s, "saving")
  <2>1. req[s].at = "looking" /\ req[s] # Idle BY DEF LookForGroup, Idle
  <2>2. /\ OtherRequests(s) /\ DOMAIN req'[s] = {"at", "call", "row", "config"} /\ req'[s].row = req[s].row
        /\ req'[s].config = req[s].config /\ req'[s].call = req[s].call
    <3>1. DOMAIN req = Slots /\ DOMAIN req[s] = {"at", "call", "row", "config"}
      BY <2>1 DEF TableInv, ReqShape
    <3> QED BY <1>3, <3>1 DEF Goto, OtherRequests
  <2>3. /\ req[s].call.op = "updateItem" /\ DOMAIN req[s].row = ItemCols
        /\ \A h \in req[s].config : /\ h.id \in 1..(next.config - 1)
                                    /\ h.id \in DOMAIN configs => configs[h.id].item = req[s].call.id
    BY <2>1 DEF TableInv, LoadedItems, HasItem
  <2>4. ~HasGroup(s)' BY <2>2, <2>3 DEF HasGroup
  <2> QED BY <1>1, <2>2, <2>3, <2>4, RequestsStep DEF TableInv
<1> QED BY <1>2, <1>3 DEF LookForGroup

(* The save of UpdateMenuItem.                                             *)
LEMMA TablesSaveItemUpdate ==
    ASSUME TableInv, NEW s \in Slots, SaveItemUpdate(s)
    PROVE  TableInv'
<1> DEFINE call == req[s].call
           i == call.id
           old == req[s].row
           had == req[s].config
           wanted == [name |-> call.name, group |-> IF call.group = None THEN old.group ELSE call.group,
                      visible |-> call.visible]
           touched == {h.id : h \in {x \in had : x.value # call.config}}
<1>1. Answer(s) BY DEF SaveItemUpdate
<1>2. CASE Keep /\ UNCHANGED whole BY <1>1, <1>2, RowsStay, AnswerStep DEF TableInv
<1>3. CASE ~(Keep /\ UNCHANGED whole)
  <2>1. /\ wanted = old \/ (i \in DOMAIN items /\ (wanted.group # old.group => GroupExists(wanted.group)))
        /\ had = {} /\ call.config # None => MayConfigure(i)
        /\ touched \subseteq DOMAIN configs
        /\ items' = IF wanted = old THEN items ELSE Put(items, i, Changed(old, wanted, items[i]))
        /\ \/ had = {} /\ call.config # None /\ Inserted(i, call.config)
           \/ configs' = Drop(configs, touched) /\ UNCHANGED next
           \/ /\ configs' = [c \in DOMAIN configs |-> IF c \in touched
                                THEN [configs[c] EXCEPT !.value = call.config] ELSE configs[c]]
              /\ UNCHANGED next
        /\ whole' = Drop(whole, {i}) /\ UNCHANGED groups
    BY <1>3 DEF SaveItemUpdate
  <2>2. HasItem(s) BY DEF SaveItemUpdate, HasItem
  <2>3. /\ DOMAIN old = ItemCols
        /\ \A h \in had : h.id \in DOMAIN configs => configs[h.id].item = i
    BY <2>2 DEF TableInv, LoadedItems
  <2>4. ItemsEdited
    <3>1. CASE wanted = old BY <2>1, <3>1, ItemsUnedited
    <3>2. CASE wanted # old
      <4> DEFINE new == Changed(old, wanted, items[i])
      <4>1. i \in DOMAIN items /\ (wanted.group # old.group => GroupExists(wanted.group)) BY <2>1, <3>2
      <4>2. DOMAIN new = ItemCols BY <2>3 DEF Changed
      <4>3. new.group = IF wanted.group = old.group THEN items[i].group ELSE wanted.group
        BY <2>3 DEF Changed, ItemCols
      <4>4. GroupExists(new.group) BY <4>1, <4>3 DEF TableInv, RowsInv, GroupRefs
      <4>5. items' = Put(items, i, new) BY <2>1, <3>2
      <4> HIDE DEF new
      <4>6. DOMAIN items' = DOMAIN items /\ \A j \in DOMAIN items : items'[j] = IF j = i THEN new ELSE items[j]
        BY <4>1, <4>5 DEF Put
      <4> QED BY <4>2, <4>4, <4>6 DEF ItemsEdited, TableInv, RowsInv, Columns, GroupRefs
    <3> QED BY <3>1, <3>2
  <2>5. \A c \in touched : configs[c].item = i BY <2>1, <2>3
  <2>6. \A c \in DOMAIN configs : DOMAIN configs[c] = ConfigCols BY DEF TableInv, RowsInv, Columns
  <2>7. CASE had = {} /\ call.config # None /\ Inserted(i, call.config)
    BY <1>1, <2>1, <2>4, <2>7, InsertConfig, AnswerStep DEF TableInv
  <2>8. ASSUME ConfigsEdited(i), UNCHANGED next PROVE TableInv'
    BY <1>1, <2>1, <2>4, <2>8, EditConfigs, AnswerStep DEF TableInv
  <2> HIDE DEF touched, i
  <2>9. CASE configs' = Drop(configs, touched) /\ UNCHANGED next
    <3>1. DOMAIN configs' = DOMAIN configs \ touched /\ \A c \in DOMAIN configs' : configs'[c] = configs[c]
      BY <2>9 DEF Drop
    <3>2. ConfigsEdited(i) BY <2>5, <2>6, <3>1 DEF ConfigsEdited
    <3> QED BY <2>8, <2>9, <3>2
  <2>10. CASE /\ configs' = [c \in DOMAIN configs |-> IF c \in touched
                                THEN [configs[c] EXCEPT !.value = call.config] ELSE configs[c]]
              /\ UNCHANGED next
    <3>1. DOMAIN configs' = DOMAIN configs BY <2>10
    <3>2. \A c \in DOMAIN configs \ touched : configs'[c] = configs[c] BY <2>10
    <3>3. \A c \in DOMAIN configs : DOMAIN configs'[c] = ConfigCols /\ configs'[c].item = configs[c].item
      <4> TAKE c \in DOMAIN configs
      <4>1. configs'[c] = configs[c] \/ configs'[c] = [configs[c] EXCEPT !.value = call.config] BY <2>10
      <4> QED BY <2>6, <4>1 DEF ConfigCols
    <3>4. ConfigsEdited(i) BY <2>5, <3>1, <3>2, <3>3 DEF ConfigsEdited
    <3> QED BY <2>8, <2>10, <3>4
  <2> QED BY <2>1, <2>7, <2>9, <2>10
<1> QED BY <1>2, <1>3

LEMMA TablesRemoveItem ==
    ASSUME TableInv, NEW s \in Slots, RemoveItem(s)
    PROVE  TableInv'
BY RowsStay, DropItem, AnswerStep DEF RemoveItem, TableInv

LEMMA TablesSaveGroup ==
    ASSUME TableInv, NEW s \in Slots, SaveGroup(s)
    PROVE  TableInv'
<1> DEFINE call == req[s].call
           row  == [parent |-> call.parent, visible |-> call.visible]
<1>1. Answer(s) /\ UNCHANGED whole BY DEF SaveGroup
<1>2. CASE Keep BY <1>1, <1>2, RowsStay, AnswerStep DEF TableInv
<1>3. CASE ~Keep
  <2>1. /\ GroupExists(call.parent) /\ groups' = Put(groups, next.group, row)
        /\ next' = [next EXCEPT !.group = @ + 1] /\ UNCHANGED <<items, configs>>
    BY <1>3 DEF SaveGroup
  <2>2. /\ next' \in [group : Nat \ {0}, item : Nat \ {0}, config : Nat \ {0}]
        /\ next'.item = next.item /\ next'.config = next.config
    BY <2>1 DEF TableInv, RowsInv, Identities
  <2>3. DOMAIN row = GroupCols /\ row.parent = call.parent BY DEF GroupCols
  <2> HIDE DEF row
  <2>4. /\ DOMAIN groups' = DOMAIN groups \cup {next.group}
        /\ \A g \in DOMAIN groups' : groups'[g] = IF g = next.group THEN row ELSE groups[g]
    BY <2>1 DEF Put
  <2>5. GroupRefs' BY <2>1, <2>3, <2>4 DEF TableInv, RowsInv, GroupRefs, GroupExists
  <2>6. \A g \in DOMAIN groups' : DOMAIN groups'[g] = GroupCols
    BY <2>3, <2>4 DEF TableInv, RowsInv, Columns
  <2> QED BY <1>1, <2>1, <2>2, <2>5, <2>6, ChangeGroups, AnswerStep DEF TableInv
<1> QED BY <1>2, <1>3

LEMMA TablesLoadGroup ==
    ASSUME TableInv, NEW s \in Slots, LoadGroup(s)
    PROVE  TableInv'
<1>1. RowsInv' /\ ConfigsKeepItems BY RowsStay DEF LoadGroup
<1>2. CASE Answer(s) BY <1>1, <1>2, AnswerStep DEF TableInv
<1>3. CASE ~Answer(s)
  <2>1. /\ req[s].call.id \in DOMAIN groups /\ req[s] # Idle /\ req[s].call.op # "updateItem"
        /\ req' = [req EXCEPT ![s].at = "saving", ![s].row = groups[req[s].call.id]]
    BY <1>3 DEF LoadGroup, Idle
  <2>2. /\ OtherRequests(s) /\ DOMAIN req'[s] = {"at", "call", "row", "config"}
        /\ req'[s].at = "saving" /\ req'[s].row = groups[req[s].call.id] /\ req'[s].call = req[s].call
    <3> DEFINE row == groups[req[s].call.id]
    <3>1. req' = [req EXCEPT ![s].at = "saving", ![s].row = row] BY <2>1
    <3> HIDE DEF row
    <3>2. /\ OtherRequests(s) /\ DOMAIN req'[s] = {"at", "call", "row", "config"}
          /\ req'[s].at = "saving" /\ req'[s].row = row /\ req'[s].call = req[s].call
      <4>1. DOMAIN req = Slots /\ DOMAIN req[s] = {"at", "call", "row", "config"}
        BY <2>1 DEF TableInv, ReqShape
      <4> QED BY <3>1, <4>1 DEF OtherRequests
    <3> QED BY <3>2 DEF row
  <2>3. DOMAIN groups[req[s].call.id] = GroupCols BY <2>1 DEF TableInv, RowsInv, Columns
  <2>4. ~HasItem(s)' BY <2>1, <2>2 DEF HasItem
  <2> QED BY <1>1, <2>2, <2>3, <2>4, RequestsStep DEF TableInv
<1> QED BY <1>2, <1>3

LEMMA TablesSaveGroupUpdate ==
    ASSUME TableInv, NEW s \in Slots, SaveGroupUpdate(s)
    PROVE  TableInv'
<1> DEFINE call == req[s].call
           old == req[s].row
           wanted == [parent |-> call.parent, visible |-> call.visible]
           new == Changed(old, wanted, groups[call.id])
<1>1. Answer(s) /\ UNCHANGED whole BY DEF SaveGroupUpdate
<1>2. CASE Keep BY <1>1, <1>2, RowsStay, AnswerStep DEF TableInv
<1>3. CASE ~Keep
  <2>1. /\ call.id \in DOMAIN groups /\ (wanted.parent # old.parent => GroupExists(wanted.parent))
        /\ groups' = Put(groups, call.id, new) /\ UNCHANGED <<items, configs, next>>
    BY <1>3 DEF SaveGroupUpdate
  <2>2. DOMAIN old = GroupCols BY DEF SaveGroupUpdate, HasGroup, TableInv, LoadedGroups
  <2>3. DOMAIN new = GroupCols BY <2>2 DEF Changed
  <2>4. new.parent = IF wanted.parent = old.parent THEN groups[call.id].parent ELSE wanted.parent
    BY <2>2 DEF Changed, GroupCols
  <2>5. GroupExists(new.parent) BY <2>1, <2>4 DEF TableInv, RowsInv, GroupRefs
  <2> HIDE DEF new
  <2>6. /\ DOMAIN groups' = DOMAIN groups
        /\ \A g \in DOMAIN groups' : groups'[g] = IF g = call.id THEN new ELSE groups[g]
    BY <2>1 DEF Put
  <2>7. GroupRefs' BY <2>1, <2>5, <2>6 DEF TableInv, RowsInv, GroupRefs, GroupExists
  <2>8. \A g \in DOMAIN groups' : DOMAIN groups'[g] = GroupCols
    BY <2>3, <2>6 DEF TableInv, RowsInv, Columns
  <2> QED BY <1>1, <2>1, <2>7, <2>8, ChangeGroups, AnswerStep DEF TableInv, RowsInv, Identities
<1> QED BY <1>2, <1>3

LEMMA TablesRemoveGroup ==
    ASSUME TableInv, NEW s \in Slots, RemoveGroup(s)
    PROVE  TableInv'
<1> DEFINE g == req[s].call.id
<1>1. Answer(s) /\ UNCHANGED whole BY DEF RemoveGroup
<1>2. CASE Keep BY <1>1, <1>2, RowsStay, AnswerStep DEF TableInv
<1>3. CASE ~Keep
  <2>1. ~Used(g) /\ groups' = Drop(groups, {g}) /\ UNCHANGED <<items, configs, next>>
    BY <1>3 DEF RemoveGroup
  <2> HIDE DEF g
  <2>2. DOMAIN groups' = DOMAIN groups \ {g} /\ \A h \in DOMAIN groups' : groups'[h] = groups[h]
    BY <2>1 DEF Drop
  <2>3. GroupRefs' BY <2>1, <2>2 DEF TableInv, RowsInv, GroupRefs, GroupExists, Used
  <2>4. \A h \in DOMAIN groups' : DOMAIN groups'[h] = GroupCols
    BY <2>2 DEF TableInv, RowsInv, Columns
  <2> QED BY <1>1, <2>1, <2>3, <2>4, ChangeGroups, AnswerStep DEF TableInv, RowsInv, Identities
<1> QED BY <1>2, <1>3

(* A request begins.                                                       *)
LEMMA TablesEdit ==
    ASSUME TableInv, NEW s \in Slots, NEW u, NEW call, Edit(s, u, call)
    PROVE  TableInv'
<1>1. PICK at : Begin(s, u, call, at) /\ at \in {"saving", "loading"}
                /\ (at = "saving" => call.op \in {"createItem", "createGroup"})
  BY DEF Edit, CreateMenuItem, UpdateMenuItem, DeleteMenuItem, CreateMenuGroup, UpdateMenuGroup,
         DeleteMenuGroup
<1>2. RowsInv' /\ ConfigsKeepItems BY <1>1, RowsStay DEF Begin
<1>3. OtherRequests(s) /\ req'[s] = Request(at, call)
  BY <1>1 DEF Begin, OtherRequests, TableInv, ReqShape
<1>4. DOMAIN req'[s] = {"at", "call", "row", "config"} /\ ~HasItem(s)' /\ ~HasGroup(s)'
  BY <1>1, <1>3 DEF Request, HasItem, HasGroup
<1> QED BY <1>2, <1>3, <1>4, RequestsStep DEF TableInv

LEMMA TablesStep == TableInv /\ [Next]_vars => TableInv'
<1> SUFFICES ASSUME TableInv, [Next]_vars PROVE TableInv'
  OBVIOUS
<1>1. ASSUME UNCHANGED <<tableVars, whole, req>> PROVE TableInv'
  <2>1. RowsInv' BY <1>1, RowsStay DEF Keep
  <2> QED BY <1>1, <2>1 DEF tableVars, TableInv, ReqShape, LoadedItems, LoadedGroups, HasItem, HasGroup
<1>2. CASE ContainerStep
  <2>1. Keep /\ UNCHANGED whole BY <1>2 DEF ContainerStep, ContainerFrame, Keep
  <2>2. CASE UNCHANGED req BY <1>1, <2>1, <2>2 DEF Keep
  <2>3. CASE req' = [s \in Slots |-> Idle]
    <3>1. RowsInv' BY <2>1, RowsStay
    <3> QED BY <2>3, <3>1 DEF TableInv, ReqShape, LoadedItems, LoadedGroups, HasItem, HasGroup, Idle
  <2> QED BY <1>2, <2>2, <2>3 DEF ContainerStep, ContainerFrame, Interrupt
<1>3. CASE MenuStep
  <2>1. ASSUME NEW s \in Slots, Serve(s) PROVE TableInv'
    BY <2>1, TablesSaveItem, TablesSaveConfig, TablesLoadItem, TablesLookForGroup, TablesSaveItemUpdate,
       TablesRemoveItem, TablesSaveGroup, TablesLoadGroup, TablesSaveGroupUpdate, TablesRemoveGroup DEF Serve
  <2>2. ASSUME NEW t \in Grants, AddUserPermission(t) \/ WriteTuple(t) PROVE TableInv'
    BY <1>1, <2>2 DEF AddUserPermission, WriteTuple, Keep
  <2> QED BY <1>3, <2>1, <2>2, TablesEdit DEF MenuStep
<1>4. CASE PageStep BY <1>1, <1>4 DEF PageStep, PageFrame, menuVars, tableVars
<1>5. CASE UNCHANGED vars BY <1>1, <1>5 DEF vars, menuVars, tableVars
<1> QED BY <1>2, <1>3, <1>4, <1>5 DEF Next

(* In every order of the steps of requests that create, move, configure    *)
(* and delete, the tables refer to nothing that is gone, an item has one   *)
(* configuration at most, and one that was acknowledged has its own.       *)
THEOREM TablesStayWhole == Spec => []TablesAreWhole
<1>1. TableInv => TablesAreWhole
  <2> SUFFICES ASSUME TableInv PROVE TablesAreWhole
    OBVIOUS
  <2>1. ASSUME NEW i PROVE Cardinality(ConfigsOf(i)) <= 1
    <3>1. CASE ConfigsOf(i) = {} BY <3>1, FS_EmptySet
    <3>2. CASE ConfigsOf(i) # {}
      <4>1. PICK c : c \in ConfigsOf(i) BY <3>2
      <4>2. ConfigsOf(i) = {c} BY <4>1 DEF ConfigsOf, TableInv, RowsInv, ConfigRefs
      <4>3. Cardinality({c}) = 1 BY FS_Singleton
      <4> QED BY <4>2, <4>3
    <3> QED BY <3>1, <3>2
  <2> QED BY <2>1 DEF TablesAreWhole, ConfigsOf, TableInv, RowsInv, GroupRefs, ConfigRefs, Acknowledged
<1> QED BY <1>1, TablesInitially, TablesStep, PTL DEF Spec

-----------------------------------------------------------------------------
(* Types. *)

(* An error that was taken for an answer is one of the events.             *)
EventsOK == events \in Nat /\ events <= MaxEvents /\ misreads \in Nat /\ misreads <= events
ProcessOK == openfga \in {"none", "starting", "up", "dead"}

ReqStages == {"idle", "saving", "configuring", "loading", "looking"}
ReqsOK == \A s \in Slots : req[s].at \in ReqStages

LEMMA EventsStep == StoreInv /\ EventsOK /\ [Next]_vars => EventsOK'
<1> SUFFICES ASSUME StoreInv, EventsOK, [Next]_vars PROVE EventsOK'
  OBVIOUS
<1>1. CASE UNCHANGED <<events, misreads>> BY <1>1 DEF EventsOK
<1>2. CASE Spare /\ Event /\ misreads' \in {misreads, misreads + 1}
  BY <1>2, StartAssumption DEF EventsOK, Spare, Event
<1>3. Errors /\ Failure => (Spare /\ Event /\ misreads' = misreads) \/ UNCHANGED <<events, misreads>>
  BY DEF Errors, Failure, Counted
<1>4. ListStores => \/ Spare /\ Event /\ misreads' \in {misreads, misreads + 1}
                    \/ UNCHANGED <<events, misreads>>
  BY DEF ListStores, Errors, Counted, Calm, StoreInv
<1>5. CASE ContainerStep
  <2>1. CASE Step
    BY <1>1, <1>2, <1>3, <1>4, <2>1 DEF Step, Start, Migrate, WaitForOpenFGA, CreateStore,
       ListModels, UploadModel, RetryModel, Calm
  <2> QED BY <1>1, <1>2, <1>5, <2>1 DEF ContainerStep, OpenFGAComesUp, OpenFGADies, ContainerStops
<1>6. CASE MenuStep
  <2>1. ASSUME NEW s \in Slots, Serve(s) PROVE EventsOK'
    BY <1>1, <2>1 DEF Serve, SaveItem, SaveConfig, LoadItem, LookForGroup, SaveItemUpdate, RemoveItem,
       SaveGroup, LoadGroup, SaveGroupUpdate, RemoveGroup, Stay, startVars
  <2>2. ASSUME NEW s \in Slots, NEW u \in Users, NEW call \in Calls, Edit(s, u, call) PROVE EventsOK'
    BY <1>2, <2>2 DEF Edit, CreateMenuItem, UpdateMenuItem, DeleteMenuItem, CreateMenuGroup,
       UpdateMenuGroup, DeleteMenuGroup, Begin
  <2>3. ASSUME NEW t \in Grants, AddUserPermission(t) \/ WriteTuple(t) PROVE EventsOK'
    BY <1>2, <2>3 DEF AddUserPermission, WriteTuple
  <2> QED BY <1>6, <2>1, <2>2, <2>3 DEF MenuStep
<1> QED BY <1>1, <1>5, <1>6 DEF Next, PageStep, PageFrame, startVars, vars

LEMMA ProcessStep == ProcessOK /\ [Next]_vars => ProcessOK'
<1> SUFFICES ASSUME ProcessOK, [Next]_vars PROVE ProcessOK'
  OBVIOUS
<1>1. CASE ContainerStep
  <2>1. CASE Step
    BY <2>1 DEF Step, Start, Migrate, WaitForOpenFGA, ListStores, CreateStore, ListModels, UploadModel,
       RetryModel, Refused, Exit, ProcessOK
  <2> QED BY <1>1, <2>1 DEF ContainerStep, OpenFGAComesUp, OpenFGADies, ContainerStops, Exit, ProcessOK
<1>2. CASE MenuStep
  <2>1. ASSUME NEW s \in Slots, Serve(s) PROVE UNCHANGED openfga
    BY <2>1 DEF Serve, SaveItem, SaveConfig, LoadItem, LookForGroup, SaveItemUpdate, RemoveItem,
       SaveGroup, LoadGroup, SaveGroupUpdate, RemoveGroup, Stay, startVars
  <2>2. ASSUME NEW s \in Slots, NEW u \in Users, NEW call \in Calls, Edit(s, u, call) PROVE UNCHANGED openfga
    BY <2>2 DEF Edit, CreateMenuItem, UpdateMenuItem, DeleteMenuItem, CreateMenuGroup, UpdateMenuGroup,
       DeleteMenuGroup, Begin
  <2>3. ASSUME NEW t \in Grants, AddUserPermission(t) \/ WriteTuple(t) PROVE UNCHANGED openfga
    BY <2>3 DEF AddUserPermission, WriteTuple
  <2> QED BY <1>2, <2>1, <2>2, <2>3 DEF MenuStep, ProcessOK
<1> QED BY <1>1, <1>2 DEF ProcessOK, Next, PageStep, PageFrame, startVars, vars

LEMMA ReqsStep == ReqShape /\ ReqsOK /\ [Next]_vars => ReqsOK'
<1> SUFFICES ASSUME ReqShape, ReqsOK, [Next]_vars PROVE ReqsOK'
  OBVIOUS
<1>1. CASE UNCHANGED req BY <1>1 DEF ReqsOK
<1>2. ASSUME NEW s \in Slots, NEW f, f.at \in ReqStages, req' = [req EXCEPT ![s] = f] PROVE ReqsOK'
  BY <1>2 DEF ReqsOK, ReqShape
<1>3. Idle.at \in ReqStages BY DEF Idle, ReqStages
<1>4. ASSUME NEW s \in Slots, Answer(s) PROVE ReqsOK' BY <1>2, <1>3, <1>4 DEF Answer
<1>5. CASE ContainerStep
  <2>1. CASE req' = [s \in Slots |-> Idle] BY <1>3, <2>1 DEF ReqsOK
  <2> QED BY <1>1, <1>5, <2>1 DEF ContainerStep, ContainerFrame, Interrupt
<1>6. CASE MenuStep
  <2>1. ASSUME NEW s \in Slots, NEW u \in Users, NEW call \in Calls, Edit(s, u, call) PROVE ReqsOK'
    <3>1. \A a : Request(a, call).at = a BY DEF Request
    <3>2. ASSUME NEW a \in {"saving", "loading"}, Begin(s, u, call, a) PROVE ReqsOK'
      <4>1. Request(a, call).at \in ReqStages BY <3>1 DEF ReqStages
      <4>2. req' = [req EXCEPT ![s] = Request(a, call)] BY <3>2 DEF Begin
      <4> QED BY <1>2, <4>1, <4>2
    <3> QED BY <2>1, <3>2 DEF Edit, CreateMenuItem, UpdateMenuItem, DeleteMenuItem, CreateMenuGroup,
                              UpdateMenuGroup, DeleteMenuGroup
  <2>2. ASSUME NEW t \in Grants, AddUserPermission(t) \/ WriteTuple(t) PROVE ReqsOK'
    BY <1>1, <2>2 DEF AddUserPermission, WriteTuple
  <2>3. ASSUME NEW s \in Slots, Serve(s) PROVE ReqsOK'
    <3>1. PICK q : q = req[s] OBVIOUS
    <3>2. q # Idle => DOMAIN q = {"at", "call", "row", "config"} BY <3>1 DEF ReqShape
    <3>3. ASSUME NEW a \in ReqStages, q # Idle, \A t \in Slots \ {s} : req'[t] = req[t],
                 req'[s].at = a
          PROVE  ReqsOK'
      BY <3>3 DEF ReqsOK
    <3>4. CASE SaveConfig(s) \/ SaveItemUpdate(s) \/ RemoveItem(s) \/ SaveGroup(s)
               \/ SaveGroupUpdate(s) \/ RemoveGroup(s)
      BY <1>4, <3>4 DEF SaveConfig, SaveItemUpdate, RemoveItem, SaveGroup, SaveGroupUpdate, RemoveGroup
    <3>5. CASE SaveItem(s) \/ LoadItem(s) \/ LookForGroup(s) \/ LoadGroup(s)
      <4>1. q # Idle BY <3>1, <3>5 DEF SaveItem, LoadItem, LookForGroup, LoadGroup, Idle
      <4>2. Answer(s) \/ (/\ \A t \in Slots \ {s} : req'[t] = req[t]
                          /\ req'[s].at \in {"configuring", "looking", "saving"})
        BY <3>1, <3>2, <3>5, <4>1 DEF SaveItem, LoadItem, LookForGroup, LoadGroup, Goto, ReqShape
      <4> QED BY <1>4, <3>3, <4>1, <4>2 DEF ReqStages
    <3> QED BY <2>3, <3>4, <3>5 DEF Serve
  <2> QED BY <1>6, <2>1, <2>2, <2>3 DEF MenuStep
<1> QED BY <1>1, <1>5, <1>6 DEF Next, PageStep, PageFrame, menuVars, vars

(* The variables of the container, the requests and the page keep their    *)
(* types: the script never goes on with a store that is not there, and the *)
(* page shows that it is loading exactly as long as a request is on its    *)
(* way.                                                                    *)
THEOREM PortalTypes == Spec => []PortalTypeOK
<1>1. Init => EventsOK /\ ProcessOK /\ ReqsOK
  BY StartAssumption DEF Init, StartInit, MenuInit, EventsOK, ProcessOK, ReqsOK, ReqStages, Idle
<1>2. StoreInv /\ OwnInv /\ EventsOK /\ ProcessOK /\ ReqsOK => PortalTypeOK
  <2> SUFFICES ASSUME StoreInv, OwnInv, EventsOK, ProcessOK, ReqsOK PROVE PortalTypeOK
    OBVIOUS
  <2>1. StartTypeOK
    <3>1. events \in 0..MaxEvents /\ misreads \in 0..events BY StartAssumption DEF EventsOK
    <3>2. \A i \in DOMAIN stores : stores[i].model \in BOOLEAN
      <4>1. stores \in Seq(StoreRow) BY DEF StoreInv, StartTypes
      <4>2. \A i \in DOMAIN stores : stores[i] \in StoreRow BY <4>1
      <4> QED BY <4>2 DEF StoreRow
    <3>3. box \in BoxType /\ stores \in Seq(StoreRow) BY DEF StoreInv, StartTypes
    <3>4. box.at \in Stages /\ box.store \in 0..Len(stores) /\ box.misled \in BOOLEAN
      BY <3>3 DEF BoxType, StoreInv
    <3> QED BY <3>1, <3>2, <3>4 DEF StartTypeOK, StoreInv, StartTypes, Stages, ProcessOK
  <2>2. page.user \in Users \cup {None} /\ page.owner \in Users \cup {None} /\ cache \in Users \cup {None}
    BY DEF OwnInv, PageTypes, PageType
  <2>3. fetch.at \in {"none", "reading", "admin", "checking", "answered"}
    BY DEF OwnInv, PageTypes, FetchShape, InServer, NoFetch
  <2> QED BY <2>1, <2>2, <2>3 DEF PortalTypeOK, ReqsOK, ReqStages, OwnInv
<1>3. TableInv => ReqShape BY DEF TableInv
<1> QED BY <1>1, <1>2, <1>3, EventsStep, ProcessStep, ReqsStep, StoreInitially, StoreStep, OwnInitially, OwnStep,
           TablesInitially, TablesStep, PTL DEF Spec
=============================================================================
