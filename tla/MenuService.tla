------------------------------ MODULE MenuService ------------------------------
(***************************************************************************)
(* The portal's back end: Services/MenuService.cs behind the Functions     *)
(* that call it, Services/AuthorizationService.cs, and the tables of       *)
(* ApplicationDbContext.  Requests run concurrently, each with a           *)
(* DbContext of its own: it loads, checks and saves in separate steps, and *)
(* only one SaveChangesAsync is atomic.  The host serves requests while    *)
(* the container of ContainerStart does.                                   *)
(***************************************************************************)
EXTENDS ContainerStart, FiniteSetsExt

CONSTANTS
    Users, RoleAdmins, \* users, and those whose token has the role admin
    Admin,             \* the object role:admin, with the relation assignee
    Roles,             \* the roles that items are shown to
    ObjectOf,          \* the OpenFGA object of the name of an item
    Slots,             \* requests in progress at a time
    Calls,             \* the edits that are requested
    Grants,            \* the tuples that are written and deleted: <<user, item>>
                       \* for viewer, <<role, item>> for viewer_role and
                       \* <<user, role>> for assignee
    Groups0, Items0, Configs0, \* the tables when the container is first started
    MaxRows            \* bound on the rows ever inserted into a table

VARIABLES
    groups,    \* MenuGroups: id -> [parent, visible]
    items,     \* MenuItems: id -> [name, group, visible]
    configs,   \* PowerBIConfigs: id -> [item, value]
    next,      \* the next identity of each table
    req,       \* what each slot does
    whole      \* item -> value: created and acknowledged with this
               \* configuration and not updated since (history)

tableVars == <<groups, items, configs, next>>
menuVars  == <<groups, items, configs, next, req, whole>>

None == 0

\* No user is the number that stands for nobody, and none is a role.
ASSUME UsersAssumption == None \notin Users /\ Users \cap Roles = {} /\ OldTuples \subseteq Grants

\* The tables the container finds have the identities 1, 2, ... and refer to
\* rows that are there (the foreign keys), an item from one configuration at
\* most (the unique index).
ASSUME TablesAssumption ==
    /\ Groups0 \in Seq([parent : 0..Len(Groups0), visible : BOOLEAN])
    /\ Items0 \in Seq([name : DOMAIN ObjectOf, group : 0..Len(Groups0), visible : BOOLEAN])
    /\ Configs0 \in Seq([item : 1..Len(Items0), value : Nat \ {None}])
    /\ \A c, d \in DOMAIN Configs0 : Configs0[c].item = Configs0[d].item => c = d

Idle == [at |-> "idle"]
Request(at, call) == [at |-> at, call |-> call, row |-> None, config |-> {}]

MenuInit ==
    /\ groups = Groups0 /\ items = Items0 /\ configs = Configs0
    /\ next = [group |-> Cardinality(DOMAIN Groups0) + 1, item |-> Cardinality(DOMAIN Items0) + 1,
               config |-> Cardinality(DOMAIN Configs0) + 1]
    /\ req = [s \in Slots |-> Idle] /\ whole = <<>>

Put(table, id, row) == [i \in DOMAIN table \cup {id} |-> IF i = id THEN row ELSE table[i]]
Drop(table, ids)    == [i \in DOMAIN table \ ids |-> table[i]]
ConfigsOf(i)        == {c \in DOMAIN configs : configs[c].item = i}

\* OpenFGA, asked about the store the container was given.
Serving   == box.at = "serving"
Reachable == openfga = "up" /\ migrated /\ HasModel
Tuples    == IF box.store = NoStore THEN {} ELSE stores[box.store].tuples

\* The model of model.json: u views the item o as one of its viewers or as an
\* assignee of one of its viewer_roles.
MayView(T, u, o) == <<u, o>> \in T \/ \E r \in Roles : <<r, o>> \in T /\ <<u, r>> \in T
IsAdmin(u)       == <<u, Admin>> \in Tuples

\* The answer ends the request: 2xx, 404 or 403, or 500 for any exception.
Answer(s) == req' = [req EXCEPT ![s] = Idle]
Goto(s, at) == req' = [req EXCEPT ![s].at = at]
Keep == UNCHANGED tableVars
Stay == UNCHANGED startVars

-----------------------------------------------------------------------------
(* The start of a request. *)

\* The role of the token, or OpenFGA.
MayEdit(u) == u \in RoleAdmins \/ (Reachable /\ IsAdmin(u))

\* A request that passes; nothing comes of one that does not.
Begin(s, u, call, at) ==
    /\ Serving /\ req[s] = Idle /\ Spare /\ Event
    /\ MayEdit(u)
    /\ req' = [req EXCEPT ![s] = Request(at, call)]
    /\ Keep /\ UNCHANGED <<migrated, stores, box, openfga, misreads, whole>>

\* The functions.  A type that does not parse is refused by CreateMenuItem
\* before anything is saved, by UpdateMenuItem once the item is loaded.
CreateMenuItem(s, u, call)  == call.op = "createItem" /\ call.typed /\ Begin(s, u, call, "saving")
UpdateMenuItem(s, u, call)  == call.op = "updateItem" /\ Begin(s, u, call, "loading")
DeleteMenuItem(s, u, call)  == call.op = "deleteItem" /\ Begin(s, u, call, "loading")
CreateMenuGroup(s, u, call) == call.op = "createGroup" /\ Begin(s, u, call, "saving")
UpdateMenuGroup(s, u, call) == call.op = "updateGroup" /\ Begin(s, u, call, "loading")
DeleteMenuGroup(s, u, call) == call.op = "deleteGroup" /\ Begin(s, u, call, "loading")

-----------------------------------------------------------------------------
(* Menu items. *)

GroupExists(g) == g = None \/ g \in DOMAIN groups

\* The first SaveChangesAsync of CreateMenuItem: the item.
SaveItem(s) ==
    LET call == req[s].call
        id == next.item
    IN /\ req[s].at = "saving" /\ call.op = "createItem"
       /\ IF GroupExists(call.group) /\ id <= MaxRows
          THEN /\ items' = Put(items, id, [name |-> call.name, group |-> call.group, visible |-> call.visible])
               /\ next' = [next EXCEPT !.item = id + 1]
               /\ IF call.config = None THEN Answer(s)
                  ELSE req' = [req EXCEPT ![s].at = "configuring", ![s].row = id]
               /\ UNCHANGED <<groups, configs>>
          ELSE Answer(s) /\ Keep
       /\ Stay /\ UNCHANGED whole

\* A configuration may be inserted for an item that is there and has none.
MayConfigure(i) == i \in DOMAIN items /\ ConfigsOf(i) = {} /\ next.config <= MaxRows

Inserted(i, value) ==
    /\ configs' = Put(configs, next.config, [item |-> i, value |-> value])
    /\ next' = [next EXCEPT !.config = @ + 1]

\* Mutant: the item is acknowledged although its configuration was not saved.
SaveConfigAnyway(s) ==
    LET i == req[s].row
    IN /\ req[s].at = "configuring"
       /\ whole' = Put(whole, i, req[s].call.config)
       /\ IF MayConfigure(i) THEN Inserted(i, req[s].call.config) /\ UNCHANGED <<groups, items>> ELSE Keep
       /\ Answer(s) /\ Stay

\* The second: its configuration.  Someone may have deleted the item or have
\* given it a configuration, or the save fails: then the answer is 500 and the
\* item stays.
SaveConfig(s) ==
    LET i == req[s].row
    IN /\ req[s].at = "configuring"
       /\ \/ /\ MayConfigure(i)
             /\ Inserted(i, req[s].call.config)
             /\ whole' = Put(whole, i, req[s].call.config)
             /\ UNCHANGED <<groups, items>>
          \/ Keep /\ UNCHANGED whole
       /\ Answer(s) /\ Stay

\* UpdateMenuItem loads the item with its configuration, ...
LoadItem(s) ==
    LET call == req[s].call
    IN /\ req[s].at = "loading" /\ call.op \in {"updateItem", "deleteItem"}
       /\ IF call.id \notin DOMAIN items \/ (call.op = "updateItem" /\ ~call.typed) THEN Answer(s)
          ELSE req' = [req EXCEPT ![s].at = IF call.op = "updateItem" /\ call.group # None
                                            THEN "looking" ELSE "saving",
                                  ![s].row = items[call.id],
                                  ![s].config = {[id |-> c, value |-> configs[c].value] : c \in ConfigsOf(call.id)}]
       /\ Keep /\ Stay /\ UNCHANGED whole

\* ... looks for the group, ...
LookForGroup(s) ==
    /\ req[s].at = "looking"
    /\ IF GroupExists(req[s].call.group) THEN Goto(s, "saving") ELSE Answer(s)
    /\ Keep /\ Stay /\ UNCHANGED whole

\* ... and saves the columns that differ from what it loaded.  Rows that have
\* gone, a group that has gone and a second configuration make the save, and
\* all of it, fail.
Changed(old, wanted, now) ==
    [f \in DOMAIN old |-> IF wanted[f] = old[f] THEN now[f] ELSE wanted[f]]

SaveItemUpdate(s) ==
    LET call == req[s].call
        i == call.id
        old == req[s].row
        had == req[s].config
        wanted == [name |-> call.name, group |-> IF call.group = None THEN old.group ELSE call.group,
                   visible |-> call.visible]
        rowOk == wanted = old \/ (i \in DOMAIN items /\ (wanted.group # old.group => GroupExists(wanted.group)))
        touched == {h.id : h \in {x \in had : x.value # call.config}}
        configOk == /\ had = {} /\ call.config # None => MayConfigure(i)
                    /\ touched \subseteq DOMAIN configs
    IN /\ req[s].at = "saving" /\ call.op = "updateItem"
       /\ \/ /\ rowOk /\ configOk
             /\ items' = IF wanted = old THEN items ELSE Put(items, i, Changed(old, wanted, items[i]))
             /\ IF had = {} /\ call.config # None THEN Inserted(i, call.config)
                ELSE /\ configs' = IF call.config = None THEN Drop(configs, touched)
                                   ELSE [c \in DOMAIN configs |-> IF c \in touched
                                            THEN [configs[c] EXCEPT !.value = call.config] ELSE configs[c]]
                     /\ UNCHANGED next
             /\ whole' = Drop(whole, {i})
             /\ UNCHANGED groups
          \/ Keep /\ UNCHANGED whole
       /\ Answer(s) /\ Stay

\* DeleteMenuItem: the configuration goes with the item.
RemoveItem(s) ==
    LET i == req[s].call.id
    IN /\ req[s].at = "saving" /\ req[s].call.op = "deleteItem"
       /\ \/ items' = Drop(items, {i}) /\ configs' = Drop(configs, ConfigsOf(i)) /\ UNCHANGED <<groups, next>>
          \/ Keep
       /\ Answer(s) /\ Stay /\ UNCHANGED whole

-----------------------------------------------------------------------------
(* Menu groups. *)

SaveGroup(s) ==
    LET call == req[s].call
    IN /\ req[s].at = "saving" /\ call.op = "createGroup"
       /\ IF GroupExists(call.parent) /\ next.group <= MaxRows
          THEN /\ groups' = Put(groups, next.group, [parent |-> call.parent, visible |-> call.visible])
               /\ next' = [next EXCEPT !.group = @ + 1]
               /\ UNCHANGED <<items, configs>>
          ELSE Keep
       /\ Answer(s) /\ Stay /\ UNCHANGED whole

LoadGroup(s) ==
    LET call == req[s].call
    IN /\ req[s].at = "loading" /\ call.op \in {"updateGroup", "deleteGroup"}
       /\ IF call.id \notin DOMAIN groups THEN Answer(s)
          ELSE req' = [req EXCEPT ![s].at = "saving", ![s].row = groups[call.id]]
       /\ Keep /\ Stay /\ UNCHANGED whole

SaveGroupUpdate(s) ==
    LET call == req[s].call
        old == req[s].row
        wanted == [parent |-> call.parent, visible |-> call.visible]
    IN /\ req[s].at = "saving" /\ call.op = "updateGroup"
       /\ IF /\ wanted # old /\ call.id \in DOMAIN groups
             /\ wanted.parent # old.parent => GroupExists(wanted.parent)
          THEN groups' = Put(groups, call.id, Changed(old, wanted, groups[call.id]))
               /\ UNCHANGED <<items, configs, next>>
          ELSE Keep
       /\ Answer(s) /\ Stay /\ UNCHANGED whole

Used(g) == (\E i \in DOMAIN items : items[i].group = g)
           \/ (\E h \in DOMAIN groups \ {g} : groups[h].parent = g)

\* DeleteMenuGroup: restricted by items and by groups that refer to it.
RemoveGroup(s) ==
    LET g == req[s].call.id
    IN /\ req[s].at = "saving" /\ req[s].call.op = "deleteGroup"
       /\ IF g \in DOMAIN groups /\ ~Used(g)
          THEN groups' = Drop(groups, {g}) /\ UNCHANGED <<items, configs, next>>
          ELSE Keep
       /\ Answer(s) /\ Stay /\ UNCHANGED whole

-----------------------------------------------------------------------------
(* Permissions. *)

Written(t) == stores' = [stores EXCEPT ![box.store].tuples = @ \cup {t}]
Deleted(t) == stores' = [stores EXCEPT ![box.store].tuples = @ \ {t}]

\* AddUserPermission: any user who is signed in may assign a permission to a
\* user; OpenFGA refuses a tuple it has.
AddUserPermission(t) ==
    /\ Serving /\ Reachable /\ Spare /\ Event
    /\ t[1] \in Users /\ t \notin Tuples /\ Written(t)
    /\ Keep /\ UNCHANGED <<migrated, box, openfga, misreads, req, whole>>

\* Roles are assigned to items, and permissions are taken away, with OpenFGA's
\* own API.
WriteTuple(t) ==
    /\ Serving /\ Reachable /\ Spare /\ Event
    /\ \/ t \notin Tuples /\ Written(t)
       \/ t \in Tuples /\ Deleted(t)
    /\ Keep /\ UNCHANGED <<migrated, box, openfga, misreads, req, whole>>

-----------------------------------------------------------------------------

Edit(s, u, call) == \/ CreateMenuItem(s, u, call) \/ UpdateMenuItem(s, u, call) \/ DeleteMenuItem(s, u, call)
                    \/ CreateMenuGroup(s, u, call) \/ UpdateMenuGroup(s, u, call) \/ DeleteMenuGroup(s, u, call)

Serve(s) == \/ SaveItem(s) \/ SaveConfig(s) \/ LoadItem(s) \/ LookForGroup(s)
            \/ SaveItemUpdate(s) \/ RemoveItem(s) \/ SaveGroup(s) \/ LoadGroup(s)
            \/ SaveGroupUpdate(s) \/ RemoveGroup(s)

\* The requests of a container that stops go with it.
Interrupt == IF Serving /\ box'.at = "stopped" THEN req' = [s \in Slots |-> Idle] ELSE UNCHANGED req

\* The tables refer to nothing that is gone, and an item has one
\* configuration at most: what the requests looked at before they saved may
\* have changed since, in every order of two requests that create, move,
\* configure and delete.  And an item whose creation with a configuration was
\* acknowledged has that configuration until it is updated: the half that a
\* failed second save leaves behind is only ever left by a request that was
\* not acknowledged.
TablesAreWhole ==
    /\ \A i \in DOMAIN items : GroupExists(items[i].group) /\ Cardinality(ConfigsOf(i)) <= 1
    /\ \A g \in DOMAIN groups : GroupExists(groups[g].parent)
    /\ \A c \in DOMAIN configs : configs[c].item \in DOMAIN items
    /\ \A i \in DOMAIN whole \cap DOMAIN items : \E c \in ConfigsOf(i) : configs[c].value = whole[i]
=============================================================================
