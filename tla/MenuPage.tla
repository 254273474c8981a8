------------------------------- MODULE MenuPage -------------------------------
(***************************************************************************)
(* The page of the portal and the request for its menu: GetMenuStructure   *)
(* on the server, contexts/MenuContext.tsx with the sign-in of useSwaAuth  *)
(* in the browser, and the browser's cache between them, which keeps an    *)
(* answer for five minutes because of its Cache-Control header.  The page  *)
(* composes the other two modules: its request reads the tables that the   *)
(* edits of MenuService change and asks the OpenFGA that the container of  *)
(* ContainerStart runs, and dies with it.                                  *)
(***************************************************************************)
EXTENDS MenuService

VARIABLES
    page,     \* the MenuProvider: [user, loading, loaded, error, owner, cached]
    fetch,    \* its request
    cache,    \* the user whose menu the browser keeps, or None
    seen      \* the rows and tuples there were during the request (history)

pageVars == <<page, fetch, cache, seen>>
vars == <<startVars, menuVars, pageVars>>

NoPage  == [user |-> None, loading |-> FALSE, loaded |-> FALSE, error |-> FALSE,
            owner |-> None, cached |-> FALSE]
NoFetch == [at |-> "none"]
Fetch(at, user, rows, pending) ==
    [at |-> at, user |-> user, rows |-> rows, pending |-> pending, found |-> {}]
Answered(user, ok, menu, cached) ==
    [at |-> "answered", user |-> user, ok |-> ok, menu |-> menu, cached |-> cached]

-----------------------------------------------------------------------------
(* The request on the server. *)

\* The visible items of the visible groups.
Rows == {<<i, items[i].name>> : i \in {j \in DOMAIN items :
            items[j].visible /\ items[j].group # None /\ groups[items[j].group].visible}}

InServer == fetch.at \in {"reading", "admin", "checking"}
Fails    == fetch' = Answered(fetch.user, FALSE, {}, FALSE)

ReadGroups ==
    /\ fetch.at = "reading"
    /\ \/ fetch' = Fetch("admin", fetch.user, Rows, {})
       \/ Fails
    /\ UNCHANGED <<page, cache>>

Names == {r[2] : r \in fetch.rows}

\* The reads of the Checks of some names: the viewer, the viewer_roles of the
\* item, and whether the user is an assignee of each role.
ReadsOf(u, names) ==
    UNION {{<<n, {<<u, ObjectOf[n]>>}>>, <<n, Roles \X {ObjectOf[n]}>>}
              \cup {<<n, {<<u, r>>}>> : r \in Roles} : n \in names}

\* Admins get all of it; for the others the names are checked.
AskAdmin ==
    /\ fetch.at = "admin"
    /\ LET u == fetch.user
       IN IF ~Reachable THEN Fails
          ELSE fetch' = IF IsAdmin(u) \/ Names = {} THEN Answered(u, TRUE, fetch.rows, FALSE)
                        ELSE Fetch("checking", u, fetch.rows, ReadsOf(u, Names))
    /\ UNCHANGED <<page, cache>>

Menu(allowed) == {r \in fetch.rows : r[2] \in allowed}

\* The names whose Checks are true by the tuples they have found so far.
AllowedBy(found) ==
    {n \in Names : MayView({t \in Grants : <<n, t>> \in found}, fetch.user, ObjectOf[n])}

\* One read of the Check of a name, which ends with the first way it finds.
ReadFor(read, tuples) ==
    LET found == fetch.found \cup {<<read[1], t>> : t \in read[2] \cap tuples}
        pending == {p \in fetch.pending \ {read} : p[1] \notin AllowedBy(found)}
    IN fetch' = IF pending = {} THEN Answered(fetch.user, TRUE, Menu(AllowedBy(found)), FALSE)
                ELSE [fetch EXCEPT !.pending = pending, !.found = found]

\* Mutant: a check that fails counts as a refusal.
CheckNameClosed(read) ==
    /\ fetch.at = "checking" /\ read \in fetch.pending
    /\ ReadFor(read, IF Reachable THEN Tuples ELSE {})
    /\ UNCHANGED <<page, cache>>

\* The names are checked in parallel, and so are the ways of one Check, each
\* read at a moment of its own; one check that fails fails the request.
CheckName(read) ==
    /\ fetch.at = "checking" /\ read \in fetch.pending
    /\ IF Reachable THEN ReadFor(read, Tuples) ELSE Fails
    /\ UNCHANGED <<page, cache>>

CheckNames == fetch.at = "checking" /\ \E read \in fetch.pending : CheckName(read)

GetMenuStructure == ReadGroups \/ AskAdmin \/ CheckNames

-----------------------------------------------------------------------------
(* The page. *)

\* reloadMenu of user u; without a container the request fails at once.
ReloadMenu(u) ==
    /\ page' = [page EXCEPT !.user = u, !.loading = TRUE, !.error = FALSE]
    /\ fetch' = CASE cache # None -> Answered(cache, TRUE, {}, TRUE)
                  [] cache = None /\ Serving -> Fetch("reading", u, {}, {})
                  [] OTHER -> Answered(u, FALSE, {}, FALSE)
    /\ UNCHANGED cache

\* What keeps the effect from loading the menu.
LoadedOnce == page.loaded \/ page.error \/ page.loading

\* The answer of /.auth/me when the page is opened, and the effect.
SignIn(u) ==
    /\ page.user = None
    /\ IF LoadedOnce THEN page' = [page EXCEPT !.user = u] /\ UNCHANGED <<fetch, cache>>
                     ELSE ReloadMenu(u)

\* An edit made on this page was acknowledged.
ReloadAfterEdit == page.loaded /\ page.user # None /\ ~page.loading /\ ReloadMenu(page.user)

\* Mutant: setLoading(false) and the reset of fetchInProgressRef are part of
\* the try block instead of the finally block.
ReceiveMenuNotFinally ==
    /\ fetch.at = "answered"
    /\ page' = IF fetch.ok THEN [page EXCEPT !.loading = FALSE, !.loaded = TRUE, !.owner = fetch.user,
                                             !.cached = fetch.cached]
               ELSE [page EXCEPT !.loaded = TRUE, !.error = TRUE]
    /\ cache' = IF fetch.ok THEN fetch.user ELSE cache
    /\ fetch' = NoFetch

\* The menu or the error message; in both cases the load is over.
ReceiveMenu ==
    /\ fetch.at = "answered"
    /\ page' = [page EXCEPT !.loading = FALSE, !.loaded = TRUE, !.error = ~fetch.ok,
                            !.owner = IF fetch.ok THEN fetch.user ELSE @,
                            !.cached = IF fetch.ok THEN fetch.cached ELSE @]
    /\ cache' = IF fetch.ok THEN fetch.user ELSE cache
    /\ fetch' = NoFetch

CacheExpires ==
    /\ cache # None /\ cache' = None
    /\ UNCHANGED <<page, fetch>>

\* Mutant: signing out keeps the page, with the menu and hasLoadedRef.
SignOutInPlace ==
    /\ page.user # None
    /\ page' = [page EXCEPT !.user = None]
    /\ UNCHANGED <<fetch, cache>>

\* The browser leaves the page, and with it its request.
SignOut ==
    /\ page.user # None
    /\ page' = NoPage /\ fetch' = NoFetch
    /\ UNCHANGED cache

-----------------------------------------------------------------------------

Now == [rows |-> Rows, tuples |-> Tuples]

\* The history of the request that the server is working on.
Watch ==
    seen' = IF fetch'.at \notin {"reading", "admin", "checking"}
            THEN IF fetch'.at = "answered" /\ InServer THEN seen ELSE <<>>
            ELSE LET now == Now'
                 IN IF ~InServer THEN [some |-> now, all |-> now]
                    ELSE [some |-> [rows |-> seen.some.rows \cup now.rows,
                                    tuples |-> seen.some.tuples \cup now.tuples],
                          all |-> [rows |-> seen.all.rows \cap now.rows,
                                   tuples |-> seen.all.tuples \cap now.tuples]]

\* What the container does to the requests: they are cut off when it stops.
FetchInterrupted == IF InServer /\ box'.at = "stopped" THEN Fails ELSE UNCHANGED fetch

ContainerFrame == Interrupt /\ FetchInterrupted /\ UNCHANGED <<tableVars, whole, page, cache>> /\ Watch
MenuFrame      == UNCHANGED <<page, fetch, cache>> /\ Watch
PageFrame      == UNCHANGED <<startVars, menuVars>> /\ Watch

ContainerStep == (Step \/ OpenFGAComesUp \/ OpenFGADies \/ ContainerStops) /\ ContainerFrame

MenuStep ==
    /\ \/ \E s \in Slots : Serve(s) \/ \E u \in Users, call \in Calls : Edit(s, u, call)
       \/ \E t \in Grants : AddUserPermission(t) \/ WriteTuple(t)
    /\ MenuFrame

PageStep ==
    /\ \/ GetMenuStructure \/ ReloadAfterEdit \/ ReceiveMenu \/ CacheExpires \/ SignOut
       \/ \E u \in Users : SignIn(u)
    /\ PageFrame

Init == StartInit /\ MenuInit /\ page = NoPage /\ fetch = NoFetch /\ cache = None /\ seen = <<>>

Next == ContainerStep \/ MenuStep \/ PageStep

\* The script goes on, the host answers the request for the menu and the
\* browser takes the answer; nobody has to sign in, edit or die, and an edit
\* need not come to its end.
Fairness ==
    /\ WF_vars((Step \/ OpenFGAComesUp) /\ ContainerFrame)
    /\ WF_vars((GetMenuStructure \/ ReceiveMenu) /\ PageFrame)

Spec == Init /\ [][Next]_vars /\ Fairness

-----------------------------------------------------------------------------

PortalTypeOK ==
    /\ StartTypeOK
    /\ \A s \in Slots : req[s].at \in {"idle", "saving", "configuring", "loading", "looking"}
    /\ page.user \in Users \cup {None} /\ page.owner \in Users \cup {None} /\ cache \in Users \cup {None}
    /\ fetch.at \in {"none", "reading", "admin", "checking", "answered"}
    /\ page.loading <=> fetch.at # "none"

Shown(T, u, r) == MayView(T, u, ObjectOf[r[2]]) \/ <<u, Admin>> \in T

\* A menu that the server answers has only rows that were visible at some
\* moment of the request and that the user may view, or is an admin, by tuples
\* each of which was there at some moment of it; and it has all rows that were
\* visible all the time and that the user may view, or is an admin, by tuples
\* that were there all the time.  The rows, the role, the viewer, the
\* viewer_roles and their assignees are read at moments of their own, between
\* other users' edits, grants and revocations, and OpenFGA may die in between.
\* More is not to be had: an item that is shown by one tuple first and by
\* another later, and so at every moment, is denied by a Check that reads the
\* later one too early and the earlier one too late.
MenuIsBetween ==
    (seen # <<>> /\ fetch.at = "answered" /\ fetch.ok) =>
        /\ \A r \in fetch.menu : r \in seen.some.rows /\ Shown(seen.some.tuples, fetch.user, r)
        /\ \A r \in seen.all.rows : Shown(seen.all.tuples, fetch.user, r) => r \in fetch.menu

\* The menu on the page was computed for the user of the page, unless the
\* browser had it in its cache, whoever signs out and in and whatever was in
\* flight: hasLoadedRef is never reset and an answer is not asked whose it
\* is, so it depends on the page being left.
OwnMenuUnlessCached ==
    page.user # None => page.owner \in {None, page.user} \/ page.cached

\* Whoever signs in and stays gets a menu or an error message: no failure
\* of OpenFGA, of the container or of the database leaves the page loading.
PageSettles == (page.user # None) ~> (page.user = None \/ (page.loaded /\ ~page.loading))
=============================================================================
