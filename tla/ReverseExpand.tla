----------------------------- MODULE ReverseExpand -----------------------------
(***************************************************************************)
(* ListObjects: the objects of a type that a user has a relation with.     *)
(* internal/graph/graph.go finds the edges of the model to follow from the *)
(* user, pkg/server/commands/reverseexpand follows them, with the weighted *)
(* graph when the server enables it, and pkg/server/commands/list_objects  *)
(* checks the candidates that passed an intersection or an exclusion.      *)
(***************************************************************************)
EXTENDS CheckGraph

\* An edge towards t#r, and whether what it leads to must be checked again.
RelEdge(kind, t, r, ts, again) == [kind |-> kind, t |-> t, r |-> r, ts |-> ts, again |-> again]

InvolvesEither(m, t, r) == RelationInvolvesIntersection(m, t, r) \/ RelationInvolvesExclusion(m, t, r)

\* Edges found so far, and the relations visited, which all branches share.
Found(edges, visited) == [edges |-> edges, visited |-> visited]

\* getRelationshipEdges and getRelationshipEdgesWithTargetRewrite with the
\* option resolveAnyEdge: the edges at the source src of the paths to t#r.
RECURSIVE getRelationshipEdges(_, _, _, _, _)
RECURSIVE EdgesOfRewrite(_, _, _, _, _, _)
getRelationshipEdges(m, t, r, src, visited) ==
    IF <<t, r>> \in visited THEN Found({}, visited)
    ELSE EdgesOfRewrite(m, t, r, Rewrite(m, t, r), src, visited \cup {<<t, r>>})

EdgesOfRewrite(m, t, r, rw, src, visited) ==
    LET collect(acc, targets) ==
            FoldLeft(LAMBDA a, x : LET sub == getRelationshipEdges(m, x[1], x[2], src, a.visited)
                                   IN Found(a.edges \cup sub.edges, sub.visited), acc, targets)
        pairs(refs, q(_)) == [i \in DOMAIN refs |-> <<refs[i].type, q(refs[i])>>]
        guarded(found) == Found({[x EXCEPT !.again = TRUE] : x \in found.edges}, found.visited)
    IN CASE rw.op = "this" ->
               LET usersets == SelectSeq(m.rels[t][r].types, LAMBDA ref : ref.rel # "")
                   here == IsDirectlyRelated(m, t, r, src) \/ IsPubliclyAssignable(m, t, r, src.type)
               IN collect(Found(IF here THEN {RelEdge("direct", t, r, "", FALSE)} ELSE {}, visited),
                          pairs(usersets, LAMBDA ref : ref.rel))
         [] rw.op = "computed" ->
               LET here == t = src.type /\ rw.rel = src.rel
               IN collect(Found(IF here THEN {RelEdge("computed", t, r, "", FALSE)} ELSE {}, visited),
                          <<<<t, rw.rel>>>>)
         [] rw.op = "ttu" ->
               LET parents == SelectSeq(m.rels[t][rw.ts].types, LAMBDA ref : HasRelation(m, ref.type, rw.rel))
                   here == rw.rel = src.rel /\ \E i \in DOMAIN parents : parents[i].type = src.type
                   edge == RelEdge("ttu", t, r, rw.ts, InvolvesEither(m, src.type, rw.rel))
               IN collect(Found(IF here THEN {edge} ELSE {}, visited),
                          pairs(parents, LAMBDA ref : rw.rel))
         [] rw.op = "union" ->
               FoldLeft(LAMBDA a, kid : LET sub == EdgesOfRewrite(m, t, r, kid, src, a.visited)
                                        IN Found(a.edges \cup sub.edges, sub.visited),
                        Found({}, visited), rw.kids)
         [] OTHER -> guarded(EdgesOfRewrite(m, t, r, rw.kids[1], src, visited))

GetPrunedRelationshipEdges(m, t, r, src) == getRelationshipEdges(m, t, r, src, {}).edges

\* They do not depend on a request; e.edges has those of its model.
Sources(m) == {Ref(t, "", wild, "") : t \in UserTypes(m), wild \in BOOLEAN}
              \cup {Ref(x[1], x[2], FALSE, "") : x \in Relations(m)}

PrunedEdges(m) ==
    [x \in Relations(m) \X Sources(m) |-> GetPrunedRelationshipEdges(m, x[1][1], x[1][2], x[2])]

EdgesTo(e, t, r, u) == e.edges[<<<<t, r>>, Ref(u.type, u.rel, IsWildcard(u), "")>>]

-----------------------------------------------------------------------------
(* Reverse expansion without the weighted graph. *)

\* The rows readTuplesAndExecute finds along an edge, conditions evaluated:
\* a missing parameter is an error that does not stop the others.
RowsAlong(e, edge, u) ==
    LET users == IF edge.kind = "ttu" THEN {User(u.type, u.id, "")}
                 ELSE (IF IsWildcard(u) THEN {} ELSE {u})
                      \cup (IF ~IsUserset(u) /\ IsPubliclyAssignable(M(e), edge.t, edge.r, u.type)
                            THEN {User(u.type, Wild, "")} ELSE {})
        rel  == IF edge.kind = "ttu" THEN edge.ts ELSE edge.r
        rows == {tk \in SelectWithUsers(All(e), edge.t, rel, users) : IsValid(e, tk)}
    IN [objs |-> {tk.obj : tk \in {x \in rows : CondResult(e, x) = "met"}},
        err |-> \E tk \in rows : CondResult(e, tk) = "missing"]

\* One visit: the user or userset u, reached through edge, and whether an
\* intersection or an exclusion was passed on the way.
Visit(u, edge, again) == [u |-> u, edge |-> edge, again |-> again]
NoEdge == RelEdge("none", "", "", "", FALSE)

\* execute: what one visit leads to.
Steps(e, t, r, v) ==
    UNION {LET again == v.again \/ edge.again
               to(o) == Visit(User(o.type, o.id, edge.r), [edge EXCEPT !.again = FALSE], again)
           IN IF edge.kind = "computed" THEN {to(v.u)}
              ELSE {to(o) : o \in RowsAlong(e, edge, v.u).objs} : edge \in EdgesTo(e, t, r, v.u)}

StepFails(e, t, r, v) ==
    \E edge \in EdgesTo(e, t, r, v.u) : edge.kind # "computed" /\ RowsAlong(e, edge, v.u).err

\* visitedUsersetsMap lets a userset through an edge once, whichever of the
\* two ways reaches it first: all visits that some schedule makes, level by
\* level, and whether one of them reaches the depth limit.
RECURSIVE Visits(_, _, _, _, _, _)
Visits(e, t, r, all, level, depth) ==
    LET next == UNION {Steps(e, t, r, v) : v \in level} \ all
    IN IF next = {} THEN [all |-> all, deep |-> FALSE]
       ELSE IF depth >= MaxDepth THEN [all |-> all, deep |-> TRUE]
       ELSE Visits(e, t, r, all \cup next, next, depth + 1)

\* The candidates, each with the ways it may be sent, and the errors.
ReverseExpand(e, t, r) ==
    LET start == {Visit(e.user, NoEdge, FALSE)}
        seen  == Visits(e, t, r, start, start, 0)
        hits  == {v \in seen.all : v.u.type = t /\ v.u.rel = r}
    IN [sure  |-> {Obj(v.u.type, v.u.id) : v \in {x \in hits : ~x.again}},
        again |-> {Obj(v.u.type, v.u.id) : v \in {x \in hits : x.again}},
        err   |-> seen.deep \/ \E v \in seen.all : StepFails(e, t, r, v)]

-----------------------------------------------------------------------------
(* Reverse expansion with the weighted graph. *)

\* An entry of the relation stack: the relation to query and, for a userset,
\* the relation of the users to look for.  The top of the stack is first.
Entry(t, r, us) == [t |-> t, r |-> r, us |-> us]

GetConnectedEdges(g, n, ut) ==
    IF NodeW(g, n, ut) = 0 THEN <<>>
    ELSE SelectSeq(g.edges[n], LAMBDA x : EdgeW(g, x, ut) # 0)

\* The edges an edge of node n stands for, and the node they start at.
GetInternalEdges(g, n, edge, ut) ==
    IF edge.k = "logical" THEN [from |-> edge.to, es |-> GetConnectedEdges(g, edge.to, ut)]
    ELSE [from |-> n, es |-> <<edge>>]

\* GetEdgesForIntersection: the first of the edges of the lowest weight.
LowestEdge(g, es, ut) ==
    LET w == [i \in DOMAIN es |-> EdgeW(g, es[i], ut)]
    IN CHOOSE i \in DOMAIN es : \A j \in DOMAIN es : w[i] < w[j] \/ (w[i] = w[j] /\ i <= j)

\* ConstructUserset: the rewrite to check a candidate against.
RECURSIVE ConstructUserset(_, _, _)
ConstructUserset(g, edge, ut) ==
    LET n == edge.to
        es == g.edges[n]
        kids == [i \in DOMAIN es |-> ConstructUserset(g, es[i], ut)]
    IN CASE n.k \in {"type", "wildcard"} -> This
         [] n.k = "group" -> IF n.rw.op = "this" THEN This ELSE kids[1]
         [] n.k = "rel" -> (CASE edge.k = "direct" -> This
                              [] edge.k = "ttu" -> Ttu(n.r, edge.ts)
                              [] OTHER -> Computed(n.r))
         [] n.rw.op = "difference" -> IF EdgeW(g, es[2], ut) = 0 THEN kids[1] ELSE ButNot(kids[1], kids[2])
         [] n.rw.op = "intersection" -> And(kids)
         [] OTHER -> Or(kids)

\* The rows of the top of the stack for these users, the invalid ones left out.
buildFilteredIterator(e, entry, us) == Filtered(e, SelectWithUsers(All(e), entry.t, entry.r, us))

\* An object that was found, as a user of the next entry.
buildUserFilter(o, entry) == {User(o.type, o.id, entry.us)}

\* executeQueryJob and the jobs it leads to: from the users in us up the
\* stack to the objects of its last entry.
RECURSIVE queryForTuples(_, _, _)
queryForTuples(e, stack, us) ==
    LET rows == buildFilteredIterator(e, stack[1], us)
        up   == {queryForTuples(e, Tail(stack), buildUserFilter(tk.obj, stack[2])) : tk \in rows.items}
    IN IF Len(stack) = 1 THEN [objs |-> {tk.obj : tk \in rows.items}, err |-> rows.err]
       ELSE [objs |-> UNION {x.objs : x \in up}, err |-> rows.err \/ \E x \in up : x.err]

\* What a traversal has sent on its channel, the usersets visited so far,
\* which every traversal of the request shares, and whether something failed.
Sent(objs, seen, err) == [objs |-> objs, seen |-> seen, err |-> err]
Join(a, b) == Sent(a.objs \cup b.objs, b.seen, a.err \/ b.err)

\* The stack an edge from node n leads to.
StackAlong(n, edge, stack) ==
    LET top == Entry(edge.to.t, edge.to.r, "")
    IN IF edge.to.k # "rel" THEN stack
       ELSE CASE edge.k = "direct" -> <<top, [stack[1] EXCEPT !.us = edge.to.r]>> \o Tail(stack)
              [] edge.k = "ttu" -> <<top, Entry(stack[1].t, edge.ts, "")>> \o Tail(stack)
              [] OTHER -> <<top>> \o Tail(stack)

RECURSIVE loopOverEdges(_, _, _, _, _, _)
RECURSIVE OnEdge(_, _, _, _, _, _)

loopOverEdges(e, n, es, stack, seen, depth) ==
    FoldLeft(LAMBDA acc, x : Join(acc, OnEdge(e, n, x, stack, acc.seen, depth)), Sent({}, seen, FALSE), es)

\* execute of a dispatched request.
DispatchTo(e, n, stack, seen, depth) ==
    IF depth >= MaxDepth THEN Sent({}, seen, TRUE)
    ELSE loopOverEdges(e, n, GetConnectedEdges(e.sys.graph, n, e.user.type), stack, seen, depth + 1)

\* callCheckForCandidates: the candidates of sent that CheckRewrite of rw
\* answers as wanted, and what they lead to up the rest of the stack.
Passing(e, sent, says, wanted, rest) ==
    LET kept == {o \in sent.objs : IF wanted THEN "allow" \in says[o] ELSE says[o] \cap Falsy # {}}
        up == {queryForTuples(e, rest, buildUserFilter(o, rest[1])) : o \in kept}
        fails == sent.err \/ \E o \in sent.objs : "error" \in says[o]
    IN IF rest = <<>> THEN Sent(kept, sent.seen, fails)
       ELSE Sent(UNION {x.objs : x \in up}, sent.seen, fails \/ \E x \in up : x.err)

CheckCandidates(e, n, sent, rw, wanted, rest) ==
    Passing(e, sent, [o \in sent.objs |-> CheckRewrite(e, o, n.r, rw, 0, {})], wanted, rest)

\* findCandidatesForLowestWeightEdge: the candidates of one operand, with a
\* stack of the top entry only.
FindCandidates(e, n, edge, stack, seen, depth) ==
    LET inner == GetInternalEdges(e.sys.graph, n, edge, e.user.type)
    IN loopOverEdges(e, inner.from, inner.es, <<stack[1]>>, seen, depth)

intersectionHandler(e, n, stack, seen, depth) ==
    LET g   == e.sys.graph
        es  == g.edges[n]
        low == LowestEdge(g, es, e.user.type)
        others == RemoveAt([i \in DOMAIN es |-> ConstructUserset(g, es[i], e.user.type)], low)
        rw  == IF Len(others) = 1 THEN others[1] ELSE And(others)
    IN CheckCandidates(e, n, FindCandidates(e, n, es[low], stack, seen, depth), rw, TRUE, Tail(stack))

exclusionHandler(e, n, stack, seen, depth) ==
    LET g == e.sys.graph
        es == g.edges[n]
        base == GetInternalEdges(g, n, es[1], e.user.type)
    IN IF EdgeW(g, es[2], e.user.type) = 0
       THEN loopOverEdges(e, base.from, base.es, stack, seen, depth)
       ELSE CheckCandidates(e, n, FindCandidates(e, n, es[1], stack, seen, depth),
                            ConstructUserset(g, es[2], e.user.type), FALSE, Tail(stack))

OnEdge(e, n, edge, stack, seen, depth) ==
    LET to  == edge.to
        key == <<n, to, edge.ts, stack>>
        now == IF to.k = "rel" THEN seen \cup {key} ELSE seen
        leaf == IF to.k = "wildcard" THEN {User(to.t, Wild, "")}
                ELSE IF IsWildcard(e.user) THEN {} ELSE {e.user}
        read == queryForTuples(e, stack, leaf)
    IN IF to.k = "rel" /\ key \in seen THEN Sent({}, seen, FALSE)
       ELSE CASE to.k \in {"type", "wildcard"} -> Sent(read.objs, seen, read.err)
              [] to.k = "op" /\ to.rw.op = "intersection" -> intersectionHandler(e, to, stack, seen, depth)
              [] to.k = "op" /\ to.rw.op = "difference" -> exclusionHandler(e, to, stack, seen, depth)
              [] OTHER -> DispatchTo(e, to, StackAlong(n, edge, stack), now, depth)

UsesWeightedGraph(e, t, r) ==
    ~IsUserset(e.user) /\ e.sys.graph.built /\ NodeW(e.sys.graph, RelNode(t, r), e.user.type) # Infinite

-----------------------------------------------------------------------------
\* Mutant: candidates that passed an operator are listed without a check.
ListObjectsUnchecked(e, t, r) ==
    LET c == ReverseExpand(e, t, r)
    IN [sure |-> c.sure \cup c.again, may |-> c.sure \cup c.again, err |-> c.err]

\* ListObjects without a limit: the objects it certainly lists, those it may
\* list, and whether it fails instead.
ListObjects(e, t, r) ==
    LET c == ReverseExpand(e, t, r)
        says(o) == Check(e, o, r)
    IN [sure |-> {o \in c.sure \cup c.again : IF o \in c.again THEN says(o) = {"allow"} ELSE TRUE},
        may  |-> c.sure \cup {o \in c.again : "allow" \in says(o)},
        err  |-> c.err \/ \E o \in c.again : "error" \in says(o)]

\* The same with the experimental optimizations, where they apply.
ListObjectsOptimized(e, t, r) ==
    LET n == RelNode(t, r)
        sent == loopOverEdges(e, n, GetConnectedEdges(e.sys.graph, n, e.user.type), <<Entry(t, r, "")>>, {}, 0)
    IN IF UsesWeightedGraph(e, t, r) THEN [sure |-> sent.objs, may |-> sent.objs, err |-> sent.err]
       ELSE ListObjects(e, t, r)
=============================================================================
