------------------------------ MODULE ModelGraph ------------------------------
(***************************************************************************)
(* The graphs of an authorization model.  Both are built by the library    *)
(* openfga/language, which is not in this repository: paths, edges and     *)
(* weights are modelled from how pkg/typesystem uses them.  On top of them *)
(* the questions pkg/typesystem answers: can the user's type be reached at *)
(* all, and which resolver may answer a userset or a tuple-to-userset.     *)
(***************************************************************************)
EXTENDS TypeSystem

\* The relations named by one rewrite of t#r.
RewriteSucc(m, t, r, rw) ==
    UNION { CASE x.op = "this" -> {<<ref.type, ref.rel>> : ref \in DirectlyRelatedUsersets(m, t, r)}
              [] x.op = "computed" -> {<<t, x.rel>>}
              [] x.op = "ttu" ->
                    {p \in {<<ref.type, x.rel>> : ref \in DirectlyRelatedUserTypes(m, t, x.ts)} :
                        HasRelation(m, p[1], p[2])}
              [] OTHER -> {} : x \in SubRewrites(rw) }

Succ(m, n) == RewriteSucc(m, n[1], n[2], Rewrite(m, n[1], n[2]))

\* The relations reached from those in ns, ns included.
RECURSIVE Closure(_, _)
Closure(m, ns) ==
    LET more == ns \cup UNION {Succ(m, n) : n \in ns}
    IN IF more = ns THEN ns ELSE Closure(m, more)

\* There is a path from the user u to the relation that the relations below
\* are reached from.
PathExists(m, u, below) ==
    IF IsUserset(u) THEN <<u.type, u.rel>> \in below
    ELSE \E n \in below : \E ref \in DirectlyRelatedUserTypes(m, n[1], n[2]) :
            ref.type = u.type /\ ref.rel = ""

-----------------------------------------------------------------------------
(* The weighted graph: nodes, edges, weights. *)

Node(k, t, r, rw) == [k |-> k, t |-> t, r |-> r, rw |-> rw]
RelNode(t, r)     == Node("rel", t, r, This)
TypeNode(t, wild) == Node(IF wild THEN "wildcard" ELSE "type", t, "", This)
Edge(k, to, ts)   == [k |-> k, to |-> to, ts |-> ts]

\* The edges a direct assignment and a tuple-to-userset stand for.
LeafEdges(m, t, r, rw) ==
    LET refs == m.rels[t][IF rw.op = "this" THEN r ELSE rw.ts].types
        edge(ref) ==
            IF rw.op = "ttu" THEN Edge("ttu", RelNode(ref.type, rw.rel), rw.ts)
            ELSE Edge("direct", IF ref.rel = "" THEN TypeNode(ref.type, ref.wild)
                                ELSE RelNode(ref.type, ref.rel), "")
        kept == SelectSeq(refs, LAMBDA ref : rw.op = "ttu" => HasRelation(m, ref.type, rw.rel))
    IN [i \in DOMAIN kept |-> edge(kept[i])]

\* What an operand of an operator or the rewrite of a relation gives: under
\* an operator several leaf edges are grouped behind one logical edge.
RewriteEdges(m, t, r, rw, operand) ==
    CASE rw.op \in {"this", "ttu"} ->
            LET leaves == LeafEdges(m, t, r, rw)
            IN IF operand /\ Len(leaves) > 1
               THEN <<Edge("logical", Node("group", t, r, rw), "")>> ELSE leaves
      [] rw.op = "computed" ->
            <<Edge(IF operand THEN "rewrite" ELSE "computed", RelNode(t, rw.rel), "")>>
      [] OTHER -> <<Edge("rewrite", Node("op", t, r, rw), "")>>

Infinite == 99
UserTypes(m) == DOMAIN m.rels

\* The nodes of a model, those of a rewrite for every part of it, and the
\* edges from each.
Nodes(m) ==
    {TypeNode(t, wild) : t \in UserTypes(m), wild \in BOOLEAN}
    \cup {RelNode(x[1], x[2]) : x \in Relations(m)}
    \cup UNION {{Node(k, x[1], x[2], rw) : k \in {"op", "group"}, rw \in SubRewrites(Rewrite(m, x[1], x[2]))} :
                x \in Relations(m)}

EdgesOf(m) ==
    [n \in Nodes(m) |->
        CASE n.k = "rel" -> RewriteEdges(m, n.t, n.r, Rewrite(m, n.t, n.r), FALSE)
          [] n.k = "op" -> FlattenSeq([i \in DOMAIN n.rw.kids |-> RewriteEdges(m, n.t, n.r, n.rw.kids[i], TRUE)])
          [] n.k = "group" /\ n.rw.op \in {"this", "ttu"} -> LeafEdges(m, n.t, n.r, n.rw)
          [] OTHER -> <<>>]

\* The type ut can be reached from n along the edges: through every operand
\* of an intersection, through the base of an exclusion.
RECURSIVE Reaches(_, _, _, _)
Reaches(edges, n, ut, stack) ==
    LET on(i) == Reaches(edges, edges[n][i].to, ut, IF n.k = "rel" THEN stack \cup {n} ELSE stack)
    IN CASE n.k \in {"type", "wildcard"} -> n.t = ut
         [] n \in stack -> FALSE
         [] n.k = "op" /\ n.rw.op = "intersection" -> \A i \in DOMAIN edges[n] : on(i)
         [] n.k = "op" /\ n.rw.op = "difference" -> on(1)
         [] OTHER -> \E i \in DOMAIN edges[n] : on(i)

\* The weight of an edge whose target has the weight w.
Along(e, ut, w) ==
    IF e.to.k \in {"type", "wildcard"} THEN IF e.to.t = ut THEN 1 ELSE 0
    ELSE IF w \in {0, Infinite} \/ e.k \notin {"direct", "ttu"} THEN w ELSE w + 1

\* The number of tuples from n to the type ut, 0 when it is not reached.
RECURSIVE Weight(_, _, _, _)
Weight(edges, n, ut, stack) ==
    LET deeper == IF n.k = "rel" THEN stack \cup {n} ELSE stack
        ws == {Along(e, ut, Weight(edges, e.to, ut, deeper)) : e \in ToSet(edges[n])}
    IN IF ~Reaches(edges, n, ut, {}) THEN 0
       ELSE IF n.k \in {"type", "wildcard"} THEN 1
       ELSE IF n \in stack THEN Infinite
       ELSE CHOOSE w \in ws : \A x \in ws : x <= w

\* The graph is not built when a cycle runs through an intersection or an
\* exclusion; the type system then works without it.
HasWeightedGraph(m) ==
    \A n \in Relations(m) : \A x \in SubRewrites(Rewrite(m, n[1], n[2])) :
        x.op \in {"intersection", "difference"} =>
            n \notin Closure(m, RewriteSucc(m, n[1], n[2], x))

WeightsOf(edges, types) ==
    [x \in (DOMAIN edges) \X types |-> Weight(edges, x[1], x[2], {})]

\* What is kept of it with the type system.
WeightedGraph(m) ==
    LET edges == EdgesOf(m)
    IN [model |-> m, built |-> HasWeightedGraph(m),
        edges |-> edges, weights |-> WeightsOf(edges, UserTypes(m))]

NodeW(g, n, ut) == g.weights[<<n, ut>>]
EdgeW(g, e, ut) == Along(e, ut, g.weights[<<e.to, ut>>])

IsRecursive(m, t, r) == <<t, r>> \in Succ(m, <<t, r>>)

IsPartOfTupleCycle(m, t, r) ==
    \E x \in Succ(m, <<t, r>>) \ {<<t, r>>} : <<t, r>> \in Closure(m, {x})

-----------------------------------------------------------------------------
(* Which resolver may be used; g is the weighted graph. *)

UsersetUseWeight2Resolver(g, t, r, ut, ref) ==
    /\ g.built
    /\ ~IsPartOfTupleCycle(g.model, t, r) /\ ~IsRecursive(g.model, t, r)
    /\ NodeW(g, RelNode(ref.type, ref.rel), ut) = 1

\* The first level of edges, through set operators, that holds edges of the
\* tuple-to-userset rw; none of them may weigh more than 2.
RECURSIVE TTUEdgesAt(_, _, _, _)
TTUEdgesAt(g, es, rw, ut) ==
    LET ours  == SelectSeq(es, LAMBDA e : /\ e.k = "ttu" /\ e.ts = rw.ts /\ e.to.r = rw.rel
                                          /\ EdgeW(g, e, ut) # 0)
        inner == FlattenSeq([i \in DOMAIN es |->
                     IF es[i].k = "rewrite" THEN g.edges[es[i].to] ELSE <<>>])
    IN IF ours # <<>> \/ inner = <<>> THEN ToSet(ours) ELSE TTUEdgesAt(g, inner, rw, ut)

TTUUseWeight2Resolver(g, t, r, ut, rw) ==
    LET es == TTUEdgesAt(g, g.edges[RelNode(t, r)], rw, ut)
    IN /\ g.built
       /\ NodeW(g, RelNode(t, r), ut) # 0
       /\ es # {} /\ \A e \in es : EdgeW(g, e, ut) <= 2

\* The edges of t#r with the operators and groups of its own loop opened.
RECURSIVE LoopEdges(_, _, _)
LoopEdges(g, es, self) ==
    LET below(e) == LoopEdges(g, g.edges[e.to], self)
    IN FlattenSeq([i \in DOMAIN es |->
          IF es[i].to.k \in {"op", "group"} /\ \E x \in ToSet(below(es[i])) : x.to = self
          THEN below(es[i]) ELSE <<es[i]>>])

\* UsersetUseRecursiveResolver (kind "direct") and TTUUseRecursiveResolver
\* (kind "ttu"): one edge of this kind back to t#r, all others of weight 1.
UseRecursiveResolver(g, t, r, ut, kind) ==
    LET self == RelNode(t, r)
        es   == LoopEdges(g, g.edges[self], self)
        live == {i \in DOMAIN es : EdgeW(g, es[i], ut) # 0}
    IN /\ g.built
       /\ NodeW(g, self, ut) = Infinite
       /\ IsRecursive(g.model, t, r) /\ ~IsPartOfTupleCycle(g.model, t, r)
       /\ \E i \in live : /\ es[i].k = kind /\ es[i].to = self
                          /\ \A j \in live \ {i} : EdgeW(g, es[j], ut) <= 1
=============================================================================
