------------------------------ MODULE CheckGraph ------------------------------
(***************************************************************************)
(* Check of internal/graph: how LocalChecker answers whether a user has a  *)
(* relation with an object, with the default, the recursive and the        *)
(* weight-two resolvers, over the tuples of the store and the contextual   *)
(* tuples of the request.                                                  *)
(*                                                                         *)
(* Branches run concurrently and the planner may pick any resolver that    *)
(* applies, so an operator of this module returns the SET of the outcomes  *)
(* a call may have: "allow", "deny", "cycle" (denied, CycleDetected set)   *)
(* and "error".  How the reducers race is the subject of CheckReducers.    *)
(*                                                                         *)
(* A request e has its type system sys, the tuples stored ts, the          *)
(* contextual ones extra, what its context ctx makes of a condition        *)
(* ("met", "unmet" or "missing" a parameter) and the user.                 *)
(***************************************************************************)
EXTENDS ModelGraph

CONSTANTS Tuples,     \* the tuples that clients write or send along
          MaxDepth,   \* resolveNodeLimit
          DbOrder     \* the identifiers in the order the store sorts them

M(e) == e.sys.model

HasPath(e, t, r) == PathExists(M(e), e.user, e.sys.paths[<<t, r>>])

IsValid(e, tk) == tk \in e.sys.valid

RecursiveBy(g, kind) ==
    {x \in Relations(g.model) \X UserTypes(g.model) :
        UseRecursiveResolver(g, x[1][1], x[1][2], x[2], kind)}

Weight2Usersets(g) ==
    {x \in Relations(g.model) \X UserTypes(g.model) \X Relations(g.model) :
        UsersetUseWeight2Resolver(g, x[1][1], x[1][2], x[2], Ref(x[3][1], x[3][2], FALSE, ""))}

Weight2TTUs(g) ==
    UNION {{<<tr, ut, rw>> : rw \in {x \in flattenUserset(Rewrite(g.model, tr[1], tr[2])) :
                                        TTUUseWeight2Resolver(g, tr[1], tr[2], ut, x)}} :
           tr \in Relations(g.model), ut \in UserTypes(g.model)}

\* What a type system knows of its model, whatever is asked: the weighted
\* graph, the relations each relation leads to, the tuples that can be read,
\* and which resolvers apply.
TypeSystemWith(m, g) ==
    [model |-> m, graph |-> g,
     paths |-> [tr \in Relations(m) |-> Closure(m, {tr})],
     valid |-> {tk \in Tuples : ValidateTupleForRead(m, tk)},
     recursive |-> [kind \in {"direct", "ttu"} |-> RecursiveBy(g, kind)],
     weight2 |-> Weight2Usersets(g), weight2TTU |-> Weight2TTUs(g)]

TypeSystemOf(m) == TypeSystemWith(m, WeightedGraph(m))

-----------------------------------------------------------------------------
(* Reads: the contextual tuples and the store behind one reader. *)

All(e) == e.ts \cup e.extra

\* EvaluateTupleCondition with the context of the request.
CondResult(e, tk) ==
    IF tk.cond = "" THEN "met" ELSE e.ctx

\* FilterInvalidTuples and NewConditionsFilteredTupleKeyIterator: an error of
\* a condition counts as unmet, and is returned only if nothing is yielded.
Filtered(e, raw) ==
    LET valid == {tk \in raw : IsValid(e, tk)}
        met   == {tk \in valid : CondResult(e, tk) = "met"}
    IN [items |-> met, err |-> met = {} /\ \E tk \in valid : CondResult(e, tk) = "missing"]

ReadUsersetTuples(e, o, r, refs) ==
    Filtered(e, SelectUsersets(e.extra, o, r, refs) \cup SelectUsersets(e.ts, o, r, refs))

ReadTupleset(e, o, r) == Filtered(e, Select(e.extra, o, r) \cup Select(e.ts, o, r))

\* ReadUserTuple: a contextual tuple hides the stored one.
ReadUserTuple(e, o, r) ==
    LET extra == SelectUser(e.extra, o, r, e.user)
    IN IF extra # {} THEN extra ELSE SelectUser(e.ts, o, r, e.user)

\* userFilter: the user, and everyone of its type where that can be assigned.
userFilter(e, t, r) ==
    {e.user} \cup IF IsPubliclyAssignable(M(e), t, r, e.user.type)
                  THEN {User(e.user.type, Wild, "")} ELSE {}

StartingWithUser(e, ts, t, r) == SelectWithUsers(ts, t, r, userFilter(e, t, r))

\* The rows come sorted by object identifier: as the store sorts them, or as
\* strings compare for the contextual tuples.  Rows of one object come in any
\* order; the wildcard's first is the order of the primary key.
Rank(order, id) == CHOOSE i \in DOMAIN order : order[i] = id
RowBefore(order, a, b) ==
    \/ Rank(order, a.obj.id) < Rank(order, b.obj.id)
    \/ a.obj.id = b.obj.id /\ a.user.id < b.user.id
RECURSIVE RowsSorted(_, _)
RowsSorted(ts, order) ==
    LET first == CHOOSE a \in ts : \A b \in ts \ {a} : RowBefore(order, a, b)
    IN IF ts = {} THEN <<>> ELSE <<first>> \o RowsSorted(ts \ {first}, order)

ByteOrder == [i \in DOMAIN DbOrder |-> i]

\* OrderedCombinedIterator: one step of head for one of its iterators.  The
\* rows of the object yielded last are skipped, and the first row after them
\* is taken off the iterator as well.
HeadOf(rows, last) ==
    IF rows = <<>> \/ last = 0 THEN [rows |-> rows, head |-> IF rows = <<>> THEN 0 ELSE rows[1].obj.id,
                                     bad |-> FALSE]
    ELSE IF rows[1].obj.id < last THEN [rows |-> rows, head |-> 0, bad |-> TRUE]
    ELSE IF rows[1].obj.id # last THEN [rows |-> rows, head |-> rows[1].obj.id, bad |-> FALSE]
    ELSE LET k == CHOOSE k \in 1..Len(rows) + 1 :
                    /\ k = Len(rows) + 1 \/ rows[k].obj.id # last
                    /\ \A j \in 1..k - 1 : rows[j].obj.id = last
         IN IF k > Len(rows) THEN [rows |-> <<>>, head |-> 0, bad |-> FALSE]
            ELSE [rows |-> SubSeq(rows, k + 1, Len(rows)), head |-> rows[k].obj.id, bad |-> FALSE]

\* All rows it yields, in order, and whether it fails on an iterator that is
\* not in ascending order.
RECURSIVE OrderedCombined(_, _, _)
RECURSIVE Combine(_, _)
Combine(ha, hb) ==
    LET first == ha.head # 0 /\ (hb.head = 0 \/ ha.head <= hb.head)
        rows == IF first THEN ha.rows ELSE hb.rows
        rest == IF first THEN OrderedCombined(Tail(rows), hb.rows, rows[1].obj.id)
                ELSE OrderedCombined(ha.rows, Tail(rows), rows[1].obj.id)
    IN IF ha.bad \/ hb.bad THEN [rows |-> <<>>, bad |-> TRUE]
       ELSE IF ha.head = 0 /\ hb.head = 0 THEN [rows |-> <<>>, bad |-> FALSE]
       ELSE IF rows = <<>> THEN [rows |-> <<>>, bad |-> FALSE]
       ELSE [rows |-> <<rows[1]>> \o rest.rows, bad |-> rest.bad]

OrderedCombined(a, b, last) == Combine(HeadOf(a, last), HeadOf(b, last))

CombinedRows(e, t, r) ==
    OrderedCombined(RowsSorted(StartingWithUser(e, e.extra, t, r), ByteOrder),
                    RowsSorted(StartingWithUser(e, e.ts, t, r), DbOrder), 0)

\* IteratorReadStartingFromUser, sorted: the identifiers of the rows in ok.
Identifiers(all, ok) ==
    LET kept == SelectSeq(all.rows, LAMBDA tk : tk \in ok.items)
    IN [ids |-> [i \in DOMAIN kept |-> kept[i].obj.id], err |-> ok.err \/ all.bad]

FilteredIdentifiers(e, all) == Identifiers(all, Filtered(e, ToSet(all.rows)))

ReadStartingFromUser(e, t, r) == FilteredIdentifiers(e, CombinedRows(e, t, r))
-----------------------------------------------------------------------------
(* The reducers, on what each handler may return. *)

Falsy == {"deny", "cycle"}

Severity(x) == CASE x = "deny" -> 0 [] x = "cycle" -> 1 [] x = "error" -> 2 [] x = "allow" -> 3

\* union, and consumeDispatches over the dispatched sub-problems: allowed if
\* one is, else an error if there is one, else a cycle if there is one.
Union(answers) ==
    IF answers = {} THEN {"deny"}
    ELSE {x \in UNION answers : \A S \in answers : \E y \in S : Severity(y) <= Severity(x)}

\* intersection: a falsy operand wins over an error, and the first falsy one
\* to arrive is returned.
Intersection(answers) ==
    {x \in UNION answers :
        CASE x \in Falsy -> TRUE
          [] x = "error" -> \A S \in answers : S \ Falsy # {}
          [] x = "allow" -> \A S \in answers : "allow" \in S}

\* exclusion: whichever operand settles the matter first does.
Minus(base, sub) ==
    LET settled == ({base} \cap Falsy)
                   \cup (CASE sub = "allow" -> {"deny"} [] sub = "cycle" -> {"cycle"} [] OTHER -> {})
    IN IF settled # {} THEN settled
       ELSE IF "error" \in {base, sub} THEN {"error"} ELSE {"allow"}

Exclusion(base, sub) == UNION {Minus(p[1], p[2]) : p \in base \X sub}

-----------------------------------------------------------------------------
(* The weight-two resolver: merges of sorted streams of identifiers. *)

\* A stream is [ids, err]: err is "iter" when its iterator fails, "msg" when
\* its producer sends an error instead of a batch, "" otherwise.
Stream(ids, err) == [ids |-> ids, err |-> err]
StreamOf(read)   == Stream(read.ids, IF read.err THEN "iter" ELSE "")

\* fastPathUnion: the smallest head, taken off every stream that shows it.
RECURSIVE MergeUnion(_)
MergeUnion(seqs) ==
    LET live == {i \in DOMAIN seqs : seqs[i] # <<>>}
        least == CHOOSE v \in {seqs[i][1] : i \in live} : \A i \in live : v <= seqs[i][1]
        rest == [i \in DOMAIN seqs |-> IF i \in live /\ seqs[i][1] = least THEN Tail(seqs[i]) ELSE seqs[i]]
    IN IF live = {} THEN <<>> ELSE <<least>> \o MergeUnion(rest)

\* fastPathIntersection: a head all streams show, or all skip to the largest.
RECURSIVE SkipTo(_, _)
SkipTo(s, v) == IF s = <<>> THEN s ELSE IF s[1] < v THEN SkipTo(Tail(s), v) ELSE s

RECURSIVE MergeIntersection(_)
MergeIntersection(seqs) ==
    LET heads == {seqs[i][1] : i \in DOMAIN seqs}
        most  == CHOOSE v \in heads : \A w \in heads : w <= v
    IN IF \E i \in DOMAIN seqs : seqs[i] = <<>> THEN <<>>
       ELSE IF heads = {most} THEN <<most>> \o MergeIntersection([i \in DOMAIN seqs |-> Tail(seqs[i])])
       ELSE MergeIntersection([i \in DOMAIN seqs |-> SkipTo(seqs[i], most)])

\* fastPathDifference: the base, without the heads both streams show.
RECURSIVE MergeDifference(_, _)
MergeDifference(base, sub) ==
    IF base = <<>> \/ sub = <<>> THEN base
    ELSE CASE base[1] = sub[1] -> MergeDifference(Tail(base), Tail(sub))
           [] sub[1] > base[1] -> <<base[1]>> \o MergeDifference(Tail(base), sub)
           [] OTHER -> MergeDifference(base, SkipTo(sub, base[1]))

\* A set operator fails when a source sends an error, for it fetches from every
\* source before it looks at one, and when the iterator of one fails at its
\* head: it looks at the heads in order until it finds an exhausted stream.
MergeFails(op, streams) ==
    \E i \in DOMAIN streams :
        \/ streams[i].err = "msg"
        \/ /\ streams[i].err = "iter"
           /\ op # "union" => \A j \in 1..i - 1 : streams[j].ids # <<>>

RECURSIVE fastPathRewrite(_, _, _, _)
fastPathRewrite(e, t, r, rw) ==
    CASE rw.op = "this" -> StreamOf(ReadStartingFromUser(e, t, r))
      [] rw.op = "computed" -> fastPathRewrite(e, t, rw.rel, Rewrite(M(e), t, rw.rel))
      [] rw.op = "ttu" -> Stream(<<>>, "")
      [] OTHER ->
            LET streams == [i \in DOMAIN rw.kids |-> fastPathRewrite(e, t, r, rw.kids[i])]
                seqs == [i \in DOMAIN streams |-> streams[i].ids]
            IN IF MergeFails(rw.op, streams) THEN Stream(<<>>, "msg")
               ELSE Stream(CASE rw.op = "union" -> MergeUnion(seqs)
                             [] rw.op = "intersection" -> MergeIntersection(seqs)
                             [] rw.op = "difference" -> MergeDifference(seqs[1], seqs[2]), "")

\* produceLeftChannels: the objects of each of the relations rels that the
\* user is related to, types without the relation left out.
LeftChannels(e, rels) ==
    {[type |-> x[1], stream |-> fastPathRewrite(e, x[1], x[2], Rewrite(M(e), x[1], x[2]))] :
        x \in {x \in rels : HasRelation(M(e), x[1], x[2])}}

LeftObjects(chans) == UNION {{Obj(c.type, id) : id \in ToSet(c.stream.ids)} : c \in chans}

UserObjects(rows) == {Obj(tk.user.type, tk.user.id) : tk \in rows.items}

\* weight2: the objects on the right against those on the left.
weight2(right, chans) ==
    LET match == UserObjects(right) \cap LeftObjects(chans) # {}
        fails == \E c \in chans : c.stream.err # ""
        sent  == \E c \in chans : c.stream.err = "msg"
    IN IF chans = {} THEN {"deny"}
       ELSE IF right.err THEN {"error"}
       ELSE IF right.items = {} THEN {"deny"}
       ELSE IF match THEN {"allow"} \cup (IF sent THEN {"error"} ELSE {})
       ELSE IF fails THEN {"error"} ELSE {"deny"}

-----------------------------------------------------------------------------
(* The recursive resolver. *)

\* buildRecursiveMapper: what the object o leads to, through its usersets of
\* relation r or, for a tuple-to-userset, through its tupleset ts.
RecursiveRead(e, o, r, ts) ==
    IF ts = "" THEN ReadUsersetTuples(e, o, r, DirectlyRelatedUsersets(M(e), o.type, r))
    ELSE ReadTupleset(e, o, ts)

\* breadthFirstRecursiveMatch: level by level from the objects of level, each
\* visited once.  An error of one object does not stop the others.
RECURSIVE breadthFirstRecursiveMatch(_, _, _, _, _, _, _, _)
breadthFirstRecursiveMatch(e, r, ts, level, visited, left, depth, failed) ==
    LET reads == {RecursiveRead(e, o, r, ts) : o \in level \ visited}
        found == UNION {UserObjects(rows) : rows \in reads}
    IN IF depth + 1 = MaxDepth THEN {"error"}
       ELSE IF level = {} THEN IF failed THEN {"error"} ELSE {"deny"}
       ELSE IF found \cap left # {} THEN {"allow"}
       ELSE breadthFirstRecursiveMatch(e, r, ts, found, visited \cup level, left, depth + 1,
                                       failed \/ \E rows \in reads : rows.err)

\* Mutant: only the first level is looked at.
recursiveFastPathOnce(e, o, r, ts, chans, depth) ==
    LET right == RecursiveRead(e, o, r, ts)
    IN IF right.err THEN {"error"}
       ELSE IF UserObjects(right) \cap LeftObjects(chans) # {} THEN {"allow"} ELSE {"deny"}

\* recursiveFastPath, from the object o.
recursiveFastPath(e, o, r, ts, chans, depth) ==
    LET right == RecursiveRead(e, o, r, ts)
        first == UserObjects(right)
        left  == LeftObjects(chans)
        fails == \E c \in chans : c.stream.err # ""
    IN IF right.err THEN {"error"}
       ELSE IF first = {} THEN {"deny"}
       ELSE IF first \cap left # {} THEN {"allow"} \cup (IF fails THEN {"error"} ELSE {})
       ELSE IF fails THEN {"error"}
       ELSE IF left = {} THEN {"deny"}
       ELSE breadthFirstRecursiveMatch(e, r, ts, first, {}, left, depth, FALSE)

-----------------------------------------------------------------------------
(* The default resolver and the rewrites. *)

RECURSIVE ResolveCheck(_, _, _, _, _)
RECURSIVE CheckRewrite(_, _, _, _, _, _)

\* defaultUserset and defaultTTU dispatch one sub-problem per tuple.
Dispatch(e, right, pairs, depth, visited) ==
    Union({ResolveCheck(e, p[1], p[2], depth + 1, visited) : p \in pairs}
          \cup (IF right.err THEN {{"error"}} ELSE {}))

defaultUserset(e, right, depth, visited) ==
    Dispatch(e, right, {<<Obj(tk.user.type, tk.user.id), tk.user.rel>> :
                            tk \in {x \in right.items : IsUserset(x.user)}}, depth, visited)

defaultTTU(e, right, rw, depth, visited) ==
    Dispatch(e, right, {<<Obj(tk.user.type, tk.user.id), rw.rel>> :
                            tk \in {x \in right.items : HasRelation(M(e), x.user.type, rw.rel)}},
             depth, visited)

checkDirectUserTuple(e, o, r) ==
    LET found == {tk \in ReadUserTuple(e, o, r) : IsValid(e, tk)}
        says == {CondResult(e, tk) : tk \in found}
    IN IF "met" \in says THEN {"allow"} ELSE IF "missing" \in says THEN {"error"} ELSE {"deny"}

checkPublicAssignable(e, o, r) ==
    LET rows == ReadUsersetTuples(e, o, r, {Ref(e.user.type, "", TRUE, "")})
    IN IF rows.items # {} THEN {"allow"} ELSE IF rows.err THEN {"error"} ELSE {"deny"}

\* checkDirectUsersetTuples: the planner may choose among the resolvers.
checkDirectUsersetTuples(e, o, r, depth, visited) ==
    LET refs == DirectlyRelatedUsersets(M(e), o.type, r)
        right(some) == ReadUsersetTuples(e, o, r, some)
        light == {ref \in refs :
                    <<<<o.type, r>>, e.user.type, <<ref.type, ref.rel>>>> \in e.sys.weight2}
    IN IF IsUserset(e.user) THEN defaultUserset(e, right(refs), depth, visited)
       ELSE IF <<<<o.type, r>>, e.user.type>> \in e.sys.recursive["direct"]
       THEN defaultUserset(e, right(refs), depth, visited)
            \cup recursiveFastPath(e, o, r, "", LeftChannels(e, {<<o.type, r>>}), depth)
       ELSE Union({weight2(right({ref}), LeftChannels(e, {<<ref.type, ref.rel>>}))
                      \cup defaultUserset(e, right({ref}), depth, visited) : ref \in light}
                  \cup (IF light = refs THEN {}
                        ELSE {defaultUserset(e, right(refs \ light), depth, visited)}))

shouldCheckDirectTuple(e, o, r) == IsDirectlyRelated(M(e), o.type, r, Ref(e.user.type, e.user.rel, FALSE, ""))
shouldCheckPublicAssignable(e, o, r) ==
    ~IsUserset(e.user) /\ IsPubliclyAssignable(M(e), o.type, r, e.user.type)

checkDirect(e, o, r, depth, visited) ==
    Union( (IF shouldCheckDirectTuple(e, o, r) THEN {checkDirectUserTuple(e, o, r)} ELSE {})
      \cup (IF shouldCheckPublicAssignable(e, o, r) THEN {checkPublicAssignable(e, o, r)} ELSE {})
      \cup (IF DirectlyRelatedUsersets(M(e), o.type, r) # {}
            THEN {checkDirectUsersetTuples(e, o, r, depth, visited)} ELSE {}))

\* Neither a dispatch nor a level of depth.
checkComputedUserset(e, o, rw, depth, visited) == ResolveCheck(e, o, rw.rel, depth, visited)

checkTTU(e, o, r, rw, depth, visited) ==
    LET right == ReadTupleset(e, o, rw.ts)
        parents == {<<ref.type, rw.rel>> : ref \in DirectlyRelatedUserTypes(M(e), o.type, rw.ts)}
        plain == defaultTTU(e, right, rw, depth, visited)
    IN IF IsUserset(e.user) THEN plain
       ELSE IF <<<<o.type, r>>, e.user.type, rw>> \in e.sys.weight2TTU
       THEN plain \cup weight2(right, LeftChannels(e, parents))
       ELSE IF <<<<o.type, r>>, e.user.type>> \in e.sys.recursive["ttu"]
       THEN plain \cup recursiveFastPath(e, o, r, rw.ts, LeftChannels(e, parents), depth)
       ELSE plain

CheckRewrite(e, o, r, rw, depth, visited) ==
    LET kid(i) == CheckRewrite(e, o, r, rw.kids[i], depth, visited)
    IN CASE rw.op = "this" -> checkDirect(e, o, r, depth, visited)
         [] rw.op = "computed" -> checkComputedUserset(e, o, rw, depth, visited)
         [] rw.op = "ttu" -> checkTTU(e, o, r, rw, depth, visited)
         [] rw.op = "union" -> Union({kid(i) : i \in DOMAIN rw.kids})
         [] rw.op = "intersection" -> Intersection({kid(i) : i \in DOMAIN rw.kids})
         [] rw.op = "difference" -> Exclusion(kid(1), kid(2))

\* ResolveCheck: the visited paths travel with the request, a clone of it
\* with each branch.
ResolveCheck(e, o, r, depth, visited) ==
    IF depth = MaxDepth THEN {"error"}
    ELSE IF <<o, r>> \in visited THEN {"cycle"}
    ELSE IF e.user = User(o.type, o.id, r) THEN {"allow"}
    ELSE IF ~HasRelation(M(e), o.type, r) THEN {"error"}
    ELSE IF ~HasPath(e, o.type, r) THEN {"deny"}
    ELSE CheckRewrite(e, o, r, Rewrite(M(e), o.type, r), depth, visited \cup {<<o, r>>})

Check(e, o, r) == ResolveCheck(e, o, r, 0, {})
=============================================================================
