----------------------------- MODULE AuthzQueries -----------------------------
(***************************************************************************)
(* A store whose authorization model is replaced and whose tuples are      *)
(* written and deleted, and the answers the engine gives in every state it *)
(* reaches.  Tuples written under an earlier model stay in the store.      *)
(***************************************************************************)
EXTENDS ListUsers, ReadKeys, BatchChecks

CONSTANTS Models,     \* the authorization models, by name
          Users,      \* the users that are asked about
          Contexts,   \* what the context of a request makes of a condition
          Drafts,     \* models that are submitted to WriteAuthorizationModel
          Extras,     \* the contextual tuples a request may carry
          Successors, \* the versions of the model that may follow each
          MaxTuples   \* bound on the tuples stored

VARIABLE model        \* the name of the latest authorization model

vars == <<model, typesys, tuples>>

\* The objects that tuples are about, and their pairs with a relation of m.
Objects == {tk.obj : tk \in Tuples} \cup {Obj(tk.user.type, tk.user.id) : tk \in Tuples}
PairsOf(m) ==
    {p \in Objects \X {x[2] : x \in Relations(m)} : HasRelation(m, p[1].type, p[2])}

\* The tuples that mean something under a model: one of the restrictions of
\* the relation names the type and the form of the user and the condition.
Meaningful(m) ==
    {tk \in Tuples : \E ref \in DirectlyRelatedUserTypes(m, tk.obj.type, tk.rel) :
        ref = Ref(tk.user.type, tk.user.rel, IsWildcard(tk.user), tk.cond)}

\* What is worked out once per model, for the code and for its meaning.
Compiled ==
    [n \in DOMAIN Models |->
        [sys |-> TypeSystemOf(Models[n]), edges |-> PrunedEdges(Models[n]),
         pairs |-> PairsOf(Models[n]), facts |-> Meaningful(Models[n])]]

Init == /\ model \in {n \in DOMAIN Models : NewAndValidate(Models[n])}
        /\ typesys = Compiled[model] /\ tuples = {}

\* WriteAuthorizationModel: the model is validated and becomes the latest.
WriteModel(n) ==
    /\ n \in Successors[model] /\ NewAndValidate(Models[n])
    /\ model' = n /\ typesys' = Compiled[n]
    /\ UNCHANGED tuples

\* One write of a Write request, validated against the latest model.  The key
\* of a row is its object, relation and user.
WriteTuple(tk) ==
    /\ ValidateTupleForWrite(typesys.sys.model, tk)
    /\ \A x \in tuples : <<x.obj, x.rel, x.user>> # <<tk.obj, tk.rel, tk.user>>
    /\ Cardinality(tuples) < MaxTuples
    /\ tuples' = tuples \cup {tk}
    /\ UNCHANGED <<model, typesys>>

DeleteTuple(tk) == tk \in tuples /\ tuples' = tuples \ {tk} /\ UNCHANGED <<model, typesys>>

Next == \/ \E n \in DOMAIN Models : WriteModel(n)
        \/ \E tk \in Tuples : WriteTuple(tk) \/ DeleteTuple(tk)

Spec == Init /\ [][Next]_vars

TypeOK == model \in DOMAIN Models /\ typesys = Compiled[model] /\ tuples \subseteq Tuples

-----------------------------------------------------------------------------
(* The meaning of a model: which object#relation a user is related to. *)

\* The requests about a type system and a store. (Without a conditional tuple
\* all contexts are alike.)
RequestsAbout(t, ts) ==
    LET m == t.sys.model
    IN UNION {{[sys |-> t.sys, edges |-> t.edges, pairs |-> t.pairs,
                facts |-> t.facts, ts |-> ts, extra |-> x, ctx |-> c, user |-> u] :
                  c \in IF \E tk \in ts \cup x : tk.cond # "" THEN Contexts ELSE {"met"},
                  u \in {u \in Users : ValidateUser(m, u)}} :
              x \in {x \in Extras : \A tk \in x : ValidateTupleForWrite(m, tk)}}
Requests == RequestsAbout(typesys, tuples)

Facts(e) == {tk \in All(e) \cap e.facts : tk.cond = "" \/ e.ctx = "met"}
Pairs(e) == e.pairs

\* o#r holds by the rewrite rw when the pairs of yes are known to hold and,
\* below an odd number of exclusions, those of no are.
RECURSIVE Holds(_, _, _, _, _, _, _)
Holds(e, facts, o, r, rw, yes, no) ==
    LET rows(q) == {tk \in facts : tk.obj = o /\ tk.rel = q}
        kid(i) == Holds(e, facts, o, r, rw.kids[i], yes, no)
    IN CASE rw.op = "this" ->
               \E tk \in rows(r) :
                  \/ tk.user = e.user
                  \/ IsWildcard(tk.user) /\ ~IsUserset(e.user) /\ tk.user.type = e.user.type
                  \/ IsUserset(tk.user) /\ <<Obj(tk.user.type, tk.user.id), tk.user.rel>> \in yes
         [] rw.op = "computed" -> <<o, rw.rel>> \in yes
         [] rw.op = "ttu" -> \E tk \in rows(rw.ts) : <<Obj(tk.user.type, tk.user.id), rw.rel>> \in yes
         [] rw.op = "union" -> \E i \in DOMAIN rw.kids : kid(i)
         [] rw.op = "intersection" -> \A i \in DOMAIN rw.kids : kid(i)
         [] rw.op = "difference" -> kid(1) /\ ~Holds(e, facts, o, r, rw.kids[2], no, yes)

\* The least set closed under the rewrites, exclusions taken from no.
RECURSIVE Least(_, _, _, _)
Least(e, facts, yes, no) ==
    LET more == {p \in Pairs(e) :
                    \/ e.user = User(p[1].type, p[1].id, p[2])
                    \/ Holds(e, facts, p[1], p[2], Rewrite(M(e), p[1].type, p[2]), yes, no)}
    IN IF more = yes THEN yes ELSE Least(e, facts, more, no)

\* The well-founded meaning: what certainly holds, and what may.
RECURSIVE Meaning(_, _, _)
Meaning(e, facts, sure) ==
    LET may  == Least(e, facts, {}, sure)
        more == Least(e, facts, {}, may)
    IN IF more = sure THEN [sure |-> sure, may |-> may] ELSE Meaning(e, facts, more)

RelatedTo(e) == Meaning(e, Facts(e), {})

-----------------------------------------------------------------------------
\* Two rows of one object for the same user or its wildcard, which the sorted
\* reads of the fast paths do not keep apart.
Twins(e) ==
    \/ e.ts \cap e.extra # {}
    \/ \E a \in All(e), b \in All(e) :
        /\ a # b /\ a.obj = b.obj /\ a.rel = b.rel /\ a.user.type = b.user.type
        /\ a.user = b.user \/ IsWildcard(a.user)

\* Every answer of Check is the meaning of the model: allowed only what holds,
\* denied only what does not, whichever of the default, the recursive and the
\* weight-two resolver the planner picks, with the tuples of earlier models
\* still in the store and contextual tuples in the request.  A denial for a
\* cycle is only claimed to be exact without exclusions.
CheckIsExact ==
    \A e \in Requests : ~Twins(e) =>
        LET is == RelatedTo(e)
        IN \A p \in Pairs(e) :
             LET ans == Check(e, p[1], p[2])
             IN /\ "allow" \in ans => p \in is.sure
                /\ "deny" \in ans => p \notin is.sure
                /\ "cycle" \in ans =>
                     p \notin is.sure \/ RelationInvolvesExclusion(M(e), p[1].type, p[2])

\* What a list is compared with: the objects of type t in relation r.
ObjectsOf(is, t, r) == {p[1] : p \in {q \in is : q[1].type = t /\ q[2] = r}}

ListsExactly(e, list, is, t, r) ==
    ~list.err => /\ list.may \subseteq ObjectsOf(is.sure, t, r)
                 /\ \A o \in ObjectsOf(is.sure, t, r) \ list.sure : "cycle" \in Check(e, o, r)

\* ListObjects that returns without an error lists every object the user has
\* the relation with and no other, with and without the weighted graph: no
\* candidate that passed an intersection or an exclusion escapes its check,
\* whichever way reached it first.
ListObjectsIsExact ==
    \A e \in Requests : ~Twins(e) =>
        LET is == RelatedTo(e)
        IN \A x \in Relations(M(e)) :
             /\ ListsExactly(e, ListObjects(e, x[1], x[2]), is, x[1], x[2])
             /\ ListsExactly(e, ListObjectsOptimized(e, x[1], x[2]), is, x[1], x[2])

Listed(u, users) == u \in users \/ (~IsUserset(u) /\ User(u.type, Wild, "") \in users)

FilterOf(e) == [type |-> e.user.type, rel |-> e.user.rel]

\* The answers of one call differ about the user of e: a map was sent both that
\* the user has a relation and that it has not, and keeps what comes last.
Disputed(e, answers) ==
    \E a \in answers, b \in answers : Listed(e.user, a.users) # Listed(e.user, b.users)

\* ListUsers that returns without an error lists a user who has the relation,
\* alone or under the wildcard of its type, and does not name one who has not,
\* below unions, intersections and exclusions with wildcards on either side and
\* the rows of earlier models.  It says nothing of a user whose two messages
\* meet in one map, where the last one wins (list_users_rpc.go:243), nor that
\* a user who is not named is not covered by a wildcard that is: users excluded
\* from a wildcard are dropped from the response.
ListUsersIsExact ==
    \A e \in Requests :
        LET is == RelatedTo(e).sure
        IN \A p \in Pairs(e) :
             LET answers == ListUsers(e, p[1], p[2], FilterOf(e))
             IN ~Disputed(e, answers) => \A ans \in answers :
                  \/ ans.err
                  \/ IF p \in is THEN Listed(e.user, ans.users) \/ "cycle" \in Check(e, p[1], p[2])
                     ELSE e.user \notin ans.users

\* A tree of Expand read with what is known of the pairs it names.
RECURSIVE TreeHolds(_, _, _)
TreeHolds(e, tree, is) ==
    LET kid(i) == TreeHolds(e, tree.kids[i], is)
    IN CASE tree.op = "leaf" ->
               \/ Listed(e.user, tree.users)
               \/ \E u \in tree.users : IsUserset(u) /\ <<Obj(u.type, u.id), u.rel>> \in is
               \/ tree.pairs \cap is # {}
         [] tree.op = "union" -> \E i \in DOMAIN tree.kids : kid(i)
         [] tree.op = "intersection" -> \A i \in DOMAIN tree.kids : kid(i)
         [] tree.op = "difference" -> kid(1) /\ ~kid(2)

\* The tree of Expand, with its leaves replaced by what they stand for, has
\* the users the relation has: nothing stale or unreadable in it.
ExpandIsExact ==
    \A e \in {x \in Requests : x.ctx = "met"} :
        LET is == RelatedTo(e).sure
        IN \A p \in Pairs(e) :
             p \in is <=> \/ TreeHolds(e, Expand(e, p[1], p[2]), is)
                          \/ e.user = User(p[1].type, p[1].id, p[2])

\* "Iterators can yield the same value (as defined by mapper) multiple times,
\* but it will only be returned once" (NewOrderedCombinedIterator): every
\* object one of the two readers has comes out of the sorted read.
MergedReadsKeepObjects ==
    \A e \in Requests : \A x \in Relations(M(e)) :
        LET extra == StartingWithUser(e, e.extra, x[1], x[2])
            stored == StartingWithUser(e, e.ts, x[1], x[2])
            all == CombinedRows(e, x[1], x[2])
        IN ~all.bad => {tk.obj : tk \in ToSet(all.rows)} = {tk.obj : tk \in extra \cup stored}

-----------------------------------------------------------------------------
\* The relations that some user can have: the least set closed under what the
\* rewrites need.
RECURSIVE Enters(_, _, _, _, _)
Enters(m, t, r, rw, known) ==
    LET kid(i) == Enters(m, t, r, rw.kids[i], known)
    IN CASE rw.op = "this" -> \E ref \in DirectlyRelatedUserTypes(m, t, r) :
                                 ref.rel = "" \/ <<ref.type, ref.rel>> \in known
         [] rw.op = "computed" -> <<t, rw.rel>> \in known
         [] rw.op = "ttu" -> \E ref \in DirectlyRelatedUserTypes(m, t, rw.ts) : <<ref.type, rw.rel>> \in known
         [] rw.op = "union" -> \E i \in DOMAIN rw.kids : kid(i)
         [] OTHER -> \A i \in DOMAIN rw.kids : kid(i)

RECURSIVE Entered(_, _)
Entered(m, known) ==
    LET more == {x \in Relations(m) : Enters(m, x[1], x[2], Rewrite(m, x[1], x[2]), known)}
    IN IF more = known THEN known ELSE Entered(m, more)

\* A model that NewAndValidate accepts has no relation that nobody can ever
\* have, although hasEntrypoints walks it depth first with a map of visited
\* relations that branches share.
AcceptedModelsCanBeEntered ==
    tuples = {} => \A m \in Drafts : NewAndValidate(m) => Relations(m) \subseteq Entered(m, {})
=============================================================================
