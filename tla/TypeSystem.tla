----------------------------- MODULE TypeSystem -----------------------------
(***************************************************************************)
(* Authorization models and what the engine derives from them:             *)
(* pkg/typesystem (look-ups, validation of a model, choice of a resolver)  *)
(* and internal/validation (validation of a tuple against a model).        *)
(*                                                                         *)
(* A model is [rels, conds]: rels[type][relation] is a record [rw, types]  *)
(* of its rewrite and its sequence of type restrictions, conds the names   *)
(* of its conditions.  Names are strings, and "" is no relation and no     *)
(* condition, as in the protocol buffers the code passes around.           *)
(***************************************************************************)
EXTENDS Naturals, Sequences, FiniteSets, SequencesExt, TupleReads

\* Rewrites as records.
Rw(op, rel, ts, kids) == [op |-> op, rel |-> rel, ts |-> ts, kids |-> kids]
This                  == Rw("this", "", "", <<>>)
Computed(rel)         == Rw("computed", rel, "", <<>>)
Ttu(rel, ts)          == Rw("ttu", rel, ts, <<>>)
Or(kids)              == Rw("union", "", "", kids)
And(kids)             == Rw("intersection", "", "", kids)
ButNot(base, sub)     == Rw("difference", "", "", <<base, sub>>)

-----------------------------------------------------------------------------
(* Look-ups. *)

HasType(m, t)        == t \in DOMAIN m.rels
HasRelation(m, t, r) == HasType(m, t) /\ r \in DOMAIN m.rels[t]
Rewrite(m, t, r)     == m.rels[t][r].rw
Relations(m)         == UNION {{<<t, r>> : r \in DOMAIN m.rels[t]} : t \in DOMAIN m.rels}

DirectlyRelatedUserTypes(m, t, r) ==
    IF HasRelation(m, t, r) THEN ToSet(m.rels[t][r].types) ELSE {}

DirectlyRelatedUsersets(m, t, r) ==
    {ref \in DirectlyRelatedUserTypes(m, t, r) : ref.rel # ""}

RelationEquals(a, b) == a.type = b.type /\ a.rel = b.rel /\ a.wild = b.wild

IsDirectlyRelated(m, t, r, source) ==
    \E ref \in DirectlyRelatedUserTypes(m, t, r) : RelationEquals(source, ref)

IsPubliclyAssignable(m, t, r, userType) ==
    \E ref \in DirectlyRelatedUserTypes(m, t, r) : ref.type = userType /\ ref.wild

\* WalkUsersetRewrite: the rewrite and everything below it.
RECURSIVE SubRewrites(_)
SubRewrites(rw) == {rw} \cup UNION {SubRewrites(rw.kids[i]) : i \in DOMAIN rw.kids}

RewriteContainsSelf(rw) == \E x \in SubRewrites(rw) : x.op = "this"

flattenUserset(rw) == {x \in SubRewrites(rw) : x.op = "ttu"}

IsTuplesetRelation(m, t, r) ==
    \E q \in DOMAIN m.rels[t] : \E x \in flattenUserset(Rewrite(m, t, q)) : x.ts = r

\* relationInvolves: an operator of the kind op is met in the rewrite of t#r,
\* in a relation that it names or in a userset that can be assigned to it.
\* The walk over one rewrite ends at the first operator it meets that is an
\* intersection or an exclusion, whichever of the two is looked for.
RECURSIVE relationInvolves(_, _, _, _, _)
RECURSIVE WalkInvolves(_, _, _, _, _)
WalkInvolves(m, t, rw, op, visited) ==
    CASE rw.op = "computed" ->
            IF relationInvolves(m, t, rw.rel, op, visited) THEN "yes" ELSE "go on"
      [] rw.op = "ttu" ->
            IF \E ref \in DirectlyRelatedUserTypes(m, t, rw.ts) :
                  /\ HasRelation(m, ref.type, rw.rel)
                  /\ relationInvolves(m, ref.type, rw.rel, op, visited)
            THEN "yes" ELSE "go on"
      [] rw.op \in {"intersection", "difference"} ->
            IF rw.op = op THEN "yes" ELSE "stop"
      [] rw.op = "union" ->
            LET ans == [i \in DOMAIN rw.kids |-> WalkInvolves(m, t, rw.kids[i], op, visited)]
                ends == {i \in DOMAIN ans : ans[i] # "go on"}
            IN IF ends = {} THEN "go on"
               ELSE ans[CHOOSE i \in ends : \A j \in ends : i <= j]
      [] OTHER -> "go on"

relationInvolves(m, t, r, op, visited) ==
    LET seen == visited \cup {<<t, r>>}
    IN /\ <<t, r>> \notin visited
       /\ HasRelation(m, t, r)
       /\ \/ WalkInvolves(m, t, Rewrite(m, t, r), op, seen) = "yes"
          \/ \E ref \in DirectlyRelatedUsersets(m, t, r) :
                relationInvolves(m, ref.type, ref.rel, op, seen)

RelationInvolvesIntersection(m, t, r) == relationInvolves(m, t, r, "intersection", {})
RelationInvolvesExclusion(m, t, r)    == relationInvolves(m, t, r, "difference", {})
-----------------------------------------------------------------------------
(* Validation of a model: NewAndValidate. *)

\* isUsersetRewriteValid
RECURSIVE isUsersetRewriteValid(_, _, _, _)
isUsersetRewriteValid(m, t, r, rw) ==
    CASE rw.op = "computed" -> rw.rel # r /\ HasRelation(m, t, rw.rel)
      [] rw.op = "ttu" ->
            /\ HasRelation(m, t, rw.ts)
            /\ Rewrite(m, t, rw.ts).op = "this"
            /\ \E ref \in DirectlyRelatedUserTypes(m, t, rw.ts) :
                  HasRelation(m, ref.type, rw.rel)
      [] OTHER -> \A i \in DOMAIN rw.kids : isUsersetRewriteValid(m, t, r, rw.kids[i])

validateTypeRestrictions(m, t, r) ==
    LET related == DirectlyRelatedUserTypes(m, t, r)
    IN /\ RewriteContainsSelf(Rewrite(m, t, r)) <=> related # {}
       /\ \A ref \in related :
            /\ HasType(m, ref.type)
            /\ ref.rel # "" \/ ref.wild => ~IsTuplesetRelation(m, t, r)
            /\ ref.rel # "" => HasRelation(m, ref.type, ref.rel)
            /\ ref.cond # "" => ref.cond \in m.conds

\* hasEntrypoints walks the relations with a map of the ones it has visited:
\* seen[t][r] tells whether t#r was found to have an entry point.  The callee
\* clones the outer map only, so what it notes for a type that is already in
\* the map is seen by its caller: the new contents are part of the result,
\* [has, seen].  The operands of a set operator start from the caller's map.
Mark(seen, t, r, b) ==
    LET row == IF t \in DOMAIN seen THEN seen[t] ELSE <<>>
        new == [q \in DOMAIN row \cup {r} |-> IF q = r THEN b ELSE row[q]]
    IN [x \in DOMAIN seen \cup {t} |-> IF x = t THEN new ELSE seen[x]]

Visited(seen, t, r) == t \in DOMAIN seen /\ r \in DOMAIN seen[t]

RECURSIVE hasEntrypoints(_, _, _, _, _)
RECURSIVE EntryOfTypes(_, _, _, _, _, _)
RECURSIVE EntryOfKids(_, _, _, _, _, _)

\* Mutant: a relation that was visited counts as one with an entry point.
EntryOfTypesVisited(m, t, r, rw, v, i) ==
    LET refs == m.rels[t][IF rw.op = "this" THEN r ELSE rw.ts].types
        q(ref) == IF rw.op = "this" THEN ref.rel ELSE rw.rel
    IN [has |-> \E j \in DOMAIN refs : q(refs[j]) = "" \/ Visited(v, refs[j].type, q(refs[j])), seen |-> v]

\* The loops over the restrictions of t#r itself (op "this") and of the
\* tupleset of a rewrite rw.
EntryOfTypes(m, t, r, rw, v, i) ==
    LET refs == m.rels[t][IF rw.op = "this" THEN r ELSE rw.ts].types
        ref  == refs[i]
        q    == IF rw.op = "this" THEN ref.rel ELSE rw.rel
        next == EntryOfTypes(m, t, r, rw, v, i + 1)
    IN IF i > Len(refs) THEN [has |-> FALSE, seen |-> v]
       ELSE IF rw.op = "this" /\ ref.rel = "" THEN [has |-> TRUE, seen |-> Mark(v, t, r, TRUE)]
       ELSE IF ~HasRelation(m, ref.type, q) THEN next
       ELSE IF Visited(v, ref.type, q)
            THEN IF rw.op = "ttu" /\ v[ref.type][q] THEN [has |-> TRUE, seen |-> v] ELSE next
       ELSE LET sub == hasEntrypoints(m, ref.type, q, Rewrite(m, ref.type, q), v)
            IN IF sub.has THEN sub ELSE EntryOfTypes(m, t, r, rw, sub.seen, i + 1)

EntryOfKids(m, t, r, rw, seen, i) ==
    LET sub == hasEntrypoints(m, t, r, rw.kids[i], seen)
    IN IF i > Len(rw.kids) THEN [has |-> rw.op # "union", seen |-> seen]
       ELSE IF sub.has = (rw.op = "union") THEN sub
       ELSE EntryOfKids(m, t, r, rw, sub.seen, i + 1)

hasEntrypoints(m, t, r, rw, seen) ==
    LET v    == Mark(seen, t, r, FALSE)
        back == IF t \in DOMAIN seen THEN v ELSE seen
        res  == CASE rw.op \in {"this", "ttu"} -> EntryOfTypes(m, t, r, rw, v, 1)
                  [] rw.op = "computed" ->
                        IF Visited(v, t, rw.rel) THEN [has |-> v[t][rw.rel], seen |-> v]
                        ELSE hasEntrypoints(m, t, rw.rel, Rewrite(m, t, rw.rel), v)
                  [] OTHER -> EntryOfKids(m, t, r, rw, back, 1)
    IN [has |-> res.has, seen |-> [x \in DOMAIN seen |-> res.seen[x]]]

\* hasCycle: t#r reaches itself through computed relations only.
RECURSIVE hasCycle(_, _, _, _, _)
hasCycle(m, t, r, rw, visited) ==
    LET v == visited \cup {r}
    IN IF rw.op = "computed"
       THEN rw.rel \in v \/ hasCycle(m, t, rw.rel, Rewrite(m, t, rw.rel), v)
       ELSE \E i \in DOMAIN rw.kids : hasCycle(m, t, r, rw.kids[i], v)

validateRelation(m, t, r) ==
    /\ isUsersetRewriteValid(m, t, r, Rewrite(m, t, r))
    /\ validateTypeRestrictions(m, t, r)
    /\ hasEntrypoints(m, t, r, Rewrite(m, t, r), <<>>).has
    /\ ~hasCycle(m, t, r, Rewrite(m, t, r), {})

Reserved == {"", "self", "this"}

validateNames(m) ==
    \A t \in DOMAIN m.rels : t \notin Reserved /\ DOMAIN m.rels[t] \cap Reserved = {}

\* The relations are validated in the order of their names and the first one
\* that is not valid ends the validation; only the verdict is kept here.
NewAndValidate(m) ==
    /\ validateNames(m)
    /\ \A tr \in Relations(m) :
          isUsersetRewriteValid(m, tr[1], tr[2], Rewrite(m, tr[1], tr[2]))
    /\ \A tr \in Relations(m) : validateRelation(m, tr[1], tr[2])

-----------------------------------------------------------------------------
(* Validation of a tuple [obj, rel, user, cond] against a model. *)

ValidateUser(m, u) ==
    HasType(m, u.type) /\ (IsUserset(u) => HasRelation(m, u.type, u.rel))

ValidateObject(m, o) == o.id # Wild /\ HasType(m, o.type)

ValidateRelation(m, o, r) == HasRelation(m, o.type, r)

ValidateUserObjectRelation(m, tk) ==
    ValidateUser(m, tk.user) /\ ValidateObject(m, tk.obj) /\ ValidateRelation(m, tk.obj, tk.rel)

validateTuplesetRestrictions(m, tk) ==
    IsTuplesetRelation(m, tk.obj.type, tk.rel) =>
        /\ Rewrite(m, tk.obj.type, tk.rel).op = "this"
        /\ ~IsWildcard(tk.user) /\ ~IsUserset(tk.user)

\* validateTypeRestrictions of internal/validation: the form of the user.
AllowsUser(m, tk) ==
    \E ref \in DirectlyRelatedUserTypes(m, tk.obj.type, tk.rel) :
        /\ ref.type = tk.user.type
        /\ CASE IsUserset(tk.user)  -> ref.rel = tk.user.rel
             [] IsWildcard(tk.user) -> ref.wild
             [] OTHER               -> ~ref.wild /\ ref.rel = ""

\* validateCondition: a tuple with a condition is only compared with the
\* restrictions by type and condition, one without by type and form.
AllowsCondition(m, tk) ==
    \E ref \in DirectlyRelatedUserTypes(m, tk.obj.type, tk.rel) :
        /\ ref.type = tk.user.type
        /\ ref.cond = tk.cond
        /\ IF tk.cond = ""
           THEN /\ ref.rel # "" => ref.rel = tk.user.rel
                /\ ref.wild => IsWildcard(tk.user)
           ELSE tk.cond \in m.conds

ValidateTupleForRead(m, tk) ==
    /\ HasRelation(m, tk.obj.type, tk.rel)
    /\ validateTuplesetRestrictions(m, tk)
    /\ AllowsUser(m, tk)
    /\ AllowsCondition(m, tk)

ValidateTupleForWrite(m, tk) ==
    ValidateUserObjectRelation(m, tk) /\ ValidateTupleForRead(m, tk)
=============================================================================
