------------------------------- MODULE ListUsers -------------------------------
(***************************************************************************)
(* ListUsers (pkg/server/commands/listusers), the users of a type that     *)
(* have a relation with an object, and Expand (pkg/server/commands/expand) *)
(* the tree of usersets of an object's relation.                           *)
(*                                                                         *)
(* The handlers of ListUsers send the users they find, each with whether   *)
(* it has the relation or is explicitly without it, through channels.  The *)
(* maps that collect them keep what arrives last for a user.  An operator  *)
(* returns the set of the outcomes [msgs, err, cyc] its call may have:     *)
(* what is sent, whether it fails, whether it reports a cycle.             *)
(***************************************************************************)
EXTENDS ReverseExpand

Outcome(msgs, err, cyc) == [msgs |-> msgs, err |-> err, cyc |-> cyc]
Has(u) == [user |-> u, has |-> TRUE]
Not(u) == [user |-> u, has |-> FALSE]

\* The contents a map may have when all of msgs have been stored in it.
Stored(msgs) ==
    LET users == {x.user : x \in msgs}
    IN {S \in SUBSET msgs : \A u \in users : Cardinality({x \in S : x.user = u}) = 1}

\* What several calls that run in one pool and send on one channel give.
Together(calls) ==
    FoldLeft(LAMBDA acc, S : {Outcome(p[1].msgs \cup p[2].msgs, p[1].err \/ p[2].err, p[1].cyc \/ p[2].cyc) :
                                  p \in acc \X S},
             {Outcome({}, FALSE, FALSE)}, calls)

\* Every way the calls, each with a channel of its own, may end.
Apart(calls) ==
    FoldLeft(LAMBDA acc, S : {Append(p[1], p[2]) : p \in acc \X S}, {<<>>}, calls)

HasUsers(out) == {x.user : x \in {y \in out.msgs : y.has}}
AnyError(outs) == \E i \in DOMAIN outs : outs[i].err

unionUsers(outs) ==
    Outcome({Has(u) : u \in UNION {HasUsers(outs[i]) : i \in DOMAIN outs}}, AnyError(outs), FALSE)

\* expandIntersection: a user counts once for each operand that found it and
\* not the wildcard, and once for each operand that found the wildcard.
intersectionUsers(outs, wild) ==
    LET wilds == {i \in DOMAIN outs : wild \in HasUsers(outs[i])}
        of(u) == {i \in DOMAIN outs \ wilds : u \in HasUsers(outs[i])}
        all == UNION {HasUsers(outs[i]) : i \in DOMAIN outs}
    IN Outcome({Has(u) : u \in {x \in all : Cardinality(of(x)) + Cardinality(wilds) = Len(outs)}},
               AnyError(outs), FALSE)

\* Mutant: the wildcard among the subtracted users is not looked for.
exclusionUsersNoWildcard(base, sub, wild, err) ==
    Outcome({IF x.user \in {y.user : y \in sub} THEN Not(x.user) ELSE x : x \in base}, err, FALSE)

\* expandExclusion, from the maps of the base and of the subtracted users.
exclusionUsers(base, sub, wild, err) ==
    LET subtracted == {x.user : x \in sub}
        statusIn(u) == (u \notin subtracted) \/ (\E x \in sub : x.user = u /\ x.has)
        whenWild(x) ==
            (IF {x.user, wild} \cap subtracted = {} THEN {Has(x.user)} ELSE {})
            \cup (IF wild \in subtracted /\ x.user \notin subtracted THEN {Not(x.user)} ELSE {})
            \cup {Has(y.user) : y \in {z \in sub : z.user # wild /\ ~z.has}}
            \cup {Not(y.user) : y \in {z \in sub : z.user # wild /\ z.has}}
        send(x) ==
            IF wild \in {y.user : y \in base} THEN whenWild(x)
            ELSE IF {x.user, wild} \cap subtracted # {}
            THEN {IF statusIn(x.user) THEN Not(x.user) ELSE Has(x.user)}
            ELSE {x}
    IN Outcome(UNION {send(x) : x \in base}, err, FALSE)

RECURSIVE expand(_, _, _, _, _, _)
RECURSIVE expandRewrite(_, _, _, _, _, _, _)

\* The calls for a set of object#relation pairs, in one pool.
ExpandAll(e, pairs, f, depth, visited) ==
    LET ps == SetToSeq(pairs)
    IN Together([i \in DOMAIN ps |-> expand(e, ps[i][1], ps[i][2], f, depth, visited)])

MetRows(e, o, r) ==
    LET rows == {tk \in Select(All(e), o, r) : IsValid(e, tk)}
    IN [items |-> {tk \in rows : CondResult(e, tk) = "met"},
        err |-> \E tk \in rows : CondResult(e, tk) = "missing"]

expandDirect(e, o, r, f, depth, visited) ==
    LET rows == MetRows(e, o, r)
        users == {tk.user : tk \in rows.items}
        below == ExpandAll(e, {<<Obj(u.type, u.id), u.rel>> : u \in {x \in users : IsUserset(x)}},
                           f, depth, visited)
        found == {Has(u) : u \in {x \in users : ~IsUserset(x) /\ x.type = f.type}}
    IN {Outcome(x.msgs \cup found, x.err \/ rows.err, x.cyc) : x \in below}

expandTTU(e, o, rw, f, depth, visited) ==
    LET rows == MetRows(e, o, rw.ts)
        below == ExpandAll(e, {<<Obj(tk.user.type, tk.user.id), rw.rel>> : tk \in rows.items},
                           f, depth, visited)
    IN {Outcome(x.msgs, x.err \/ rows.err, FALSE) : x \in below}

expandExclusion(e, o, r, rw, f, depth, visited) ==
    UNION {LET base == p[1] sub == p[2]
           IN IF sub.cyc THEN {Outcome({}, FALSE, FALSE)}
              ELSE {exclusionUsers(q[1], q[2], User(f.type, Wild, ""), base.err \/ sub.err) :
                        q \in Stored(base.msgs) \X Stored(sub.msgs)} :
           p \in expandRewrite(e, o, r, rw.kids[1], f, depth, visited)
                 \X expandRewrite(e, o, r, rw.kids[2], f, depth, visited)}

expandRewrite(e, o, r, rw, f, depth, visited) ==
    LET kids == Apart([i \in DOMAIN rw.kids |-> expandRewrite(e, o, r, rw.kids[i], f, depth, visited)])
    IN CASE rw.op = "this" -> expandDirect(e, o, r, f, depth, visited)
         [] rw.op = "computed" -> expand(e, o, rw.rel, f, depth, visited)
         [] rw.op = "ttu" -> expandTTU(e, o, rw, f, depth, visited)
         [] rw.op = "difference" -> expandExclusion(e, o, r, rw, f, depth, visited)
         [] rw.op = "union" -> {unionUsers(outs) : outs \in kids}
         [] rw.op = "intersection" -> {intersectionUsers(outs, User(f.type, Wild, "")) : outs \in kids}

\* expand of o#r for the filter f, [type, rel].
expand(e, o, r, f, depth, visited) ==
    LET self == IF o.type = f.type /\ r = f.rel THEN {Has(User(o.type, o.id, r))} ELSE {}
    IN IF depth >= MaxDepth THEN {Outcome({}, TRUE, FALSE)}
       ELSE IF <<o, r>> \in visited THEN {Outcome({}, FALSE, TRUE)}
       ELSE IF ~HasRelation(M(e), o.type, r) THEN {Outcome(self, FALSE, FALSE)}
       ELSE {Outcome(x.msgs \cup self, x.err, x.cyc) :
                 x \in expandRewrite(e, o, r, Rewrite(M(e), o.type, r), f, depth + 1, visited \cup {<<o, r>>})}

doesHavePossibleEdges(e, o, r, f) ==
    EdgesTo(e, o.type, r, [type |-> f.type, rel |-> f.rel, id |-> 1]) # {}

\* ListUsers without a limit: the answers it may give, [users, err].
ListUsers(e, o, r, f) ==
    IF ~(o.type = f.type /\ r = f.rel) /\ ~doesHavePossibleEdges(e, o, r, f)
    THEN {[users |-> {}, err |-> FALSE]}
    ELSE UNION {{[users |-> {x.user : x \in {y \in S : y.has}}, err |-> out.err] : S \in Stored(out.msgs)} :
                out \in expand(e, o, r, f, 0, {})}

-----------------------------------------------------------------------------
(* Expand: the tree of o#r, with the conditions of tuples not looked at. *)

Leaf(users, pairs) == [op |-> "leaf", users |-> users, pairs |-> pairs, kids |-> <<>>]

\* Mutant: rows of earlier models are not filtered out.
RowsOfAnyModel(e, o, r) == Select(All(e), o, r)

ValidRows(e, o, r) == {tk \in Select(All(e), o, r) : IsValid(e, tk)}

resolveThis(e, o, r) == Leaf({tk.user : tk \in ValidRows(e, o, r)}, {})
resolveComputedUserset(o, rw) == Leaf({}, {<<o, rw.rel>>})
resolveTupleToUserset(e, o, rw) ==
    Leaf({}, {<<Obj(tk.user.type, tk.user.id), IF tk.user.rel = "" THEN rw.rel ELSE tk.user.rel>> :
                  tk \in ValidRows(e, o, rw.ts)})

RECURSIVE resolveUserset(_, _, _, _)
resolveUserset(e, o, r, rw) ==
    CASE rw.op = "this" -> resolveThis(e, o, r)
      [] rw.op = "computed" -> resolveComputedUserset(o, rw)
      [] rw.op = "ttu" -> resolveTupleToUserset(e, o, rw)
      [] OTHER -> [op |-> rw.op, users |-> {}, pairs |-> {},
                   kids |-> [i \in DOMAIN rw.kids |-> resolveUserset(e, o, r, rw.kids[i])]]

Expand(e, o, r) == resolveUserset(e, o, r, Rewrite(M(e), o.type, r))
=============================================================================
