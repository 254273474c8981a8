----------------------------- MODULE TupleReads -----------------------------
(***************************************************************************)
(* Objects, users and type restrictions, and the reads of tuples           *)
(* [obj, rel, user, cond] that the SQL store answers: pkg/tuple and the    *)
(* SELECTs of the SQL Server datastore.  "" is no relation.                *)
(***************************************************************************)

VARIABLE tuples      \* the tuples stored

Ref(type, rel, wild, cond) ==
    [type |-> type, rel |-> rel, wild |-> wild, cond |-> cond]

\* The identifier of a typed wildcard such as user:*.
Wild == 0

Obj(type, id)       == [type |-> type, id |-> id]
User(type, id, rel) == [type |-> type, id |-> id, rel |-> rel]

IsUserset(u)  == u.rel # ""
IsWildcard(u) == u.id = Wild

\* The SELECTs of the store, which the contextual tuples of a request answer
\* as well: by object and relation, by user too, by the form of the user, and
\* by relation and users.
Select(ts, o, r)             == {tk \in ts : tk.obj = o /\ tk.rel = r}
SelectUser(ts, o, r, u)      == {tk \in Select(ts, o, r) : tk.user = u}
SelectUsersets(ts, o, r, refs) ==
    {tk \in Select(ts, o, r) : \E ref \in refs :
        /\ tk.user.type = ref.type
        /\ IF ref.wild THEN IsWildcard(tk.user) ELSE IsUserset(tk.user) /\ tk.user.rel = ref.rel}
SelectWithUsers(ts, t, r, us) == {tk \in ts : tk.obj.type = t /\ tk.rel = r /\ tk.user \in us}
=============================================================================
