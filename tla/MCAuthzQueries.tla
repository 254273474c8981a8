---------------------------- MODULE MCAuthzQueries ----------------------------
EXTENDS AuthzQueries, TLC

U == Ref("user", "", FALSE, "")
UStar == Ref("user", "", TRUE, "")
UCond == Ref("user", "", FALSE, "c")
G == Ref("group", "member", FALSE, "")
T == Ref("team", "member", FALSE, "")
F == Ref("folder", "", FALSE, "")
Def(rw, types) == [rw |-> rw, types |-> types]

Model(rels) == [rels |-> rels @@ ("user" :> <<>>), conds |-> {"c"}]

MCModels ==
    "recursive" :> Model(
        ("group" :> ("member" :> Def(This, <<U, G>>))) @@
        ("doc" :> (("viewer" :> Def(ButNot(This, Computed("blocked")), <<U, G>>)) @@
                   ("blocked" :> Def(This, <<U, UStar, G>>)))))
 @@ "weight2" :> Model(
        ("group" :> (("member" :> Def(ButNot(This, Computed("banned")), <<U, UStar>>)) @@
                     ("banned" :> Def(This, <<UCond>>)))) @@
        ("doc" :> (("viewer" :> Def(Or(<<This, Ttu("member", "owner")>>), <<G>>)) @@
                   ("owner" :> Def(This, <<Ref("group", "", FALSE, "")>>)))))

 @@ "folders" :> Model(
        ("folder" :> (("viewer" :> Def(Or(<<This, Ttu("viewer", "parent")>>), <<U>>)) @@
                      ("parent" :> Def(This, <<F>>)))) @@
        ("doc" :> (("viewer" :> Def(And(<<Ttu("viewer", "parent"), Computed("allowed")>>), <<>>)) @@
                   ("parent" :> Def(This, <<F>>)) @@
                   ("allowed" :> Def(This, <<U, UCond>>)))))
 @@ "teams" :> Model(
        ("group" :> ("member" :> Def(This, <<U, T>>))) @@
        ("team" :> ("member" :> Def(This, <<G>>))) @@
        ("doc" :> (("viewer" :> Def(And(<<This, Computed("allowed")>>), <<T, U>>)) @@
                   ("allowed" :> Def(This, <<U>>)))))
 @@ "overlap" :> Model(
        ("group" :> (("member" :> Def(ButNot(This, Computed("banned")), <<U, UStar>>)) @@
                     ("banned" :> Def(This, <<UCond>>)))) @@
        ("doc" :> ("viewer" :> Def(This, <<U, G>>))))

Tk(ot, oi, r, ut, ui, ur, c) ==
    [obj |-> Obj(ot, oi), rel |-> r, user |-> User(ut, ui, ur), cond |-> c]

MCTuples ==
    { Tk("group", 1, "member", "user", 1, "", ""), Tk("group", 2, "member", "user", 1, "", ""),
      Tk("group", 1, "member", "user", Wild, "", ""),
      Tk("group", 1, "banned", "user", 1, "", "c"),
      Tk("group", 1, "member", "group", 2, "member", ""), Tk("group", 2, "member", "group", 1, "member", ""),
      Tk("doc", 1, "viewer", "group", 1, "member", ""), Tk("doc", 1, "viewer", "user", 1, "", ""),
      Tk("doc", 1, "blocked", "group", 2, "member", ""), Tk("doc", 1, "blocked", "user", Wild, "", ""),
      Tk("doc", 1, "owner", "group", 2, "", ""),
      Tk("folder", 3, "viewer", "user", 1, "", ""), Tk("folder", 1, "parent", "folder", 2, "", ""),
      Tk("folder", 2, "parent", "folder", 3, "", ""), Tk("folder", 3, "parent", "folder", 1, "", ""),
      Tk("doc", 1, "parent", "folder", 1, "", ""),
      Tk("doc", 1, "allowed", "user", 1, "", ""), Tk("doc", 1, "allowed", "user", 1, "", "c"),
      Tk("group", 2, "member", "team", 1, "member", ""), Tk("team", 1, "member", "group", 1, "member", ""),
      Tk("team", 1, "member", "group", 2, "member", ""), Tk("doc", 1, "viewer", "team", 1, "member", "") }

\* The versions of the model that may follow a version.
MCSuccessors ==
    [n \in DOMAIN MCModels |->
        CASE n = "recursive" -> {"weight2"} [] n = "weight2" -> {}
          [] n = "folders" -> {"teams"} [] n = "teams" -> {}
          [] n = "overlap" -> {}]

\* Models of one type with a relation a of up to one operator and a relation b
\* without, over direct, computed and tuple-to-userset operands.
Leaves ==
    LET names == {"a", "b"}
    IN {Def(This, <<U>>)} \cup {Def(This, <<Ref("doc", r, FALSE, "")>>) : r \in names}
       \cup {Def(Computed(r), <<>>) : r \in names} \cup {Def(Ttu(r, "p"), <<>>) : r \in names}
Operators ==
    UNION {{Def(rw, x.types \o y.types) :
                rw \in {Or(<<x.rw, y.rw>>), And(<<x.rw, y.rw>>), ButNot(x.rw, y.rw)}} :
           x \in Leaves, y \in Leaves}
MCDrafts ==
    {Model("doc" :> (("a" :> a) @@ ("b" :> b) @@ ("p" :> Def(This, <<Ref("doc", "", FALSE, "")>>)))) :
        a \in Leaves \cup Operators, b \in Leaves}

MCUsers == {User("user", 1, ""), User("group", 2, "member")}
MCContexts == {"met", "missing"}

\* The value the condition asks for, and one of another type that it does not
\* take, a number and the string of its digits: one text.
MCSpelled(ctx) == "1"
MCHash(text)   == text
MCExtras == {{}, {Tk("folder", 3, "viewer", "user", 1, "", "")}, {Tk("group", 2, "member", "user", 1, "", "")}}
MCDbOrder == <<1, 2, 3>>
=============================================================================
