------------------------------- MODULE ReadKeys -------------------------------
(***************************************************************************)
(* The reads that go through the iterator cache: the key each is cached    *)
(* under, the keys whose marks make what is cached invalid, and the marks  *)
(* the cache controller sets for a change.  CacheController and            *)
(* CachedIterators take the latter two as Touches and EntitiesOf and       *)
(* assume that they meet; here they are what the code makes of tuples.     *)
(***************************************************************************)
EXTENDS TupleReads

ReadKey(o, r) == <<"r", o, r>>

\* Conditions and types without relation or wildcard are not part of it.
ReadUsersetTuplesKey(o, r, refs) ==
    <<"rut", o, r, {ref.type : ref \in {x \in refs : x.wild}},
                   {<<ref.type, ref.rel>> : ref \in {x \in refs : x.rel # ""}}>>

ReadStartingWithUserKey(t, r, us) == <<"rtwu", t, r, us>>

ObjectRelationMark(o, r)  == <<"or", o, r>>
UserObjectTypeMark(u, t)  == <<"otr", u, t>>

newCachedIteratorByObjectRelation(o, r)   == {ObjectRelationMark(o, r)}
newCachedIteratorByUserObjectType(us, t) == {UserObjectTypeMark(u, t) : u \in us}

\* What is cached of ts: the key, the marks that condemn it, and the rows.
CachedRead(ts, o, r) ==
    [key |-> ReadKey(o, r), marks |-> newCachedIteratorByObjectRelation(o, r), rows |-> Select(ts, o, r)]
CachedReadUsersetTuples(ts, o, r, refs) ==
    [key |-> ReadUsersetTuplesKey(o, r, refs), marks |-> newCachedIteratorByObjectRelation(o, r),
     rows |-> SelectUsersets(ts, o, r, refs)]
CachedReadStartingWithUser(ts, t, r, us) ==
    [key |-> ReadStartingWithUserKey(t, r, us), marks |-> newCachedIteratorByUserObjectType(us, t),
     rows |-> SelectWithUsers(ts, t, r, us)]

\* Mutant: the user is marked without the relation of a userset.
MarksOfObject(tk) ==
    {ObjectRelationMark(tk.obj, tk.rel), UserObjectTypeMark([tk.user EXCEPT !.rel = ""], tk.obj.type)}

\* The marks of a change of tk.
MarksOf(tk) == {ObjectRelationMark(tk.obj, tk.rel), UserObjectTypeMark(tk.user, tk.obj.type)}

\* The reads about tk that may find it, for the restrictions its neighbours have.
\* (A restriction names a relation or the wildcard, never both.)
RefOf(u) == Ref(u.type, u.rel, IsWildcard(u) /\ ~IsUserset(u), "")
ReadsAbout(ts, tk) ==
    {CachedRead(ts, tk.obj, tk.rel)}
    \cup {CachedReadUsersetTuples(ts, tk.obj, tk.rel, refs) :
              refs \in SUBSET ({RefOf(x.user) : x \in ts} \cup {Ref(tk.user.type, "", TRUE, "")})}
    \cup {CachedReadStartingWithUser(ts, tk.obj.type, tk.rel, us) :
              us \in SUBSET {tk.user, User(tk.user.type, Wild, "")}}

\* What the iterator cache keeps of a read is condemned by the marks the cache
\* controller sets when one of its tuples is written or deleted, and two reads
\* are kept under one key only if they return the same tuples.
CachedReadsAreMarked ==
    \A tk \in tuples : \A read \in ReadsAbout(tuples, tk) :
        /\ tk \in read.rows => read.marks \cap MarksOf(tk) # {}
        /\ \A other \in ReadsAbout(tuples, tk) : other.key = read.key => other.rows = read.rows
=============================================================================
