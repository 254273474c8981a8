---------------------------- MODULE BatchChecks ----------------------------
(***************************************************************************)
(* BatchCheck: the checks of a batch that have one cache key are executed  *)
(* once and share the outcome.  A check is [id, e, obj, rel], with the     *)
(* correlation id its caller chose (0 stands for the empty one) and the    *)
(* environment e of a request: the user, the contextual tuples extra, the  *)
(* context ctx, named by what it makes of conditions, and the store and    *)
(* model, which the checks of a batch have in common.                      *)
(*                                                                         *)
(* The key is the xxhash64 of a text.  The text spells the values of a     *)
(* context without their types: a number and the string of its digits, or  *)
(* a list and the string of its members joined by commas, read alike.      *)
(***************************************************************************)
EXTENDS TupleReads, Naturals, Sequences, SequencesExt

CONSTANTS Outcomes(_, _, _),  \* the outcomes the check of e, obj and rel may have
          Environments(_, _), \* what requests may come with, given typesys and tuples
          Spelled(_),         \* the text of a context
          Hash(_),            \* xxhash64 of a text
          MaxChecks           \* of a batch

VARIABLE typesys              \* the type system of the latest model

\* What the caller is told; a cycle is a denial.
Told(ans) == {CASE a = "allow" -> "allowed" [] a \in {"deny", "cycle"} -> "denied" [] OTHER -> "error" : a \in ans}

HandleCheck(c) == Told(Outcomes(c.e, c.obj, c.rel))

\* Mutant: the contextual tuples are not part of the key.
KeyWithoutTuples(c) == <<c.obj, c.rel, c.e.user, Spelled(c.e.ctx)>>

\* The text of a check under one model: the contextual tuples are sorted, so
\* that their order does not count, and the names in it have no separators.
CacheKey(c) == <<c.obj, c.rel, c.e.user, c.e.extra, Spelled(c.e.ctx)>>
generateCacheKeyFromCheck(c) == Hash(CacheKey(c))

validateCorrelationIDs(checks) ==
    \A i, j \in DOMAIN checks : checks[i].id # 0 /\ (i < j => checks[i].id # checks[j].id)

\* The checks with one key are executed once, the first of them for all.
\* (A check whose context has ended is an error, which nobody waits for.)
First(checks, c) ==
    CHOOSE i \in DOMAIN checks :
        /\ generateCacheKeyFromCheck(checks[i]) = generateCacheKeyFromCheck(c)
        /\ \A j \in 1..(i - 1) : generateCacheKeyFromCheck(checks[j]) # generateCacheKeyFromCheck(c)

BatchCheck(checks) ==
    LET outcome(c) == LET first == checks[First(checks, c)] IN Outcomes(first.e, first.obj, first.rel)
    IN [id \in {checks[i].id : i \in DOMAIN checks} |->
           outcome(checks[CHOOSE i \in DOMAIN checks : checks[i].id = id])]

\* An empty batch, one too large or with a correlation id twice is refused.
HandleBatchCheck(checks) ==
    IF Len(checks) \notin 1..MaxChecks \/ ~validateCorrelationIDs(checks) THEN <<>>
    ELSE LET result == BatchCheck(checks) IN [id \in DOMAIN result |-> Told(result[id])]

-----------------------------------------------------------------------------
\* What may be asked in a state, and the pairs that tuples are stored for.
Asked == Environments(typesys, tuples)
StoredPairs == typesys.pairs \cap {<<tk.obj, tk.rel>> : tk \in tuples}

\* A batch of everything one user may ask about a pair, the first of it twice.
BatchOf(es, p) ==
    [i \in 1..(Len(es) + 1) |-> [id |-> i, e |-> es[1 + (i % Len(es))], obj |-> p[1], rel |-> p[2]]]

\* Checks that the key cannot tell apart: they differ at most in contexts that
\* are spelled alike, or their texts differ and have one hash.
MixedUp(c, d) ==
    \/ /\ <<c.obj, c.rel, c.e.user, c.e.extra>> = <<d.obj, d.rel, d.e.user, d.e.extra>>
       /\ Spelled(c.e.ctx) = Spelled(d.e.ctx)
    \/ CacheKey(c) # CacheKey(d) /\ Hash(CacheKey(c)) = Hash(CacheKey(d))

\* A batch answers each of its checks as Check answers it alone, or as Check
\* answers another check of the batch whose context is spelled alike or whose
\* text has the same hash: checks that differ in their contextual tuples never
\* share an answer otherwise, though those with one key are executed once.
\* (cache.go:379 calls the pieces of the key "unique-per-check"; they are not.)
BatchIsExact ==
    \A u \in {e.user : e \in Asked} : \A p \in StoredPairs :
        LET checks == BatchOf(SetToSeq({e \in Asked : e.user = u}), p)
            told == HandleBatchCheck(checks)
        IN \A i \in DOMAIN checks : \E j \in DOMAIN checks :
              MixedUp(checks[i], checks[j]) /\ told[checks[i].id] = HandleCheck(checks[j])
=============================================================================
