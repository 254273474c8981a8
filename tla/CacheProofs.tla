----------------------------- MODULE CacheProofs -----------------------------
(***************************************************************************)
(* Proofs about the cache controller, the check cache and the iterator     *)
(* cache: types, that an invalidation marks the changes it has found, that *)
(* what the controller has published is honoured, that what the iterator   *)
(* cache holds are whole answers of queries, and that the marks of changes *)
(* are the ones the cached reads look up.                                  *)
(***************************************************************************)
EXTENDS CheckCache, CachedIterators, ReadKeys, FiniteSetTheorems, TLAPS

LEMMA ControllerTypeInit == ControllerInit => ControllerTypeOK
BY ControllerAssumption DEF ControllerInit, ControllerTypeOK, AtStart, StartTime, CacheEntry, NoEntry

LEMMA ControllerTypeStep ==
    ASSUME ControllerTypeOK, [ControllerNext]_controllerVars
    PROVE  ControllerTypeOK'
<1> USE ControllerAssumption DEF ControllerTypeOK, CacheEntry
<1>1. ASSUME NEW t \in Txs, StartWrite(t) PROVE ControllerTypeOK'
  BY <1>1 DEF StartWrite, inflightVars
<1>2. ASSUME NEW t \in Txs, InsertChange(t) PROVE ControllerTypeOK'
  BY <1>2 DEF InsertChange, inflightVars
<1>3. ASSUME NEW t \in Txs, CommitWrite(t) PROVE ControllerTypeOK'
  BY <1>3 DEF CommitWrite, inflightVars
<1>4. CASE Tick
  BY <1>4 DEF Tick, txVars, inflightVars
<1>5. CASE ChangelogEntryExpires
  BY <1>5 DEF ChangelogEntryExpires, NoEntry, txVars, inflightVars
<1>6. CASE FindTimesOut
  BY <1>6 DEF FindTimesOut, txVars
<1>7. CASE FindFails
  BY <1>7 DEF FindFails, txVars
<1>8. CASE FindChanges
  BY <1>8 DEF FindChanges, findChangesDescending, committed, txVars
<1>9. CASE NothingNew
  BY <1>9 DEF NothingNew, txVars
<1>10. CASE InvalidateFull
  BY <1>10 DEF InvalidateFull, txVars
<1>11. CASE InvalidatePartial
  BY <1>11 DEF InvalidatePartial, Recent, txVars
<1>12. ASSUME NEW e \in Entities, MarkEntity(e) PROVE ControllerTypeOK'
  BY <1>12 DEF MarkEntity, txVars
<1>13. CASE Publish
  BY <1>13 DEF Publish, txVars
<1>14. CASE Release
  BY <1>14 DEF Release, txVars
<1>15. CASE Ask
  BY <1>15 DEF Ask, DetermineInvalidationTime, InvalidateIfNeeded, txVars, inflightVars
<1>16. CASE UNCHANGED controllerVars
  BY <1>16 DEF controllerVars, txVars, inflightVars
<1>17. QED
  BY <1>1, <1>2, <1>3, <1>4, <1>5, <1>6, <1>7, <1>8, <1>9, <1>10, <1>11, <1>12,
     <1>13, <1>14, <1>15, <1>16 DEF ControllerNext, Background, Environment

(***************************************************************************)
(* What an invalidation knows of the changes it has found. A change that   *)
(* counts as recent now did so when the marks were chosen.                 *)
(***************************************************************************)
Covered(t) ==
    \/ storeMark > committedAt[t]
    \/ \A e \in Touches[t] : e \in todo \/ mark[e].at > committedAt[t]

Progress ==
    /\ \A t \in Txs : committedAt[t] <= now /\ insertedAt[t] <= now
    /\ \A t \in Txs : committedAt[t] # 0 => insertedAt[t] # 0
    /\ \A t \in changes : committedAt[t] # 0
    /\ pc \in {"asked", "found"} => todo = {}
    /\ pc = "asked" => changes = {}
    /\ pc = "idle" => changes = {} /\ todo = {}
    /\ todo # {} => \A t \in changes : lastModified > committedAt[t]
    /\ (pc = "marking" /\ lastChangelog > lastInvalidation)
          => \A t \in changes : insertedAt[t] > now - IteratorTTL => Covered(t)

ControllerInv == ControllerTypeOK /\ Progress

LEMMA ControllerInvStep ==
    ASSUME ControllerInv, [ControllerNext]_controllerVars
    PROVE  ControllerInv'
<1> USE ControllerAssumption
<1>0. ControllerTypeOK /\ ControllerTypeOK' /\ Progress
  BY ControllerTypeStep DEF ControllerInv
<1> SUFFICES Progress'
  BY <1>0 DEF ControllerInv
<1> USE DEF ControllerTypeOK, CacheEntry, Progress, Covered
<1>1. ASSUME NEW t \in Txs, StartWrite(t) PROVE Progress'
  BY <1>0, <1>1 DEF StartWrite, inflightVars
<1>2. ASSUME NEW t \in Txs, InsertChange(t) PROVE Progress'
  BY <1>0, <1>2 DEF InsertChange, inflightVars
<1>3. ASSUME NEW t \in Txs, CommitWrite(t) PROVE Progress'
  BY <1>0, <1>3 DEF CommitWrite, inflightVars
<1>4. CASE Tick
  BY <1>0, <1>4 DEF Tick, txVars, inflightVars
<1>5. CASE ChangelogEntryExpires
  BY <1>0, <1>5 DEF ChangelogEntryExpires, NoEntry, txVars, inflightVars
<1>6. CASE FindTimesOut
  BY <1>0, <1>6 DEF FindTimesOut, txVars
<1>7. CASE FindFails
  BY <1>0, <1>7 DEF FindFails, txVars
<1>8. CASE FindChanges
  BY <1>0, <1>8 DEF FindChanges, findChangesDescending, committed, txVars
<1>9. CASE NothingNew
  BY <1>0, <1>9 DEF NothingNew, txVars
<1>10. CASE InvalidateFull
  BY <1>0, <1>10 DEF InvalidateFull, txVars
<1>11. CASE InvalidatePartial
  <2>1. \A t \in changes : insertedAt[t] > now' - IteratorTTL => t \in Recent(now' - IteratorTTL)
    BY <1>0, <1>11 DEF InvalidatePartial, Recent
  <2>2. \A t \in changes : insertedAt[t] > now' - IteratorTTL => Touches[t] \subseteq todo'
    BY <2>1, <1>11 DEF InvalidatePartial
  <2>3. \A t \in changes : lastModified' > committedAt[t]
    BY <1>0, <1>11 DEF InvalidatePartial
  <2>4. QED
    BY <1>0, <1>11, <2>2, <2>3 DEF InvalidatePartial, txVars
<1>12. ASSUME NEW e \in Entities, MarkEntity(e) PROVE Progress'
  BY <1>0, <1>12 DEF MarkEntity, txVars
<1>13. CASE Publish
  BY <1>0, <1>13 DEF Publish, txVars
<1>14. CASE Release
  BY <1>0, <1>14 DEF Release, txVars
<1>15. CASE Ask
  BY <1>0, <1>15 DEF Ask, DetermineInvalidationTime, InvalidateIfNeeded, txVars, inflightVars
<1>16. CASE UNCHANGED controllerVars
  BY <1>0, <1>16 DEF controllerVars, txVars, inflightVars
<1>17. QED
  BY <1>1, <1>2, <1>3, <1>4, <1>5, <1>6, <1>7, <1>8, <1>9, <1>10, <1>11, <1>12,
     <1>13, <1>14, <1>15, <1>16 DEF ControllerNext, Background, Environment

(* The controller's variables have their types, on their own and under     *)
(* Check requests.                                                         *)
THEOREM ControllerTypes == ControllerSpec => []ControllerTypeOK
<1>1. ControllerTypeOK /\ [ControllerNext]_controllerVars => ControllerTypeOK'
  BY ControllerTypeStep
<1>2. QED
  BY ControllerTypeInit, <1>1, PTL DEF ControllerSpec

(* findChangesAndInvalidateIfNecessary, when the newest change of its page *)
(* is later than the last one published, ends with a mark for every change *)
(* of the page logged within the iterators' TTL, however writes overlap.   *)
THEOREM InvalidationMarksChanges == ControllerSpec => []ChangesAreMarked
<1>1. ControllerInit => ControllerInv
  BY ControllerTypeInit, ControllerAssumption
  DEF ControllerInit, ControllerInv, Progress, AtStart, StartTime
<1>2. ControllerInv /\ [ControllerNext]_controllerVars => ControllerInv'
  BY ControllerInvStep
<1>3. ControllerInv => ChangesAreMarked
  BY DEF ControllerInv, Progress, Covered, ChangesAreMarked, RecentOfPage, Ends, Marked
<1>4. QED
  BY <1>1, <1>2, <1>3, PTL DEF ControllerSpec

-----------------------------------------------------------------------------
(***************************************************************************)
(* The check cache. The controller forgets a write's time no earlier than  *)
(* ControllerTTL after it; an answer is dropped QueryTTL after it was      *)
(* stored. If QueryTTL is not the longer one, whatever was stored before   *)
(* the write is gone by then.                                              *)
(***************************************************************************)
Remembers ==
    /\ changelogEntry.at # 0 =>
          /\ changelogEntry.at = published
          /\ changelogEntry.until >= changelogEntry.at + ControllerTTL
    /\ changelogEntry.at = 0 => published = 0 \/ published + ControllerTTL <= now
    /\ lastChangelog <= now
    /\ \A t \in Txs : insertedAt[t] <= now

Judges ==
    /\ \A k \in Checks : answers[k].until <= answers[k].at + QueryTTL
    /\ \A r \in Requests : step[r] = "lookup" =>
          \/ request[r].invalidationTime = request[r].began
          \/ request[r].began + ControllerTTL <= now

CheckInv == CheckTypeOK /\ Remembers /\ Judges /\ PublishedWritesAreHonoured

LEMMA CheckTypeInit == CheckInit => CheckTypeOK
BY ControllerTypeInit, QueryAssumption
DEF CheckInit, CheckTypeOK, NoAnswer, NoCall, Answer, Call

LEMMA ControlStep == Control => [ControllerNext]_controllerVars
BY DEF Control

(* Execute is the controller's Ask with a request's bookkeeping, and the   *)
(* other steps of a request leave the controller alone but for the clock.  *)
LEMMA ServeKeepsController ==
    ASSUME CheckTypeOK, NEW r \in Requests, Serve(r)
    PROVE  /\ ControllerTypeOK'
           /\ UNCHANGED <<txVars, changelogEntry, storeMark, mark, published, lastChangelog>>
           /\ now' \in {now, now + 1}
<1> USE DEF CheckTypeOK, ControllerTypeOK, txVars, inflightVars
<1>1. ASSUME NEW k \in Checks, NEW higher \in BOOLEAN, Execute(r, k, higher)
      PROVE  /\ ControllerTypeOK'
             /\ UNCHANGED <<txVars, changelogEntry, storeMark, mark, published, lastChangelog, now>>
  BY <1>1 DEF Execute, Keeps, DetermineInvalidationTime, InvalidateIfNeeded, CacheEntry
<1>2. CASE Lookup(r)
  BY <1>2 DEF Lookup, Keeps
<1>3. CASE Resolve(r)
  BY <1>3 DEF Resolve, Keeps
<1>4. CASE Store(r)
  BY <1>4 DEF Store
<1>5. CASE Return(r)
  BY <1>5 DEF Return, Keeps
<1>6. QED
  BY <1>1, <1>2, <1>3, <1>4, <1>5 DEF Serve

LEMMA CheckTypeStep ==
    ASSUME CheckTypeOK, [CheckNext]_allVars
    PROVE  CheckTypeOK'
<1> USE QueryAssumption
<1>1. CASE Control
  <2>1. ControllerTypeOK'
    BY <1>1, ControlStep, ControllerTypeStep DEF CheckTypeOK
  <2>2. published' \in Nat
    BY <1>1 DEF Control, CheckTypeOK, ControllerTypeOK
  <2>3. QED
    BY <1>1, <2>1, <2>2 DEF Control, checkVars, CheckTypeOK
<1>2. ASSUME NEW r \in Requests, Serve(r) PROVE CheckTypeOK'
  <2>0. ControllerTypeOK' /\ published' = published
    BY <1>2, ServeKeepsController
  <2>1. ASSUME NEW k \in Checks, NEW higher \in BOOLEAN, Execute(r, k, higher)
        PROVE  CheckTypeOK'
    <3>1. InvalidationTime \in Nat /\ committed \in SUBSET Txs /\ NoAnswer \in Answer
      BY DEF CheckTypeOK, ControllerTypeOK, CacheEntry, InvalidationTime, committed, NoAnswer, Answer
    <3>2. request' \in [Requests -> Call]
      BY <2>1, <3>1 DEF Execute, CheckTypeOK, Call
    <3>3. step' \in [Requests -> {"idle", "lookup", "hit", "resolve", "store", "resolved"}]
      BY <2>1 DEF Execute, CheckTypeOK
    <3>4. QED
      BY <2>0, <2>1, <3>2, <3>3 DEF Execute, CheckTypeOK
  <2>2. CASE Lookup(r)
    BY <2>0, <2>2 DEF Lookup, CheckTypeOK, Call
  <2>3. CASE Resolve(r)
    <3>1. committed \in SUBSET Txs /\ NoCall \in Call
      BY DEF committed, NoCall, NoAnswer, Answer, Call
    <3>2. request' \in [Requests -> Call]
      <4>1. request[r] \in Call /\ request[r].answer \in Answer
        BY DEF CheckTypeOK, Call
      <4>2. [request[r].answer EXCEPT !.seen = committed] \in Answer
        BY <3>1, <4>1 DEF Answer
      <4>3. [request[r] EXCEPT !.answer = [request[r].answer EXCEPT !.seen = committed]] \in Call
        BY <4>1, <4>2 DEF Call
      <4>4. [request EXCEPT ![r].answer.seen = committed]
              = [request EXCEPT ![r] =
                   [request[r] EXCEPT !.answer = [request[r].answer EXCEPT !.seen = committed]]]
        BY <4>1 DEF CheckTypeOK
      <4>5. QED
        BY <2>3, <3>1, <4>3, <4>4 DEF Resolve, CheckTypeOK
    <3>3. QED
      BY <2>0, <2>3, <3>2 DEF Resolve, CheckTypeOK
  <2>4. CASE Store(r)
    BY <2>0, <2>4 DEF Store, CheckTypeOK, ControllerTypeOK, Call, Answer
  <2>5. CASE Return(r)
    <3>1. NoCall \in Call
      BY DEF NoCall, NoAnswer, Answer, Call
    <3>2. QED
      BY <2>0, <2>5, <3>1 DEF Return, CheckTypeOK
  <2>6. QED
    BY <1>2, <2>1, <2>2, <2>3, <2>4, <2>5 DEF Serve
<1>3. CASE UNCHANGED allVars
  BY <1>3 DEF allVars, controllerVars, txVars, inflightVars, CheckTypeOK, ControllerTypeOK
<1>4. QED
  BY <1>1, <1>2, <1>3 DEF CheckNext

(* Only Publish touches the changelog entry and what was published; the    *)
(* entry expires when the time it holds is no longer of use.               *)
LEMMA RemembersStep ==
    ASSUME CheckTypeOK, CheckTypeOK', Remembers, [CheckNext]_allVars
    PROVE  Remembers'
<1> USE ControllerAssumption DEF Remembers, CheckTypeOK, ControllerTypeOK, CacheEntry
<1>1. CASE Control
  <2>1. CASE Publish
    BY <1>1, <2>1 DEF Control, Publish, txVars
  <2>2. CASE ~Publish
    <3>0. published' = published
      BY <1>1, <2>2 DEF Control
    <3>1. CASE ChangelogEntryExpires
      BY <3>0, <3>1 DEF ChangelogEntryExpires, NoEntry, txVars, inflightVars
    <3>2. CASE FindChanges
      BY <3>0, <3>2 DEF FindChanges, committed, txVars
    <3>3. CASE \E t \in Txs : StartWrite(t) \/ InsertChange(t) \/ CommitWrite(t)
      BY <3>0, <3>3 DEF StartWrite, InsertChange, CommitWrite, inflightVars
    <3>4. CASE Tick \/ Ask
      BY <3>0, <3>4 DEF Tick, Ask, DetermineInvalidationTime, InvalidateIfNeeded, txVars, inflightVars
    <3>5. CASE FindTimesOut \/ FindFails \/ NothingNew \/ InvalidateFull \/ InvalidatePartial
      BY <3>0, <3>5 DEF FindTimesOut, FindFails, NothingNew, InvalidateFull, InvalidatePartial, txVars
    <3>6. CASE Release \/ \E e \in Entities : MarkEntity(e)
      BY <3>0, <3>6 DEF Release, MarkEntity, txVars
    <3>7. QED
      BY <1>1, <2>2, <3>1, <3>2, <3>3, <3>4, <3>5, <3>6
      DEF Control, ControllerNext, Background, Environment
  <2>3. QED
    BY <2>1, <2>2
<1>2. ASSUME NEW r \in Requests, Serve(r) PROVE Remembers'
  <2>1. /\ UNCHANGED <<changelogEntry, published, lastChangelog, insertedAt>>
        /\ now' >= now
    BY <1>2, ServeKeepsController DEF txVars
  <2>2. QED
    BY <2>1
<1>3. CASE UNCHANGED allVars
  BY <1>3 DEF allVars, controllerVars, txVars, inflightVars
<1>4. QED
  BY <1>1, <1>2, <1>3 DEF CheckNext

LEMMA ClockAdvances ==
    ASSUME CheckTypeOK, [CheckNext]_allVars
    PROVE  now' \in Nat /\ now' >= now
<1> USE DEF CheckTypeOK, ControllerTypeOK
<1>1. CASE Control
  <2>1. ControllerNext
    BY <1>1 DEF Control
  <2>2. QED
    BY <2>1
    DEF ControllerNext, Background, Environment, StartWrite, InsertChange, CommitWrite, Tick,
        ChangelogEntryExpires, FindTimesOut, FindFails, FindChanges, NothingNew, InvalidateFull,
        InvalidatePartial, MarkEntity, Publish, Release, Ask
<1>2. ASSUME NEW r \in Requests, Serve(r) PROVE now' \in Nat /\ now' >= now
  BY <1>2, ServeKeepsController
<1>3. CASE UNCHANGED allVars
  BY <1>3 DEF allVars, controllerVars
<1>4. QED
  BY <1>1, <1>2, <1>3 DEF CheckNext

LEMMA JudgesStep ==
    ASSUME CheckTypeOK, Remembers, Judges, [CheckNext]_allVars
    PROVE  Judges'
<1> USE ControllerAssumption, QueryAssumption
<1>0. now \in Nat /\ now' \in Nat /\ now' >= now
  BY ClockAdvances DEF CheckTypeOK, ControllerTypeOK
<1> USE DEF Judges, CheckTypeOK, ControllerTypeOK, CacheEntry, Answer, Call
<1>1. CASE Control
  BY <1>0, <1>1 DEF Control, checkVars
<1>2. ASSUME NEW r \in Requests, Serve(r) PROVE Judges'
  <2>1. ASSUME NEW k \in Checks, NEW higher \in BOOLEAN, Execute(r, k, higher) PROVE Judges'
    <3>1. ~higher => \/ InvalidationTime = published
                     \/ published + ControllerTTL <= now
      BY DEF InvalidationTime, KnowsLastWrite, Remembers
    <3>2. step'[r] = "lookup" => ~higher
      BY <2>1 DEF Execute, TryCache
    <3>3. ~higher => /\ request'[r].invalidationTime = InvalidationTime
                     /\ request'[r].began = published
      BY <2>1 DEF Execute
    <3>4. \A q \in Requests \ {r} : step'[q] = step[q] /\ request'[q] = request[q]
      BY <2>1 DEF Execute
    <3>5. answers' = answers /\ now' = now
      BY <2>1 DEF Execute, Keeps
    <3>6. QED
      BY <3>1, <3>2, <3>3, <3>4, <3>5
  <2>2. CASE Lookup(r)
    BY <1>0, <2>2 DEF Lookup, Keeps
  <2>3. CASE Resolve(r)
    BY <1>0, <2>3 DEF Resolve, Keeps
  <2>4. CASE Store(r)
    BY <1>0, <2>4 DEF Store
  <2>5. CASE Return(r)
    BY <1>0, <2>5 DEF Return, Keeps
  <2>6. QED
    BY <1>2, <2>1, <2>2, <2>3, <2>4, <2>5 DEF Serve
<1>3. CASE UNCHANGED allVars
  BY <1>0, <1>3 DEF allVars, controllerVars
<1>4. QED
  BY <1>1, <1>2, <1>3 DEF CheckNext

LEMMA HonouredStep ==
    ASSUME QueryTTL <= ControllerTTL, CheckTypeOK, Judges,
           PublishedWritesAreHonoured, [CheckNext]_allVars
    PROVE  PublishedWritesAreHonoured'
<1> USE ControllerAssumption, QueryAssumption
        DEF PublishedWritesAreHonoured, CheckTypeOK, ControllerTypeOK, Answer, Call
<1>1. CASE Control
  BY <1>1 DEF Control, checkVars
<1>2. ASSUME NEW r \in Requests, Serve(r) PROVE PublishedWritesAreHonoured'
  <2>1. ASSUME NEW k \in Checks, NEW higher \in BOOLEAN, Execute(r, k, higher)
        PROVE  PublishedWritesAreHonoured'
    BY <2>1 DEF Execute
  <2>2. CASE Lookup(r)
    <3>1. CASE Hit(r)
      <4>1. PICK k \in Checks : k = request[r].key
        OBVIOUS
      <4>2. answers[k].at > request[r].began
        <5>1. /\ answers[k] \in Answer /\ request[r] \in Call /\ now \in Nat
              /\ answers[k].until > now
              /\ answers[k].at > request[r].invalidationTime
          BY <3>1, <4>1 DEF Hit, Live
        <5>2. answers[k].until <= answers[k].at + QueryTTL
          BY DEF Judges
        <5>3. \/ request[r].invalidationTime = request[r].began
              \/ request[r].began + ControllerTTL <= now
          BY <2>2 DEF Lookup, Judges
        <5>4. answers[k].at \in Nat /\ answers[k].until \in Nat /\ request[r].began \in Nat
          BY <5>1
        <5>5. QED
          BY <5>1, <5>2, <5>3, <5>4
      <4>3. request'[r].answer = answers[k] /\ request'[r].began = request[r].began
        BY <2>2, <3>1, <4>1 DEF Lookup
      <4>4. \A q \in Requests \ {r} : step'[q] = step[q] /\ request'[q] = request[q]
        BY <2>2 DEF Lookup
      <4>5. QED
        BY <4>2, <4>3, <4>4
    <3>2. CASE ~Hit(r)
      BY <2>2, <3>2 DEF Lookup
    <3>3. QED
      BY <3>1, <3>2
  <2>3. CASE Resolve(r)
    BY <2>3 DEF Resolve
  <2>4. CASE Store(r)
    BY <2>4 DEF Store
  <2>5. CASE Return(r)
    BY <2>5 DEF Return
  <2>6. QED
    BY <1>2, <2>1, <2>2, <2>3, <2>4, <2>5 DEF Serve
<1>3. CASE UNCHANGED allVars
  BY <1>3 DEF allVars
<1>4. QED
  BY <1>1, <1>2, <1>3 DEF CheckNext

(* The check cache's variables have their types.                           *)
THEOREM CheckTypes == CheckSpec => []CheckTypeOK
<1>1. CheckTypeOK /\ [CheckNext]_allVars => CheckTypeOK'
  BY CheckTypeStep
<1>2. QED
  BY CheckTypeInit, <1>1, PTL DEF CheckSpec

(* CachedCheckResolver never serves an answer stored before a write whose  *)
(* time the controller had published when the request began, provided the  *)
(* check cache's TTL is at most the controller's: the bound without which  *)
(* DetermineInvalidationTime forgets the write too early.                  *)
THEOREM PublishedIsHonoured ==
    QueryTTL <= ControllerTTL => (CheckSpec => []PublishedWritesAreHonoured)
<1> SUFFICES ASSUME QueryTTL <= ControllerTTL
             PROVE  CheckSpec => []PublishedWritesAreHonoured
  OBVIOUS
<1>1. CheckInit => CheckInv
  <2> SUFFICES ASSUME CheckInit PROVE CheckInv
    OBVIOUS
  <2>1. CheckTypeOK
    BY CheckTypeInit
  <2>2. Remembers
    BY ControllerAssumption DEF CheckInit, ControllerInit, Remembers, NoEntry, AtStart, StartTime
  <2>3. Judges /\ PublishedWritesAreHonoured
    BY QueryAssumption DEF CheckInit, Judges, PublishedWritesAreHonoured, NoAnswer
  <2>4. QED
    BY <2>1, <2>2, <2>3 DEF CheckInv
<1>2. CheckInv /\ [CheckNext]_allVars => CheckInv'
  BY CheckTypeStep, RemembersStep, JudgesStep, HonouredStep DEF CheckInv
<1>3. CheckInv => PublishedWritesAreHonoured
  BY DEF CheckInv
<1>4. QED
  BY <1>1, <1>2, <1>3, PTL DEF CheckSpec

(* Under the requests the controller is what CacheController says of it:   *)
(* every step of CheckNext is one of its steps, leaves it alone, or only   *)
(* takes time, which the bound of Tick does not limit.                     *)
ClockRuns == now' = now + 1 /\ UNCHANGED <<txVars, changelogEntry, storeMark, mark, inflightVars>>

ControllerOnly == [][ControllerNext \/ ClockRuns]_controllerVars

LEMMA ServeIsControllerStep ==
    ASSUME NEW r \in Requests, Serve(r)
    PROVE  [ControllerNext \/ ClockRuns]_controllerVars
<1>1. ASSUME NEW k \in Checks, NEW higher \in BOOLEAN, Execute(r, k, higher)
      PROVE  Ask \/ UNCHANGED controllerVars
  BY <1>1 DEF Execute, Keeps, Ask, controllerVars
<1>2. CASE Store(r)
  BY <1>2 DEF Store, ClockRuns
<1>3. CASE Lookup(r) \/ Resolve(r) \/ Return(r)
  BY <1>3 DEF Lookup, Resolve, Return, Keeps, controllerVars
<1> QED BY <1>1, <1>2, <1>3 DEF Serve, ControllerNext

LEMMA ClockKeepsControllerInv ==
    ASSUME ControllerInv, ClockRuns
    PROVE  ControllerInv'
<1>1. ControllerTypeOK'
  BY DEF ControllerInv, ControllerTypeOK, ClockRuns, txVars, inflightVars
<1>2. Progress'
  BY ControllerAssumption
  DEF ControllerInv, ControllerTypeOK, CacheEntry, Progress, Covered, ClockRuns, txVars, inflightVars
<1> QED BY <1>1, <1>2 DEF ControllerInv

(* The requests of CheckQuery.Execute and CachedCheckResolver compose with *)
(* the controller: what they do to its state is what it offers them.       *)
THEOREM RequestsRefineController == CheckSpec => ControllerInit /\ ControllerOnly
<1>1. CheckInit => ControllerInit BY DEF CheckInit
<1>2. [CheckNext]_allVars => [ControllerNext \/ ClockRuns]_controllerVars
  <2>1. CASE Control BY <2>1, ControlStep
  <2>2. ASSUME NEW r \in Requests, Serve(r) PROVE [ControllerNext \/ ClockRuns]_controllerVars
    BY <2>2, ServeIsControllerStep
  <2>3. CASE UNCHANGED allVars BY <2>3 DEF allVars
  <2> QED BY <2>1, <2>2, <2>3 DEF CheckNext
<1> QED BY <1>1, <1>2, PTL DEF CheckSpec, ControllerOnly

(* The same of an invalidation that runs among Check requests.             *)
THEOREM InvalidationMarksUnderRequests == CheckSpec => []ChangesAreMarked
<1>1. ControllerInit => ControllerInv
  BY ControllerTypeInit, ControllerAssumption
  DEF ControllerInit, ControllerInv, Progress, AtStart, StartTime
<1>2. ControllerInv /\ [ControllerNext \/ ClockRuns]_controllerVars => ControllerInv'
  BY ControllerInvStep, ClockKeepsControllerInv
<1>3. ControllerInv => ChangesAreMarked
  BY DEF ControllerInv, Progress, Covered, ChangesAreMarked, RecentOfPage, Ends, Marked
<1> QED BY <1>1, <1>2, <1>3, RequestsRefineController, PTL DEF ControllerOnly

(* What a request with HIGHER_CONSISTENCY has come to: it passes by the    *)
(* cache, and until it reads, the writes it must see are committed.        *)
Bypasses(q, at) ==
    q.higher => /\ at \notin {"lookup", "hit"}
                /\ at = "resolve" => q.past \subseteq committed
                /\ at \in {"store", "resolved"} => q.past \subseteq q.answer.seen

FreshInv == CheckTypeOK /\ \A r \in Requests : Bypasses(request[r], step[r])

LEMMA CommitsStay ==
    ASSUME CheckTypeOK, [CheckNext]_allVars
    PROVE  committed \subseteq committed'
<1> USE DEF committed
<1>1. CASE Control
  <2> USE DEF CheckTypeOK, ControllerTypeOK, txVars
  <2>1. ASSUME NEW t \in Txs, StartWrite(t) \/ InsertChange(t) PROVE committed \subseteq committed'
    BY <2>1 DEF StartWrite, InsertChange
  <2>2. ASSUME NEW t \in Txs, CommitWrite(t) PROVE committed \subseteq committed'
    BY <2>2 DEF CommitWrite
  <2>3. CASE Tick \/ ChangelogEntryExpires \/ Ask
    BY <2>3 DEF Tick, ChangelogEntryExpires, Ask
  <2>4. CASE Background
    BY <2>4 DEF Background, FindTimesOut, FindFails, FindChanges, NothingNew, InvalidateFull,
                InvalidatePartial, MarkEntity, Publish, Release
  <2> QED BY <1>1, <2>1, <2>2, <2>3, <2>4 DEF Control, ControllerNext, Environment
<1>2. ASSUME NEW r \in Requests, Serve(r) PROVE committed \subseteq committed'
  BY <1>2, ServeKeepsController DEF txVars
<1>3. CASE UNCHANGED allVars
  BY <1>3 DEF allVars, controllerVars, txVars
<1> QED BY <1>1, <1>2, <1>3 DEF CheckNext

LEMMA FreshStep ==
    ASSUME FreshInv, [CheckNext]_allVars
    PROVE  FreshInv'
<1>1. CheckTypeOK /\ CheckTypeOK' /\ committed \subseteq committed'
  BY CheckTypeStep, CommitsStay DEF FreshInv
<1>2. \A q, at : Bypasses(q, at) => Bypasses(q, at)'
  BY <1>1 DEF Bypasses
<1>3. ASSUME NEW r \in Requests, UNCHANGED <<request[r], step[r]>>
      PROVE  Bypasses(request[r], step[r])'
  <2>1. PICK q, at : q = request[r] /\ at = step[r] OBVIOUS
  <2>2. Bypasses(q, at)' BY <1>2, <2>1 DEF FreshInv
  <2> QED BY <1>3, <2>1, <2>2 DEF Bypasses
<1>4. CASE UNCHANGED <<request, step>>
  BY <1>1, <1>3, <1>4 DEF FreshInv
<1>5. ASSUME NEW r \in Requests, Serve(r) PROVE FreshInv'
  <2> USE DEF CheckTypeOK
  <2>1. ASSUME NEW s \in Requests \ {r} PROVE Bypasses(request[s], step[s])'
    <3>1. request'[s] = request[s] /\ step'[s] = step[s]
      BY <1>1, <1>5 DEF Serve, Execute, Lookup, Resolve, Store, Return
    <3> QED BY <1>3, <3>1
  <2>2. Bypasses(request[r], step[r])'
    <3> USE DEF Bypasses
    <3>1. ASSUME NEW k \in Checks, NEW higher \in BOOLEAN, Execute(r, k, higher)
          PROVE  Bypasses(request[r], step[r])'
      <4>1. /\ request'[r].higher = higher /\ request'[r].past = committed
            /\ step'[r] = IF higher THEN "resolve" ELSE "lookup"
        BY <1>1, <3>1 DEF Execute, TryCache
      <4> QED BY <1>1, <4>1
    <3>2. CASE Lookup(r)
      <4>1. step[r] = "lookup" /\ ~request[r].higher
        BY <3>2 DEF Lookup, FreshInv
      <4>2. request'[r].higher = request[r].higher
        BY <1>1, <3>2 DEF Lookup, Call
      <4> QED BY <4>1, <4>2
    <3>3. CASE Resolve(r)
      <4>1. CASE step'[r] = "idle" BY <4>1
      <4>2. CASE step'[r] \in {"store", "resolved"}
        <5>1. /\ request'[r].higher = request[r].higher /\ request'[r].past = request[r].past
              /\ request'[r].answer.seen = committed
          BY <1>1, <3>3, <4>2 DEF Resolve, Call, Answer
        <5>2. request[r].higher => request[r].past \subseteq committed
          BY <3>3 DEF Resolve, FreshInv
        <5> QED BY <4>2, <5>1, <5>2
      <4> QED BY <1>1, <3>3, <4>1, <4>2 DEF Resolve
    <3>4. CASE Store(r)
      <4>1. request' = request /\ step[r] = "store" /\ step'[r] = "resolved"
        BY <1>1, <3>4 DEF Store
      <4> QED BY <4>1 DEF FreshInv
    <3>5. CASE Return(r)
      BY <1>1, <3>5 DEF Return
    <3> QED BY <1>5, <3>1, <3>2, <3>3, <3>4, <3>5 DEF Serve
  <2> QED BY <1>1, <2>1, <2>2 DEF FreshInv
<1> QED BY <1>4, <1>5 DEF CheckNext, Control, checkVars, allVars

(* A Check with HIGHER_CONSISTENCY never answers from the cache, and its   *)
(* answer has seen every write that was committed when it began, whatever  *)
(* is written, stored and invalidated meanwhile.                           *)
THEOREM HigherConsistencyStaysFresh == CheckSpec => []HigherConsistencyIsFresh
<1>1. CheckInit => FreshInv
  BY CheckTypeInit DEF CheckInit, FreshInv, Bypasses, NoCall
<1>2. FreshInv => HigherConsistencyIsFresh
  BY DEF FreshInv, Bypasses, HigherConsistencyIsFresh
<1> QED BY <1>1, <1>2, FreshStep, PTL DEF CheckSpec

-----------------------------------------------------------------------------
(* The iterator cache. *)

(* Writes committed before since are among those seen, where ca are the    *)
(* times of the commits.                                                   *)
SeesAll(seen, since, ca) == \A t \in Txs : ca[t] # 0 /\ ca[t] < since => t \in seen

(* The fields f of an iterator at a stage, at time n: it has read part of  *)
(* the rows of the moment its query ran, all of them when it flushes, and  *)
(* while it keeps them they are fewer than fit.                            *)
Good(f, at, n, ca) ==
    /\ IsFiniteSet(f.tuples)
    /\ f.ran => f.tuples \subseteq Rows(f.query, f.seen) /\ SeesAll(f.seen, f.initializedAt, ca)
    /\ ~f.ran => f.tuples = {}
    /\ f.keep => Cardinality(f.tuples) < MaxResultSize
    /\ f.initializedAt <= n
    /\ at \in {"stopping", "buffered", "flushing"} => f.keep
    /\ at = "flushing" => f.ran /\ f.tuples = Rows(f.query, f.seen)

(* An entry e for q at time n.                                             *)
GoodEntry(e, q, n, ca) ==
    /\ e.since <= n
    /\ e.at # 0 => /\ e.tuples = Rows(q, e.seen) /\ SeesAll(e.seen, e.since, ca)
                   /\ Cardinality(e.tuples) < MaxResultSize

Clock == now \in Nat /\ committedAt \in [Txs -> Nat]

ItersOK ==
    /\ stage \in [Iterators -> Steps] /\ iter \in [Iterators -> Fields]
    /\ \A i \in Iterators : /\ Good(iter[i], stage[i], now, committedAt)
                            /\ stage[i] = "closed" => iter[i] = Closed

CachedOK ==
    /\ cached \in [Queries -> Entry]
    /\ \A q \in Queries : GoodEntry(cached[q], q, now, committedAt)

FlightOK == flight \subseteq Iterators /\ \A i \in flight : stage[i] \in {"draining", "flushing", "unmarking"}

BoundsOK == opened \in 0..MaxOpens /\ condemned \subseteq Queries \X Nat

IterInv == Clock /\ ItersOK /\ CachedOK /\ FlightOK /\ BoundsOK

-----------------------------------------------------------------------------
(* Time passes and writes commit, not before now. *)

Later ==
    /\ now' \in Nat /\ now <= now' /\ committedAt' \in [Txs -> Nat]
    /\ \A t \in Txs : committedAt'[t] \in {committedAt[t], now}

LEMMA SeesStill ==
    ASSUME Clock, Later, NEW seen, NEW since \in Nat, since <= now, SeesAll(seen, since, committedAt)
    PROVE  SeesAll(seen, since, committedAt')
BY DEF Clock, Later, SeesAll

LEMMA GoodStill ==
    ASSUME Clock, Later, NEW f \in Fields, NEW at, Good(f, at, now, committedAt)
    PROVE  Good(f, at, now', committedAt')
<1>1. f.initializedAt \in Nat /\ f.initializedAt <= now /\ f.initializedAt <= now'
  BY DEF Fields, Good, Clock, Later
<1>2. f.ran => SeesAll(f.seen, f.initializedAt, committedAt') BY <1>1, SeesStill DEF Good
<1> QED BY <1>1, <1>2 DEF Good

LEMMA EntryStill ==
    ASSUME Clock, Later, NEW e \in Entry, NEW q, GoodEntry(e, q, now, committedAt)
    PROVE  GoodEntry(e, q, now', committedAt')
<1>1. e.since \in Nat /\ e.since <= now /\ e.since <= now'
  BY DEF Entry, GoodEntry, Clock, Later
<1>2. e.at # 0 => SeesAll(e.seen, e.since, committedAt') BY <1>1, SeesStill DEF GoodEntry
<1> QED BY <1>1, <1>2 DEF GoodEntry

LEMMA CachedStays ==
    ASSUME IterInv, Later, UNCHANGED cached
    PROVE  CachedOK'
<1>1. ASSUME NEW q \in Queries PROVE cached[q] \in Entry /\ GoodEntry(cached[q], q, now, committedAt)
  BY DEF IterInv, CachedOK
<1> QED BY <1>1, EntryStill DEF IterInv, CachedOK

(* The controller and the writers are all that Later says.                 *)
LEMMA ControllerIsLater ==
    ASSUME Clock, [ControllerNext]_controllerVars
    PROVE  Later
<1> USE DEF Clock, Later
<1>1. ASSUME NEW t \in Txs, StartWrite(t) \/ InsertChange(t) PROVE Later
  BY <1>1 DEF StartWrite, InsertChange
<1>2. ASSUME NEW t \in Txs, CommitWrite(t) PROVE Later
  BY <1>2 DEF CommitWrite
<1>3. CASE Tick \/ ChangelogEntryExpires BY <1>3 DEF Tick, ChangelogEntryExpires, txVars
<1>4. CASE Background
  BY <1>4 DEF Background, FindTimesOut, FindFails, FindChanges, NothingNew, InvalidateFull,
              InvalidatePartial, MarkEntity, Publish, Release, txVars
<1>5. CASE Ask BY <1>5 DEF Ask, txVars
<1>6. CASE UNCHANGED controllerVars BY <1>6 DEF controllerVars, txVars
<1> QED BY <1>1, <1>2, <1>3, <1>4, <1>5, <1>6 DEF ControllerNext, Environment

LEMMA QuietIsLater == Clock /\ UNCHANGED <<now, txVars>> => Later
BY DEF Clock, Later, txVars

-----------------------------------------------------------------------------
(* Steps of iterators. *)

LEMMA ClosedIsGood ==
    ASSUME NEW n \in Nat, NEW ca
    PROVE  Closed \in Fields /\ Good(Closed, "closed", n, ca)
<1>1. (CHOOSE q \in Queries : TRUE) \in Queries BY IteratorAssumption
<1>2. Closed \in Fields BY <1>1 DEF Closed, Fields
<1>3. IsFiniteSet({}) BY FS_EmptySet
<1> QED BY <1>2, <1>3 DEF Closed, Good

LEMMA ItersStay ==
    ASSUME IterInv, Later, UNCHANGED <<stage, iter>>
    PROVE  ItersOK'
<1>1. ASSUME NEW i \in Iterators
      PROVE  iter[i] \in Fields /\ Good(iter[i], stage[i], now, committedAt)
  BY DEF IterInv, ItersOK
<1> QED BY <1>1, GoodStill DEF IterInv, ItersOK

(* One iterator moves.                                                     *)
LEMMA OneMoves ==
    ASSUME IterInv, Later, NEW i \in Iterators, NEW to \in Steps, NEW f \in Fields,
           stage' = [stage EXCEPT ![i] = to], iter' = [iter EXCEPT ![i] = f],
           Good(f, to, now', committedAt'), to = "closed" => f = Closed
    PROVE  ItersOK'
<1>1. stage' \in [Iterators -> Steps] /\ iter' \in [Iterators -> Fields] BY DEF IterInv, ItersOK
<1>2. ASSUME NEW j \in Iterators
      PROVE  Good(iter'[j], stage'[j], now', committedAt') /\ (stage'[j] = "closed" => iter'[j] = Closed)
  <2>1. CASE j = i BY <2>1 DEF IterInv, ItersOK
  <2>2. CASE j # i
    <3>1. iter'[j] = iter[j] /\ stage'[j] = stage[j] /\ iter[j] \in Fields BY <2>2 DEF IterInv, ItersOK
    <3>2. Good(iter[j], stage[j], now, committedAt) /\ (stage[j] = "closed" => iter[j] = Closed)
      BY DEF IterInv, ItersOK
    <3>3. Good(iter[j], stage[j], now', committedAt') BY <3>1, <3>2, GoodStill DEF IterInv
    <3> QED BY <3>1, <3>2, <3>3
  <2> QED BY <2>1, <2>2
<1> QED BY <1>1, <1>2 DEF ItersOK

(* Some are closed.                                                        *)
LEMMA SomeClose ==
    ASSUME IterInv, Later, NEW S, Close(S)
    PROVE  ItersOK' /\ \A i \in Iterators \ S : stage'[i] = stage[i]
<1>1. ASSUME NEW j \in Iterators
      PROVE  /\ iter'[j] \in Fields /\ stage'[j] \in Steps
             /\ Good(iter'[j], stage'[j], now', committedAt') /\ (stage'[j] = "closed" => iter'[j] = Closed)
  <2>1. CASE j \in S
    <3>1. iter'[j] = Closed /\ stage'[j] = "closed" BY <2>1 DEF Close
    <3> QED BY <3>1, ClosedIsGood DEF Later, Steps
  <2>2. CASE j \notin S
    <3>1. iter'[j] = iter[j] /\ stage'[j] = stage[j] BY <2>2 DEF Close
    <3>2. /\ Good(iter[j], stage[j], now, committedAt) /\ (stage[j] = "closed" => iter[j] = Closed)
          /\ iter[j] \in Fields /\ stage[j] \in Steps
      BY DEF IterInv, ItersOK
    <3>3. Good(iter[j], stage[j], now', committedAt') BY <3>2, GoodStill DEF IterInv
    <3> QED BY <3>1, <3>2, <3>3
  <2> QED BY <2>1, <2>2
<1>2. stage' = [j \in Iterators |-> stage'[j]] /\ iter' = [j \in Iterators |-> iter'[j]] BY DEF Close
<1>3. \A i \in Iterators \ S : stage'[i] = stage[i] BY DEF Close
<1> QED BY <1>1, <1>2, <1>3 DEF ItersOK

(* An entry is dropped at most.                                            *)
LEMMA SweptIsGood ==
    ASSUME IterInv, Later, NEW q \in Queries, cached' = Swept(q)
    PROVE  CachedOK'
<1>1. CASE UNCHANGED cached BY <1>1, CachedStays
<1>2. CASE cached' = [cached EXCEPT ![q] = NoTuples]
  <2>1. NoTuples \in Entry /\ GoodEntry(NoTuples, q, now', committedAt')
    BY DEF NoTuples, Entry, GoodEntry, Later
  <2>2. cached' \in [Queries -> Entry] BY <1>2, <2>1 DEF IterInv, CachedOK
  <2>3. ASSUME NEW p \in Queries PROVE GoodEntry(cached'[p], p, now', committedAt')
    <3>1. CASE p = q BY <1>2, <2>1, <3>1 DEF IterInv, CachedOK
    <3>2. CASE p # q
      <4>1. cached'[p] = cached[p] /\ cached[p] \in Entry /\ GoodEntry(cached[p], p, now, committedAt)
        BY <1>2, <3>2 DEF IterInv, CachedOK
      <4> QED BY <4>1, EntryStill DEF IterInv
    <3> QED BY <3>1, <3>2
  <2> QED BY <2>2, <2>3 DEF CachedOK
<1> QED BY <1>1, <1>2 DEF Swept

(* What an iterator has when its query has run.                            *)
LEMMA RanFacts ==
    ASSUME IterInv, NEW i \in Iterators
    PROVE  /\ Ran(i) \in Fields /\ Ran(i).ran = TRUE /\ Ran(i).seen = Sees(i)
           /\ Ran(i).query = iter[i].query /\ Ran(i).tuples = iter[i].tuples /\ Ran(i).keep = iter[i].keep
           /\ Ran(i).initializedAt = iter[i].initializedAt
           /\ iter[i].tuples \subseteq Rows(iter[i].query, Sees(i))
           /\ SeesAll(Sees(i), iter[i].initializedAt, committedAt)
<1>1. iter[i] \in Fields /\ Good(iter[i], stage[i], now, committedAt) BY DEF IterInv, ItersOK
<1>2. iter[i].seen \in SUBSET Txs /\ iter[i].ran \in BOOLEAN BY <1>1 DEF Fields
<1>3. Sees(i) \in SUBSET Txs BY <1>2 DEF Sees, committed
<1>4. /\ iter[i].tuples \subseteq Rows(iter[i].query, Sees(i))
      /\ SeesAll(Sees(i), iter[i].initializedAt, committedAt)
  BY <1>1 DEF Good, Sees, SeesAll, committed
<1>5. Ran(i) = [iter[i] EXCEPT !.ran = TRUE, !.seen = Sees(i)] BY DEF Ran
<1> HIDE DEF Sees
<1> QED BY <1>1, <1>3, <1>4, <1>5 DEF Fields

LEMMA RanIsGood ==
    ASSUME IterInv, NEW i \in Iterators, NEW at,
           at \in {"stopping", "buffered", "flushing"} => iter[i].keep,
           at = "flushing" => Left(i) = {}
    PROVE  Ran(i) \in Fields /\ Good(Ran(i), at, now, committedAt)
<1>1. Good(iter[i], stage[i], now, committedAt) BY DEF IterInv, ItersOK
<1>2. at = "flushing" => iter[i].tuples = Rows(iter[i].query, Sees(i)) BY RanFacts DEF Left
<1> QED BY <1>1, <1>2, RanFacts DEF Good

(* ... and when it has read a tuple more.                                  *)
LEMMA ReadIsGood ==
    ASSUME IterInv, NEW i \in Iterators, ReadTuple(i), NEW at,
           at \notin {"stopping", "buffered", "flushing"}
    PROVE  \E f \in Fields : iter' = [iter EXCEPT ![i] = f] /\ Good(f, at, now, committedAt)
<1> DEFINE f == [Ran(i) EXCEPT !.tuples = @ \cup {NextTuple(i)}, !.keep = Keep(i)]
<1>1. Good(iter[i], stage[i], now, committedAt) /\ iter[i] \in Fields BY DEF IterInv, ItersOK
<1>2. NextTuple(i) \in Left(i) BY DEF ReadTuple, NextTuple
<1>3. NextTuple(i) \in Rows(iter[i].query, Sees(i)) /\ NextTuple(i) \notin iter[i].tuples BY <1>2 DEF Left
<1>4. iter[i].tuples \in SUBSET Txs /\ iter[i].keep \in BOOLEAN BY <1>1 DEF Fields
<1>5. Sees(i) \in SUBSET Txs BY RanFacts DEF Fields
<1>6. NextTuple(i) \in Txs BY <1>3, <1>5 DEF Rows
<1> HIDE DEF NextTuple
<1>7. f \in Fields /\ f.ran = TRUE /\ f.seen = Sees(i) /\ f.query = iter[i].query
      /\ f.tuples = iter[i].tuples \cup {NextTuple(i)} /\ f.keep = Keep(i)
      /\ f.initializedAt = iter[i].initializedAt
  <2>1. Keep(i) \in BOOLEAN /\ iter[i].tuples \cup {NextTuple(i)} \in SUBSET Txs BY <1>4, <1>6 DEF Keep
  <2> QED BY <2>1, RanFacts DEF Fields
<1>8. IsFiniteSet(iter[i].tuples) BY <1>1 DEF Good
<1>9. /\ IsFiniteSet(iter[i].tuples \cup {NextTuple(i)})
      /\ Cardinality(iter[i].tuples \cup {NextTuple(i)}) = Cardinality(iter[i].tuples) + 1
  BY <1>3, <1>8, FS_AddElement
<1>10. Good(f, at, now, committedAt)
  <2> HIDE DEF f
  <2>1. f.keep => Cardinality(f.tuples) < MaxResultSize BY <1>7, <1>9 DEF Keep
  <2>2. f.tuples \subseteq Rows(f.query, f.seen) BY <1>3, <1>7, RanFacts
  <2> QED BY <1>1, <1>7, <1>9, <2>1, <2>2, RanFacts DEF Good
<1>11. iter' = [iter EXCEPT ![i] = f] BY DEF ReadTuple
<1> QED BY <1>7, <1>10, <1>11

LEMMA CachedAndIters == IterInv /\ ItersOK' /\ CachedOK' /\ FlightOK' /\ Later /\ UNCHANGED <<opened, condemned>> => IterInv'
BY DEF IterInv, BoundsOK, Clock, Later

(* The steps of a caller.                                                  *)
LEMMA OpenStep ==
    ASSUME IterInv, NEW i \in Iterators, NEW q \in Queries, Open(i, q)
    PROVE  IterInv'
<1>0. now \in Nat /\ stage[i] = "closed" /\ iter[i] = Closed /\ Closed \in Fields
  BY ClosedIsGood DEF Open, IterInv, ItersOK, Clock
<1>1. Later BY <1>0 DEF Open, Later, IterInv, Clock, txVars
<1>2. CachedOK' BY <1>1, SweptIsGood DEF Open
<1>3. opened' \in 0..MaxOpens /\ condemned' \subseteq Queries \X Nat
  BY IteratorAssumption DEF Open, IterInv, BoundsOK
<1>4. flight' = flight /\ i \notin flight BY <1>0 DEF Open, IterInv, FlightOK
<1>5. CASE UNCHANGED <<stage, iter>>
  <2>1. ItersOK' BY <1>1, <1>5, ItersStay
  <2> QED BY <1>1, <1>2, <1>3, <1>4, <1>5, <2>1 DEF IterInv, BoundsOK, FlightOK, Clock, Later
<1>6. ASSUME NEW to \in {"cached", "open"}, NEW f \in Fields, stage' = [stage EXCEPT ![i] = to],
             iter' = [iter EXCEPT ![i] = f], f.ran = FALSE, f.tuples = {}, f.initializedAt <= now'
      PROVE  IterInv'
  <2>1. IsFiniteSet({}) /\ Cardinality({}) = 0 BY FS_EmptySet
  <2>2. Good(f, to, now', committedAt') BY <1>6, <2>1, IteratorAssumption DEF Good
  <2>3. ItersOK' BY <1>1, <1>6, <2>2, OneMoves DEF Steps
  <2>4. FlightOK' BY <1>4, <1>6 DEF IterInv, FlightOK, ItersOK
  <2> QED BY <1>1, <1>2, <1>3, <2>3, <2>4 DEF IterInv, BoundsOK, Clock, Later
<1>7. CASE Found(q)
  <2> DEFINE f == [Closed EXCEPT !.query = q, !.hit = cached[q].at]
  <2>1. cached[q].at \in Nat BY DEF IterInv, CachedOK, Entry
  <2>2. stage' = [stage EXCEPT ![i] = "cached"] /\ iter' = [iter EXCEPT ![i].query = q, ![i].hit = cached[q].at]
    BY <1>7 DEF Open, Step
  <2>3. iter' = [iter EXCEPT ![i] = f] BY <1>0, <2>2 DEF IterInv, ItersOK
  <2>4. f \in Fields BY <1>0, <2>1 DEF Fields
  <2>5. f.ran = FALSE /\ f.tuples = {} /\ f.initializedAt = 0 BY DEF Closed
  <2>6. 0 <= now' BY <1>1 DEF Later
  <2> HIDE DEF f
  <2> QED BY <1>6, <2>2, <2>3, <2>4, <2>5, <2>6
<1>8. CASE ~Found(q) /\ ~UNCHANGED <<stage, iter>>
  <2> DEFINE f == [Closed EXCEPT !.query = q, !.initializedAt = now', !.keep = TRUE]
  <2>1. /\ stage' = [stage EXCEPT ![i] = "open"]
        /\ iter' = [iter EXCEPT ![i].query = q, ![i].initializedAt = now', ![i].keep = TRUE]
    BY <1>8 DEF Open, Step
  <2>2. iter' = [iter EXCEPT ![i] = f] BY <1>0, <2>1 DEF IterInv, ItersOK
  <2>3. f \in Fields BY <1>0, <1>1 DEF Fields, Later
  <2>4. f.ran = FALSE /\ f.tuples = {} /\ f.initializedAt = now' BY DEF Closed
  <2>5. now' <= now' BY <1>1 DEF Later
  <2> HIDE DEF f
  <2> QED BY <1>6, <2>1, <2>2, <2>3, <2>4, <2>5
<1> QED BY <1>5, <1>7, <1>8 DEF Open

(* One iterator moves and nothing else happens.                            *)
LEMMA QuietMove ==
    ASSUME IterInv, Quiet, UNCHANGED cached, NEW i \in Iterators, NEW to \in Steps, NEW f \in Fields,
           stage' = [stage EXCEPT ![i] = to], iter' = [iter EXCEPT ![i] = f],
           Good(f, to, now, committedAt), to # "closed",
           flight' \subseteq flight \cup {i},
           i \in flight' => to \in {"draining", "flushing", "unmarking"}
    PROVE  IterInv'
<1>1. Later /\ now' = now /\ committedAt' = committedAt BY QuietIsLater DEF Quiet, IterInv, txVars
<1>2. CachedOK' BY <1>1, CachedStays
<1>3. ItersOK' BY <1>1, OneMoves
<1>4. FlightOK' BY DEF IterInv, FlightOK, ItersOK
<1> QED BY <1>1, <1>2, <1>3, <1>4, CachedAndIters DEF Quiet

(* ... or some are closed.                                                 *)
LEMMA QuietClose ==
    ASSUME IterInv, Quiet, CachedOK', NEW S, Close(S), flight' \subseteq flight \ S
    PROVE  IterInv'
<1>1. Later BY QuietIsLater DEF Quiet, IterInv
<1>2. ItersOK' /\ \A i \in Iterators \ S : stage'[i] = stage[i] BY <1>1, SomeClose
<1>3. FlightOK' BY <1>2 DEF IterInv, FlightOK
<1> QED BY <1>1, <1>2, <1>3, CachedAndIters DEF Quiet

(* An iterator as it is, and at a stage.                                   *)
LEMMA HasFields ==
    ASSUME IterInv, NEW i \in Iterators
    PROVE  /\ iter[i] \in Fields /\ stage[i] \in Steps /\ Good(iter[i], stage[i], now, committedAt)
           /\ iter = [iter EXCEPT ![i] = iter[i]] /\ stage = [stage EXCEPT ![i] = stage[i]]
           /\ iter[i].query \in Queries
BY DEF IterInv, ItersOK, Fields

LEMMA NextStep ==
    ASSUME IterInv, NEW i \in Iterators, Next(i)
    PROVE  IterInv'
<1>1. stage[i] = "open" /\ stage' = [stage EXCEPT ![i] = "open"] /\ Quiet /\ UNCHANGED <<cached, flight>>
      /\ i \notin flight
  BY HasFields DEF Next, IterInv, FlightOK
<1>2. ASSUME NEW f \in Fields, iter' = [iter EXCEPT ![i] = f], Good(f, "open", now, committedAt)
      PROVE  IterInv'
  BY <1>1, <1>2, QuietMove DEF Steps
<1>3. CASE ReadTuple(i) BY <1>2, <1>3, ReadIsGood
<1>4. CASE iter' = [iter EXCEPT ![i] = Ran(i)]
  <2>1. Ran(i) \in Fields /\ Good(Ran(i), "open", now, committedAt) BY RanIsGood
  <2> QED BY <1>2, <1>4, <2>1
<1>5. CASE iter' = [iter EXCEPT ![i].keep = FALSE]
  <2> DEFINE f == [iter[i] EXCEPT !.keep = FALSE]
  <2>1. iter' = [iter EXCEPT ![i] = f] BY <1>5
  <2>2. /\ f \in Fields /\ f.keep = FALSE /\ f.query = iter[i].query /\ f.ran = iter[i].ran
        /\ f.seen = iter[i].seen /\ f.tuples = iter[i].tuples /\ f.initializedAt = iter[i].initializedAt
    BY HasFields DEF Fields
  <2> HIDE DEF f
  <2>3. Good(f, "open", now, committedAt)
    <3>1. Good(iter[i], stage[i], now, committedAt) BY HasFields
    <3> QED BY <2>2, <3>1 DEF Good
  <2> QED BY <1>2, <2>1, <2>2, <2>3
<1> QED BY <1>3, <1>4, <1>5 DEF Next

LEMMA StopStep ==
    ASSUME IterInv, NEW i \in Iterators, StopEmpty(i) \/ Stop(i)
    PROVE  IterInv'
<1>1. i \notin flight BY DEF StopEmpty, Stop, IterInv, FlightOK
<1>2. CASE StopEmpty(i)
  <2>1. CachedOK' BY <1>2, CachedStays, QuietIsLater DEF StopEmpty, Quiet, IterInv
  <2> QED BY <1>1, <1>2, <2>1, QuietClose DEF StopEmpty
<1>3. CASE Stop(i)
  <2>1. Good(iter[i], "stopping", now, committedAt) BY <1>3, HasFields DEF Stop, Good
  <2>2. iter' = [iter EXCEPT ![i] = iter[i]] BY <1>3, HasFields DEF Stop
  <2> QED BY <1>1, <1>3, <2>1, <2>2, HasFields, QuietMove DEF Stop, Step, Steps
<1> QED BY <1>2, <1>3

(* The steps of the goroutine that Stop starts.                            *)
LEMMA VetStep ==
    ASSUME IterInv, NEW i \in Iterators, Vet(i)
    PROVE  IterInv'
<1>1. i \notin flight /\ Quiet /\ UNCHANGED flight BY DEF Vet, IterInv, FlightOK
<1>2. Later /\ now' = now /\ committedAt' = committedAt
  BY <1>1, QuietIsLater DEF Quiet, IterInv, txVars
<1>3. CachedOK' BY <1>2, HasFields, SweptIsGood DEF Vet
<1>4. CASE Close({i}) BY <1>1, <1>3, <1>4, QuietClose
<1>5. CASE Step(i, "buffered") /\ UNCHANGED iter
  <2>1. Good(iter[i], "buffered", now, committedAt) BY HasFields DEF Vet, Good
  <2>2. ItersOK'
    <3>1. iter' = [iter EXCEPT ![i] = iter[i]] /\ stage' = [stage EXCEPT ![i] = "buffered"]
      BY <1>5, HasFields DEF Step
    <3> QED BY <1>2, <2>1, <3>1, HasFields, OneMoves DEF Steps
  <2>3. FlightOK' BY <1>1, <1>5 DEF Step, IterInv, FlightOK, ItersOK
  <2> QED BY <1>1, <1>2, <1>3, <2>2, <2>3, CachedAndIters DEF Quiet
<1> QED BY <1>4, <1>5 DEF Vet

LEMMA HeadStep ==
    ASSUME IterInv, NEW i \in Iterators, Head(i)
    PROVE  IterInv'
<1>1. stage[i] = "buffered" /\ i \notin flight /\ Quiet /\ UNCHANGED <<cached, flight>>
  BY DEF Head, IterInv, FlightOK
<1>2. iter[i].keep BY <1>1, HasFields DEF Good
<1>3. CASE iter' = [iter EXCEPT ![i] = Ran(i)] /\ Step(i, IF Left(i) = {} THEN "flushing" ELSE "joining")
  <2> DEFINE to == IF Left(i) = {} THEN "flushing" ELSE "joining"
  <2>1. to \in Steps /\ to # "closed" /\ (to = "flushing" => Left(i) = {}) BY DEF Steps
  <2>2. stage' = [stage EXCEPT ![i] = to] BY <1>3 DEF Step
  <2> HIDE DEF to
  <2>3. Ran(i) \in Fields /\ Good(Ran(i), to, now, committedAt) BY <1>2, <2>1, RanIsGood
  <2> QED BY <1>1, <1>3, <2>1, <2>2, <2>3, QuietMove
<1>4. CASE Step(i, "joining") /\ UNCHANGED iter
  <2>1. Good(iter[i], "joining", now, committedAt) BY HasFields DEF Good
  <2>2. iter' = [iter EXCEPT ![i] = iter[i]] BY <1>4, HasFields
  <2> QED BY <1>1, <1>4, <2>1, <2>2, HasFields, QuietMove DEF Step, Steps
<1> QED BY <1>3, <1>4 DEF Head

LEMMA DoStep ==
    ASSUME IterInv, NEW i \in Iterators, Do(i)
    PROVE  IterInv'
<1>1. i \notin flight /\ Quiet /\ UNCHANGED cached BY DEF Do, IterInv, FlightOK
<1>2. ASSUME NEW to \in {"draining", "waiting"} PROVE Good(iter[i], to, now, committedAt)
  BY HasFields DEF Good
<1>3. iter' = [iter EXCEPT ![i] = iter[i]] BY HasFields DEF Do
<1>4. CASE flight' = flight \cup {i} /\ Step(i, "draining")
  BY <1>1, <1>2, <1>3, <1>4, HasFields, QuietMove DEF Step, Steps
<1>5. CASE flight' = flight /\ Step(i, "waiting")
  BY <1>1, <1>2, <1>3, <1>5, HasFields, QuietMove DEF Step, Steps
<1> QED BY <1>4, <1>5 DEF Do

(* Those that wait are not in flight.                                      *)
LEMMA DoneStep ==
    ASSUME IterInv, NEW i \in Iterators, Done(i), Quiet, UNCHANGED cached
    PROVE  IterInv'
<1> DEFINE S == {i} \cup {j \in Iterators : /\ i \in flight
                                           /\ stage[j] = "waiting"
                                           /\ iter[j].query = iter[i].query}
<1>1. Close(S) BY DEF Done
<1>2. flight' \subseteq flight \ S BY DEF Done, IterInv, FlightOK
<1>3. CachedOK' BY CachedStays, QuietIsLater DEF Quiet, IterInv
<1> QED BY <1>1, <1>2, <1>3, QuietClose

LEMMA DrainStep ==
    ASSUME IterInv, NEW i \in Iterators, Drain(i)
    PROVE  IterInv'
<1>1. stage[i] = "draining" /\ Quiet /\ UNCHANGED cached BY DEF Drain
<1>2. CASE ReadTuple(i) /\ UNCHANGED <<stage, flight>>
  <2>1. PICK f \in Fields : iter' = [iter EXCEPT ![i] = f] /\ Good(f, "draining", now, committedAt)
    BY <1>2, ReadIsGood
  <2>2. stage' = [stage EXCEPT ![i] = "draining"] BY <1>1, <1>2, HasFields
  <2> QED BY <1>1, <1>2, <2>1, <2>2, QuietMove DEF Steps
<1>3. CASE Left(i) = {} /\ iter[i].keep /\ iter' = [iter EXCEPT ![i] = Ran(i)] /\ Step(i, "flushing")
           /\ UNCHANGED flight
  <2>1. Ran(i) \in Fields /\ Good(Ran(i), "flushing", now, committedAt) BY <1>3, RanIsGood
  <2> QED BY <1>1, <1>3, <2>1, QuietMove DEF Step, Steps
<1>4. CASE Done(i) BY <1>1, <1>4, DoneStep
<1> QED BY <1>2, <1>3, <1>4 DEF Drain

(* What flush stores is whole.                                             *)
LEMMA FlushStep ==
    ASSUME IterInv, NEW i \in Iterators, Flush(i)
    PROVE  IterInv'
<1> DEFINE q == iter[i].query
           e == [at |-> now', until |-> now' + IteratorTTL, tuples |-> iter[i].tuples,
                 seen |-> iter[i].seen, since |-> iter[i].initializedAt]
           f == [iter[i] EXCEPT !.todo = EntitiesOf[q]]
<1>1. now \in Nat /\ Later /\ committedAt' = committedAt BY DEF Flush, Later, IterInv, Clock, txVars
<1>2. /\ iter[i] \in Fields /\ Good(iter[i], "flushing", now, committedAt) /\ q \in Queries
      /\ stage[i] = "flushing"
  BY HasFields DEF Flush
<1>3. IteratorTTL \in Nat /\ EntitiesOf[q] \in SUBSET Entities BY <1>2, ControllerAssumption, IteratorAssumption
<1>4. e \in Entry
  <2> HIDE DEF e, f, q
  <2>1. now' \in Nat /\ now' + IteratorTTL \in Nat
    <3>1. now' \in Nat BY <1>1 DEF Later
    <3>2. IteratorTTL \in Nat BY <1>3
    <3>3. \A a, b \in Nat : a + b \in Nat OBVIOUS
    <3> QED BY <3>1, <3>2, <3>3
  <2>2. iter[i].tuples \in SUBSET Txs /\ iter[i].seen \in SUBSET Txs /\ iter[i].initializedAt \in Nat
    BY <1>2 DEF Fields
  <2> QED BY <2>1, <2>2 DEF Entry, e
<1>5. GoodEntry(e, q, now', committedAt')
  <2>1. iter[i].initializedAt \in Nat BY <1>2 DEF Fields
  <2> QED BY <1>1, <1>2, <2>1 DEF GoodEntry, Good, Later
<1>6. cached' = [cached EXCEPT ![q] = e] BY DEF Flush
<1>7. /\ f \in Fields /\ f.keep = iter[i].keep /\ f.query = q /\ f.ran = iter[i].ran
      /\ f.seen = iter[i].seen /\ f.tuples = iter[i].tuples /\ f.initializedAt = iter[i].initializedAt
  BY <1>2, <1>3 DEF Fields
<1>8. iter' = [iter EXCEPT ![i] = f] BY DEF Flush
<1> HIDE DEF e, f, q
<1>9. CachedOK'
  <2>1. cached' \in [Queries -> Entry] BY <1>4, <1>6 DEF IterInv, CachedOK
  <2>2. ASSUME NEW p \in Queries PROVE GoodEntry(cached'[p], p, now', committedAt')
    <3>1. CASE p = q BY <1>5, <1>6, <3>1 DEF IterInv, CachedOK
    <3>2. CASE p # q
      <4>1. cached'[p] = cached[p] /\ cached[p] \in Entry /\ GoodEntry(cached[p], p, now, committedAt)
        BY <1>6, <3>2 DEF IterInv, CachedOK
      <4> QED BY <1>1, <4>1, EntryStill DEF IterInv
    <3> QED BY <3>1, <3>2
  <2> QED BY <2>1, <2>2 DEF CachedOK
<1>10. ItersOK'
  <2>1. Good(f, "unmarking", now, committedAt) BY <1>2, <1>7 DEF Good, q
  <2>2. Good(f, "unmarking", now', committedAt') BY <1>1, <1>7, <2>1, GoodStill DEF IterInv
  <2> QED BY <1>1, <1>7, <1>8, <2>2, OneMoves DEF Flush, Step, Steps
<1>11. FlightOK' BY DEF Flush, Step, IterInv, FlightOK, ItersOK
<1> QED BY <1>1, <1>9, <1>10, <1>11, CachedAndIters DEF Flush

LEMMA UnmarkStep ==
    ASSUME IterInv, NEW i \in Iterators, NEW e \in Entities, Unmark(i, e)
    PROVE  IterInv'
<1> DEFINE f == [iter[i] EXCEPT !.todo = @ \ {e}]
<1>1. Later /\ now' = now /\ committedAt' = committedAt BY QuietIsLater DEF Unmark, IterInv, txVars
<1>2. iter[i] \in Fields /\ Good(iter[i], "unmarking", now, committedAt) /\ stage[i] = "unmarking"
  BY HasFields DEF Unmark
<1>3. /\ f \in Fields /\ f.keep = iter[i].keep /\ f.query = iter[i].query /\ f.ran = iter[i].ran
      /\ f.seen = iter[i].seen /\ f.tuples = iter[i].tuples /\ f.initializedAt = iter[i].initializedAt
  BY <1>2 DEF Fields
<1>4. iter' = [iter EXCEPT ![i] = f] BY DEF Unmark
<1> HIDE DEF f
<1>5. Good(f, "unmarking", now, committedAt) BY <1>2, <1>3 DEF Good
<1>6. stage' = [stage EXCEPT ![i] = "unmarking"] BY <1>2, HasFields DEF Unmark
<1>7. ItersOK' BY <1>1, <1>3, <1>4, <1>5, <1>6, OneMoves DEF Steps
<1>8. CachedOK' BY <1>1, CachedStays DEF Unmark
<1>9. FlightOK' BY DEF Unmark, IterInv, FlightOK
<1> QED BY <1>1, <1>7, <1>8, <1>9, CachedAndIters DEF Unmark

LEMMA IteratorControlStep ==
    ASSUME IterInv, IteratorControl
    PROVE  IterInv'
<1>1. Later BY ControllerIsLater DEF IteratorControl, IterInv
<1>2. ItersOK' BY <1>1, ItersStay DEF IteratorControl
<1>3. CachedOK' BY <1>1, CachedStays DEF IteratorControl
<1>4. FlightOK' BY DEF IteratorControl, IterInv, FlightOK
<1>5. \A q \in Queries : cached[q].at \in Nat BY DEF IterInv, CachedOK, Entry
<1>6. BoundsOK' BY <1>5 DEF IteratorControl, IterInv, BoundsOK
<1> QED BY <1>1, <1>2, <1>3, <1>4, <1>6 DEF IterInv, Clock, Later

LEMMA IterInvStep == IterInv /\ [IteratorNext]_cacheVars => IterInv'
<1> SUFFICES ASSUME IterInv, [IteratorNext]_cacheVars PROVE IterInv'
  OBVIOUS
<1>1. CASE IteratorControl BY <1>1, IteratorControlStep
<1>2. ASSUME NEW i \in Iterators, Caller(i) PROVE IterInv'
  BY <1>2, OpenStep, NextStep, StopStep DEF Caller
<1>3. ASSUME NEW i \in Iterators, Goroutine(i) PROVE IterInv'
  <2>1. CASE Flushed(i) BY <2>1, DoneStep DEF Flushed
  <2> QED BY <1>3, <2>1, VetStep, HeadStep, DoStep, DrainStep, FlushStep, UnmarkStep DEF Goroutine
<1>4. CASE UNCHANGED cacheVars
  BY <1>4 DEF cacheVars, controllerVars, txVars, iteratorVars, IterInv, Clock, ItersOK, CachedOK, FlightOK, BoundsOK
<1> QED BY <1>1, <1>2, <1>3, <1>4 DEF IteratorNext

LEMMA IterInvInit == IteratorInit => IterInv
<1> SUFFICES ASSUME IteratorInit PROVE IterInv
  OBVIOUS
<1>1. Clock BY ControllerAssumption DEF IteratorInit, ControllerInit, Clock, StartTime, AtStart
<1>2. CachedOK
  BY <1>1 DEF IteratorInit, CachedOK, NoTuples, Entry, GoodEntry, Clock
<1>3. ItersOK BY <1>1, ClosedIsGood DEF IteratorInit, ItersOK, Steps, Clock
<1>4. FlightOK /\ BoundsOK BY IteratorAssumption DEF IteratorInit, FlightOK, BoundsOK
<1> QED BY <1>1, <1>2, <1>3, <1>4 DEF IterInv

(* The variables of CachedDatastore's iterators have their types, and only *)
(* the goroutines that drain and flush are in flight.                      *)
THEOREM IteratorTypes == IteratorSpec => []IteratorTypeOK
<1>1. IterInv => IteratorTypeOK
  BY DEF IterInv, IteratorTypeOK, ItersOK, CachedOK, FlightOK, BoundsOK
<1> QED BY <1>1, IterInvInit, IterInvStep, PTL DEF IteratorSpec

(* Whatever way an iterator of CachedDatastore was left, what flush stores *)
(* is all that its query returned at one moment, with every write that was *)
(* committed before the iterator was made, and below maxResultSize.        *)
THEOREM CacheHoldsWholeAnswers == IteratorSpec => []CachedIsWhole
<1>1. IterInv => CachedIsWhole
  BY DEF IterInv, CachedOK, GoodEntry, SeesAll, CachedIsWhole, committed
<1> QED BY <1>1, IterInvInit, IterInvStep, PTL DEF IteratorSpec

-----------------------------------------------------------------------------
(* Nobody waits for a drain that has ended. *)

(* A query has one drain in flight at most, and whoever waits on it waits  *)
(* for one that is: an iterator of the same query that drains, flushes or  *)
(* removes marks, and that waits for nobody. This is the part of           *)
(* StoppedIsReleased that is a matter of safety.                           *)
DrainsAreAwaited ==
    /\ \A i \in Iterators : stage[i] = "waiting" => Draining(iter[i].query) # {}
    /\ \A i, j \in flight : iter[i].query = iter[j].query => i = j
    /\ \A i \in flight : stage[i] \in {"draining", "flushing", "unmarking"}
    /\ \A i \in Iterators : stage[i] = "unmarking" => iter[i].todo \subseteq Entities

SingleFlight ==
    /\ \A i \in Iterators : stage[i] = "waiting" => Draining(iter[i].query) # {}
    /\ \A i, j \in flight : iter[i].query = iter[j].query => i = j

(* A step of one iterator that keeps its query, or was in no flight; it    *)
(* does not begin to wait.                                                 *)
LEMMA FlightStays ==
    ASSUME SingleFlight, UNCHANGED flight, NEW i \in Iterators,
           \A j \in Iterators \ {i} : stage'[j] = stage[j] /\ iter'[j] = iter[j],
           iter'[i].query = iter[i].query \/ i \notin flight,
           stage'[i] # "waiting", flight \subseteq Iterators
    PROVE  SingleFlight'
<1>1. \A j \in flight : iter'[j].query = iter[j].query OBVIOUS
<1>2. ASSUME NEW j \in Iterators, stage'[j] = "waiting" PROVE Draining(iter[j].query)' # {}
  <2>1. j # i /\ iter'[j] = iter[j] /\ stage[j] = "waiting" BY <1>2
  <2>2. PICK k \in flight : iter[k].query = iter[j].query BY <2>1 DEF SingleFlight, Draining
  <2>3. k \in Draining(iter[j].query)' BY <1>1, <2>1, <2>2 DEF Draining
  <2> QED BY <2>3
<1>3. \A j, k \in flight' : iter'[j].query = iter'[k].query => j = k BY <1>1 DEF SingleFlight
<1> QED BY <1>2, <1>3 DEF SingleFlight, Draining

(* A goroutine ends, and those that waited for it with it.                 *)
LEMMA FlightEnds == ASSUME IterInv, SingleFlight, NEW i \in Iterators, Done(i) PROVE SingleFlight'
<1>1. stage \in [Iterators -> Steps] /\ iter \in [Iterators -> Fields] /\ flight \subseteq Iterators
  BY DEF IterInv, ItersOK, FlightOK
<1> DEFINE S == {i} \cup {j \in Iterators : i \in flight /\ stage[j] = "waiting" /\ iter[j].query = iter[i].query}
<1>2. /\ flight' = flight \ {i}
      /\ \A j \in Iterators : j \in S => stage'[j] = "closed"
      /\ \A j \in Iterators : j \notin S => stage'[j] = stage[j] /\ iter'[j] = iter[j]
  BY DEF Done, Close
<1>3. \A j \in flight : j # i => j \notin S BY DEF IterInv, FlightOK
<1>4. ASSUME NEW j \in Iterators, stage'[j] = "waiting" PROVE Draining(iter[j].query)' # {}
  <2>1. j \notin S /\ stage[j] = "waiting" /\ iter'[j] = iter[j] BY <1>2, <1>4
  <2>2. PICK k \in flight : iter[k].query = iter[j].query BY <2>1 DEF SingleFlight, Draining
  <2>3. k # i BY <2>1, <2>2
  <2>4. iter'[k] = iter[k] /\ k \in flight' BY <1>1, <1>2, <1>3, <2>2, <2>3
  <2>5. k \in Draining(iter[j].query)' BY <2>1, <2>2, <2>4 DEF Draining
  <2> QED BY <2>5
<1>5. \A j, k \in flight' : iter'[j].query = iter'[k].query => j = k
  BY <1>1, <1>2, <1>3 DEF SingleFlight
<1> QED BY <1>4, <1>5 DEF SingleFlight

LEMMA SingleFlightStep == IterInv /\ SingleFlight /\ [IteratorNext]_cacheVars => SingleFlight'
<1> SUFFICES ASSUME IterInv, SingleFlight, [IteratorNext]_cacheVars PROVE SingleFlight'
  OBVIOUS
<1>a. stage \in [Iterators -> Steps] /\ iter \in [Iterators -> Fields] /\ flight \subseteq Iterators
  BY DEF IterInv, ItersOK, FlightOK
<1>b. \A i \in flight : stage[i] \in {"draining", "flushing", "unmarking"} BY DEF IterInv, FlightOK
<1>1. ASSUME UNCHANGED <<flight, stage, iter>> PROVE SingleFlight'
  BY <1>1 DEF SingleFlight, Draining
<1>2. ASSUME NEW i \in Iterators, NEW q \in Queries, Open(i, q) PROVE SingleFlight'
  <2>1. stage[i] = "closed" /\ flight' = flight BY <1>2 DEF Open
  <2>2. /\ \A j \in Iterators \ {i} : stage'[j] = stage[j] /\ iter'[j] = iter[j]
        /\ stage'[i] \in {"closed", "cached", "open"}
    BY <1>a, <1>2 DEF Open, Step
  <2> QED BY <1>a, <1>b, <2>1, <2>2, FlightStays
<1>3. ASSUME NEW i \in Iterators, Next(i) PROVE SingleFlight'
  <2>1. stage[i] = "open" /\ UNCHANGED <<stage, flight>> BY <1>3 DEF Next
  <2>2. PICK f : iter' = [iter EXCEPT ![i] = f] BY <1>a, <1>3 DEF Next, ReadTuple
  <2>3. \A j \in Iterators \ {i} : iter'[j] = iter[j] BY <1>a, <2>2
  <2> QED BY <1>a, <1>b, <2>1, <2>3, FlightStays
<1>4. ASSUME NEW i \in Iterators, StopEmpty(i) PROVE SingleFlight'
  <2>1. stage[i] \in {"cached", "open"} /\ flight' = flight BY <1>4 DEF StopEmpty
  <2>2. stage'[i] = "closed" /\ \A j \in Iterators \ {i} : stage'[j] = stage[j] /\ iter'[j] = iter[j]
    BY <1>a, <1>4 DEF StopEmpty, Close
  <2> QED BY <1>a, <1>b, <2>1, <2>2, FlightStays
<1>5. ASSUME NEW i \in Iterators, Stop(i) PROVE SingleFlight'
  <2>1. stage[i] = "open" /\ stage' = [stage EXCEPT ![i] = "stopping"] /\ UNCHANGED <<flight, iter>>
    BY <1>5 DEF Stop, Step
  <2> QED BY <1>a, <2>1, FlightStays
<1>6. ASSUME NEW i \in Iterators, Vet(i) PROVE SingleFlight'
  <2>1. stage[i] = "stopping" /\ flight' = flight BY <1>6 DEF Vet
  <2>2. /\ stage'[i] \in {"closed", "buffered"}
        /\ \A j \in Iterators \ {i} : stage'[j] = stage[j] /\ iter'[j] = iter[j]
    BY <1>a, <1>6 DEF Vet, Close, Step
  <2> QED BY <1>a, <1>b, <2>1, <2>2, FlightStays
<1>7. ASSUME NEW i \in Iterators, Head(i) PROVE SingleFlight'
  <2>1. stage[i] = "buffered" /\ flight' = flight BY <1>7 DEF Head
  <2>2. PICK f : iter' = [iter EXCEPT ![i] = f] BY <1>a, <1>7 DEF Head
  <2>3. PICK s \in {"flushing", "joining"} : stage' = [stage EXCEPT ![i] = s] BY <1>7 DEF Head, Step
  <2>4. \A j \in Iterators \ {i} : stage'[j] = stage[j] /\ iter'[j] = iter[j] BY <1>a, <2>2, <2>3
  <2>5. stage'[i] = s BY <1>a, <2>3
  <2> QED BY <1>a, <1>b, <2>1, <2>4, <2>5, FlightStays
<1>8. ASSUME NEW i \in Iterators, Do(i) PROVE SingleFlight'
  <2>1. stage[i] = "joining" /\ iter' = iter BY <1>8 DEF Do
  <2>2. i \notin flight BY <1>b, <2>1
  <2>3. CASE Draining(iter[i].query) = {}
    <3>1. flight' = flight \cup {i} /\ stage' = [stage EXCEPT ![i] = "draining"]
      BY <1>8, <2>3 DEF Do, Step
    <3>2. \A j \in flight : iter[j].query # iter[i].query BY <2>3 DEF Draining
    <3>3. \A j, k \in flight' : iter'[j].query = iter'[k].query => j = k
      BY <2>1, <3>1, <3>2 DEF SingleFlight
    <3>4. ASSUME NEW j \in Iterators, stage'[j] = "waiting" PROVE Draining(iter[j].query)' # {}
      <4>1. stage[j] = "waiting" BY <1>a, <3>1, <3>4
      <4>2. PICK k \in flight : iter[k].query = iter[j].query BY <4>1 DEF SingleFlight, Draining
      <4>3. k \in Draining(iter[j].query)' BY <2>1, <3>1, <4>2 DEF Draining
      <4> QED BY <4>3
    <3> QED BY <3>3, <3>4 DEF SingleFlight
  <2>4. CASE Draining(iter[i].query) # {}
    <3>1. flight' = flight /\ stage' = [stage EXCEPT ![i] = "waiting"] BY <1>8, <2>4 DEF Do, Step
    <3>2. \A j \in Iterators : Draining(iter[j].query)' = Draining(iter[j].query) BY <2>1, <3>1 DEF Draining
    <3>3. ASSUME NEW j \in Iterators, stage'[j] = "waiting" PROVE Draining(iter[j].query)' # {}
      <4>1. j = i \/ stage[j] = "waiting" BY <1>a, <3>1, <3>3
      <4> QED BY <2>1, <2>4, <3>2, <4>1 DEF SingleFlight
    <3>4. \A j, k \in flight' : iter'[j].query = iter'[k].query => j = k
      BY <2>1, <3>1 DEF SingleFlight
    <3> QED BY <3>3, <3>4 DEF SingleFlight
  <2> QED BY <2>3, <2>4
<1>9. ASSUME NEW i \in Iterators, Drain(i) PROVE SingleFlight'
  <2>1. CASE Done(i) BY <2>1, FlightEnds
  <2>2. CASE ~Done(i)
    <3>1. stage[i] = "draining" /\ flight' = flight BY <1>9, <2>2 DEF Drain
    <3>2. PICK s \in {"draining", "flushing"} : stage' = [stage EXCEPT ![i] = s]
      <4>1. stage = [stage EXCEPT ![i] = "draining"] BY <1>a, <3>1
      <4> QED BY <1>9, <2>2, <4>1 DEF Drain, Step
    <3>3. PICK f : iter' = [iter EXCEPT ![i] = f] /\ f.query = iter[i].query
      <4>1. Ran(i).query = iter[i].query BY <1>a DEF Ran, Fields
      <4>2. [Ran(i) EXCEPT !.tuples = @ \cup {NextTuple(i)}, !.keep = Keep(i)].query = Ran(i).query
        BY DEF Ran
      <4> QED BY <1>9, <2>2, <4>1, <4>2 DEF Drain, ReadTuple
    <3>4. \A j \in Iterators \ {i} : stage'[j] = stage[j] /\ iter'[j] = iter[j] BY <1>a, <3>2, <3>3
    <3>5. stage'[i] = s /\ iter'[i].query = iter[i].query BY <1>a, <3>2, <3>3
    <3> QED BY <1>a, <3>1, <3>4, <3>5, FlightStays
  <2> QED BY <2>1, <2>2
<1>10. ASSUME NEW i \in Iterators, Flush(i) PROVE SingleFlight'
  <2>1. /\ flight' = flight /\ stage' = [stage EXCEPT ![i] = "unmarking"]
        /\ iter' = [iter EXCEPT ![i].todo = EntitiesOf[iter[i].query]]
    BY <1>10 DEF Flush, Step
  <2>2. /\ \A j \in Iterators \ {i} : stage'[j] = stage[j] /\ iter'[j] = iter[j]
        /\ stage'[i] = "unmarking" /\ iter'[i].query = iter[i].query
    BY <1>a, <2>1 DEF Fields
  <2> QED BY <1>a, <2>1, <2>2, FlightStays
<1>11. ASSUME NEW i \in Iterators, NEW e \in Entities, Unmark(i, e) PROVE SingleFlight'
  <2>1. /\ UNCHANGED <<flight, stage>> /\ stage[i] = "unmarking"
        /\ iter' = [iter EXCEPT ![i].todo = @ \ {e}]
    BY <1>11 DEF Unmark
  <2>2. \A j \in Iterators \ {i} : iter'[j] = iter[j] BY <1>a, <2>1
  <2>3. iter'[i].query = iter[i].query BY <1>a, <2>1 DEF Fields
  <2> QED BY <1>a, <2>1, <2>2, <2>3, FlightStays
<1>12. ASSUME NEW i \in Iterators, Flushed(i) PROVE SingleFlight' BY <1>12, FlightEnds DEF Flushed
<1>13. CASE IteratorControl BY <1>1, <1>13 DEF IteratorControl
<1>14. CASE UNCHANGED cacheVars BY <1>1, <1>14 DEF cacheVars, iteratorVars
<1> QED
  BY <1>2, <1>3, <1>4, <1>5, <1>6, <1>7, <1>8, <1>9, <1>10, <1>11, <1>12, <1>13, <1>14
     DEF IteratorNext, Caller, Goroutine

(* singleflight holds over every way an iterator is left: there is one     *)
(* drain of a query at a time, and no goroutine that Stop started waits    *)
(* for a drain that is over.                                               *)
THEOREM NoDrainIsAwaitedInVain == IteratorSpec => []DrainsAreAwaited
<1>1. IteratorInit => SingleFlight BY DEF IteratorInit, SingleFlight
<1>2. IterInv /\ SingleFlight => DrainsAreAwaited
  BY DEF IterInv, ItersOK, FlightOK, Fields, SingleFlight, DrainsAreAwaited
<1> QED BY <1>1, <1>2, IterInvInit, IterInvStep, SingleFlightStep, PTL DEF IteratorSpec

-----------------------------------------------------------------------------
(* The keys of reads and the marks of changes. *)

(* The references a restriction can be: to a relation or to a wildcard.    *)
IsReference(ref) == ref.wild \in BOOLEAN /\ (ref.wild => ref.rel = "")

(* Whatever tuple a read returns, a change of it marks the read.           *)
LEMMA RowsAreMarked ==
    ASSUME NEW ts, NEW tk
    PROVE  /\ \A o, r : tk \in CachedRead(ts, o, r).rows
                 => CachedRead(ts, o, r).marks \cap MarksOf(tk) # {}
           /\ \A o, r, refs : tk \in CachedReadUsersetTuples(ts, o, r, refs).rows
                 => CachedReadUsersetTuples(ts, o, r, refs).marks \cap MarksOf(tk) # {}
           /\ \A t, r, us : tk \in CachedReadStartingWithUser(ts, t, r, us).rows
                 => CachedReadStartingWithUser(ts, t, r, us).marks \cap MarksOf(tk) # {}
<1>1. ObjectRelationMark(tk.obj, tk.rel) \in MarksOf(tk) /\ UserObjectTypeMark(tk.user, tk.obj.type) \in MarksOf(tk)
  BY DEF MarksOf
<1> HIDE DEF MarksOf
<1>2. ASSUME NEW o, NEW r, tk \in Select(ts, o, r)
      PROVE  ObjectRelationMark(tk.obj, tk.rel) \in newCachedIteratorByObjectRelation(o, r)
  BY <1>2 DEF Select, newCachedIteratorByObjectRelation
<1>3. ASSUME NEW t, NEW r, NEW us, tk \in SelectWithUsers(ts, t, r, us)
      PROVE  UserObjectTypeMark(tk.user, tk.obj.type) \in newCachedIteratorByUserObjectType(us, t)
  BY <1>3 DEF SelectWithUsers, newCachedIteratorByUserObjectType
<1>4. ASSUME NEW o, NEW r, NEW refs, tk \in SelectUsersets(ts, o, r, refs)
      PROVE  tk \in Select(ts, o, r)
  BY <1>4 DEF SelectUsersets
<1> QED BY <1>1, <1>2, <1>3, <1>4 DEF CachedRead, CachedReadUsersetTuples, CachedReadStartingWithUser

(* Restrictions that make one key select the same tuples.                  *)
LEMMA OneKeyOneSelection ==
    ASSUME NEW ts, NEW o, NEW r, NEW refs, NEW others,
           \A ref \in refs \cup others : IsReference(ref),
           ReadUsersetTuplesKey(o, r, refs) = ReadUsersetTuplesKey(o, r, others)
    PROVE  SelectUsersets(ts, o, r, refs) \subseteq SelectUsersets(ts, o, r, others)
<1> SUFFICES ASSUME NEW tk \in Select(ts, o, r), NEW ref \in refs,
                    tk.user.type = ref.type,
                    IF ref.wild THEN IsWildcard(tk.user) ELSE IsUserset(tk.user) /\ tk.user.rel = ref.rel
             PROVE  \E x \in others : /\ tk.user.type = x.type
                                      /\ IF x.wild THEN IsWildcard(tk.user)
                                         ELSE IsUserset(tk.user) /\ tk.user.rel = x.rel
  BY DEF SelectUsersets
<1>1. /\ {x.type : x \in {y \in refs : y.wild}} = {x.type : x \in {y \in others : y.wild}}
      /\ {<<x.type, x.rel>> : x \in {y \in refs : y.rel # ""}}
            = {<<x.type, x.rel>> : x \in {y \in others : y.rel # ""}}
  BY DEF ReadUsersetTuplesKey
<1>2. CASE ref.wild
  <2>1. PICK x \in others : x.wild /\ x.type = ref.type BY <1>1, <1>2
  <2> QED BY <1>2, <2>1
<1>3. CASE ~ref.wild
  <2>1. ref.rel # "" BY <1>3 DEF IsUserset
  <2>2. PICK x \in others : x.rel # "" /\ <<x.type, x.rel>> = <<ref.type, ref.rel>> BY <1>1, <2>1
  <2>3. ~x.wild BY <2>2 DEF IsReference
  <2> QED BY <1>3, <2>2, <2>3
<1> QED BY <1>2, <1>3

(* Every read that the iterator cache keeps is condemned by a change of a  *)
(* tuple it returns, and reads kept under one key return the same tuples,  *)
(* whatever tuples are stored: what invalidateIteratorCacheBy... marks and *)
(* what newCachedIteratorBy... looks up fit together.                      *)
THEOREM ReadsAreMarked == CachedReadsAreMarked
<1> SUFFICES ASSUME NEW tk \in tuples, NEW read \in ReadsAbout(tuples, tk), NEW other \in ReadsAbout(tuples, tk)
             PROVE  /\ tk \in read.rows => read.marks \cap MarksOf(tk) # {}
                    /\ other.key = read.key => other.rows = read.rows
  BY DEF CachedReadsAreMarked
<1> DEFINE o == tk.obj
           r == tk.rel
           Refs == SUBSET ({RefOf(x.user) : x \in tuples} \cup {Ref(tk.user.type, "", TRUE, "")})
           A == CachedRead(tuples, o, r)
           B(refs) == CachedReadUsersetTuples(tuples, o, r, refs)
           C(us) == CachedReadStartingWithUser(tuples, o.type, r, us)
<1>1. ASSUME NEW x \in ReadsAbout(tuples, tk)
      PROVE  x = A \/ (\E refs \in Refs : x = B(refs)) \/ (\E us : x = C(us))
  <2> HIDE DEF Refs
  <2>1. \/ x \in {A}
        \/ x \in {B(refs) : refs \in Refs}
        \/ x \in {C(us) : us \in SUBSET {tk.user, User(tk.user.type, Wild, "")}}
    BY DEF ReadsAbout, Refs
  <2> HIDE DEF A, B, C
  <2> QED BY <2>1
<1>2. ASSUME NEW refs \in Refs, NEW ref \in refs PROVE IsReference(ref)
  <2>1. ASSUME NEW u PROVE IsReference(RefOf(u))
    BY DEF RefOf, Ref, IsReference, IsUserset
  <2>2. IsReference(Ref(tk.user.type, "", TRUE, "")) BY DEF Ref, IsReference
  <2>3. (\E x \in tuples : ref = RefOf(x.user)) \/ ref = Ref(tk.user.type, "", TRUE, "") OBVIOUS
  <2> QED BY <2>1, <2>2, <2>3
<1>3. tk \in read.rows => read.marks \cap MarksOf(tk) # {}
  <2>1. /\ tk \in A.rows => A.marks \cap MarksOf(tk) # {}
        /\ \A f : tk \in B(f).rows => B(f).marks \cap MarksOf(tk) # {}
        /\ \A g : tk \in C(g).rows => C(g).marks \cap MarksOf(tk) # {}
    BY RowsAreMarked
  <2> HIDE DEF A, B, C, Refs
  <2> QED BY <1>1, <2>1
<1>4. ASSUME NEW f \in Refs, NEW g \in Refs, B(f).key = B(g).key PROVE B(f).rows = B(g).rows
  <2> HIDE DEF Refs
  <2>1. ReadUsersetTuplesKey(o, r, f) = ReadUsersetTuplesKey(o, r, g)
    BY <1>4 DEF CachedReadUsersetTuples
  <2>2. \A ref \in f \cup g : IsReference(ref) BY <1>2
  <2>3. SelectUsersets(tuples, o, r, f) \subseteq SelectUsersets(tuples, o, r, g)
    BY <2>1, <2>2, OneKeyOneSelection
  <2>4. SelectUsersets(tuples, o, r, g) \subseteq SelectUsersets(tuples, o, r, f)
    BY <2>1, <2>2, OneKeyOneSelection
  <2> QED BY <2>3, <2>4 DEF CachedReadUsersetTuples
<1>5. ASSUME NEW f, NEW g, C(f).key = C(g).key PROVE C(f).rows = C(g).rows
  BY <1>5 DEF CachedReadStartingWithUser, ReadStartingWithUserKey
<1>6. /\ \A f : A.key # B(f).key
      /\ \A g : A.key # C(g).key
      /\ \A f, g : B(f).key # C(g).key
  <2>1. A.key[1] = "r" /\ \A f : B(f).key[1] = "rut"
    BY DEF CachedRead, CachedReadUsersetTuples, ReadKey, ReadUsersetTuplesKey
  <2>2. \A g : C(g).key[1] = "rtwu"
    BY DEF CachedReadStartingWithUser, ReadStartingWithUserKey
  <2> HIDE DEF A, B, C
  <2> QED BY <2>1, <2>2
<1>7. other.key = read.key => other.rows = read.rows
  <2> HIDE DEF A, B, C, Refs
  <2> QED BY <1>1, <1>4, <1>5, <1>6
<1> QED BY <1>3, <1>7
=============================================================================
