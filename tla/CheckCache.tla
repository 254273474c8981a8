----------------------------- MODULE CheckCache -----------------------------
(***************************************************************************)
(* Check requests that go through CachedCheckResolver while writes commit  *)
(* and the cache controller runs. A request resolves one sub-problem, the  *)
(* key of its answer; an answer is told apart by the writes it has seen.   *)
(***************************************************************************)
EXTENDS CacheController

CONSTANTS
    Requests,  \* concurrent Check requests
    Checks,    \* cache keys of sub-problems
    QueryTTL   \* CachedCheckResolver.cacheTTL

ASSUME QueryAssumption == QueryTTL \in Nat /\ Checks # {}

VARIABLES
    answers,    \* CheckResponseCacheEntry of each key; at 0: none
    published,  \* the last time the controller published, which it may forget
    step,       \* of each request
    request     \* its parameters and its answer

checkVars == <<answers, step, request>>
allVars == <<controllerVars, answers, published, step, request>>

Answer == [at : Nat, until : Nat, seen : SUBSET Txs]
NoAnswer == [at |-> 0, until |-> 0, seen |-> {}]
Call == [key : Checks, higher : BOOLEAN, invalidationTime : Nat,
         began : Nat, past : SUBSET Txs, answer : Answer]
NoCall == [key |-> CHOOSE k \in Checks : TRUE, higher |-> FALSE, invalidationTime |-> 0,
           began |-> 0, past |-> {}, answer |-> NoAnswer]

CheckInit ==
    /\ ControllerInit
    /\ answers = [k \in Checks |-> NoAnswer]
    /\ published = 0
    /\ step = [r \in Requests |-> "idle"]
    /\ request = [r \in Requests |-> NoCall]

Keeps == UNCHANGED <<now, txVars, changelogEntry, storeMark, mark, published>>

TryCache(higher) == ~higher

(* CheckQuery.Execute, up to the call of the resolver. A request for       *)
(* higher consistency does not ask the controller.                         *)
Execute(r, k, higher) ==
    /\ now < StartTime + MaxNow
    /\ step[r] = "idle"
    /\ IF higher THEN UNCHANGED inflightVars ELSE DetermineInvalidationTime
    /\ request' = [request EXCEPT ![r] =
                      [key |-> k, higher |-> higher,
                       invalidationTime |-> IF higher THEN 0 ELSE InvalidationTime,
                       began |-> published, past |-> committed, answer |-> NoAnswer]]
    /\ step' = [step EXCEPT ![r] = IF TryCache(higher) THEN "lookup" ELSE "resolve"]
    /\ UNCHANGED answers
    /\ Keeps

(* Mutant: any entry is a hit.                                             *)
AnyHit(r) == Live(answers[request[r].key])

(* The cached answer is valid if it was stored after the last write.       *)
Hit(r) ==
    /\ Live(answers[request[r].key])
    /\ answers[request[r].key].at > request[r].invalidationTime

Lookup(r) ==
    /\ step[r] = "lookup"
    /\ step' = [step EXCEPT ![r] = IF Hit(r) THEN "hit" ELSE "resolve"]
    /\ request' = IF Hit(r)
                  THEN [request EXCEPT ![r].answer = answers[request[r].key]]
                  ELSE request
    /\ UNCHANGED <<answers, inflightVars>>
    /\ Keeps

(* The delegate reads the store. Its answer is to be stored, or comes from *)
(* a cycle and is not, or there is an error and no answer.                 *)
Resolve(r) ==
    /\ step[r] = "resolve"
    /\ \/ /\ step' = [step EXCEPT ![r] = "store"]
          /\ request' = [request EXCEPT ![r].answer.seen = committed]
       \/ /\ step' = [step EXCEPT ![r] = "resolved"]
          /\ request' = [request EXCEPT ![r].answer.seen = committed]
       \/ /\ step' = [step EXCEPT ![r] = "idle"]
          /\ request' = [request EXCEPT ![r] = NoCall]
    /\ UNCHANGED <<answers, inflightVars>>
    /\ Keeps

(* LastModified is the time at which the answer is stored.                 *)
Store(r) ==
    /\ step[r] = "store"
    /\ now' = now + 1
    /\ answers' = [answers EXCEPT ![request[r].key] =
                      [at |-> now', until |-> now' + QueryTTL, seen |-> request[r].answer.seen]]
    /\ step' = [step EXCEPT ![r] = "resolved"]
    /\ UNCHANGED <<request, txVars, changelogEntry, storeMark, mark, inflightVars, published>>

Return(r) ==
    /\ step[r] \in {"hit", "resolved"}
    /\ step' = [step EXCEPT ![r] = "idle"]
    /\ request' = [request EXCEPT ![r] = NoCall]
    /\ UNCHANGED <<answers, inflightVars>>
    /\ Keeps

Serve(r) ==
    \/ \E k \in Checks, higher \in BOOLEAN : Execute(r, k, higher)
    \/ Lookup(r)
    \/ Resolve(r)
    \/ Store(r)
    \/ Return(r)

Control ==
    /\ ControllerNext
    /\ published' = IF Publish THEN lastChangelog ELSE published
    /\ UNCHANGED checkVars

CheckNext ==
    \/ Control
    \/ \E r \in Requests : Serve(r)

CheckSpec == CheckInit /\ [][CheckNext]_allVars

-----------------------------------------------------------------------------

CheckTypeOK ==
    /\ ControllerTypeOK
    /\ answers \in [Checks -> Answer]
    /\ published \in Nat
    /\ step \in [Requests -> {"idle", "lookup", "hit", "resolve", "store", "resolved"}]
    /\ request \in [Requests -> Call]

(* A request that begins after the controller has published the time of a  *)
(* write is not served an answer that was stored before that time, though  *)
(* the controller forgets the time after ttl and reports no write then.    *)
PublishedWritesAreHonoured ==
    \A r \in Requests : step[r] = "hit" => request[r].answer.at > request[r].began

(* With HIGHER_CONSISTENCY an answer has seen every write committed before *)
(* the request began.                                                      *)
HigherConsistencyIsFresh ==
    \A r \in Requests :
        (request[r].higher /\ step[r] \in {"hit", "store", "resolved"})
            => request[r].past \subseteq request[r].answer.seen
=============================================================================
