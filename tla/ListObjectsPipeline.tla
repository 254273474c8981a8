-------------------------- MODULE ListObjectsPipeline --------------------------
(***************************************************************************)
(* One ListObjects or StreamedListObjects call: the goroutines and the     *)
(* channels of pkg/server/commands/list_objects.go.  Reverse expansion     *)
(* sends candidates on a channel of one place; the consumer passes them on *)
(* or starts a Check for them in a pool; the handler closes the channel of *)
(* results when the pool is done; the caller ranges over it.               *)
(***************************************************************************)
EXTENDS Naturals, Sequences, FiniteSets, SequencesExt

CONSTANTS
    Objects,   \* the objects reverse expansion finds
    Kinds,     \* what each object is: "direct" needs no Check, the Check of
               \* the others ends as their kind says
    Calls,     \* [max, cap, streamed]: the limit (0: none), the places of the
               \* channel of results, and which of the two calls it is
    Breadth    \* resolveNodeBreadthLimit

Kind == {"direct", "allowed", "denied", "failing"}

ASSUME PipelineAssumption ==
    /\ IsFiniteSet(Objects) /\ Objects \cap {"none", "hard", "condition"} = {}
    /\ Kinds \subseteq [Objects -> Kind]
    /\ Breadth \in Nat \ {0}
    /\ \A c \in Calls : c.max \in Nat /\ c.cap \in Nat \ {0} /\ c.streamed \in BOOLEAN

VARIABLES
    call, kind,    \* the call and its objects
    expansion,     \* the goroutine of reverse expansion
    candidates,    \* reverseExpandResultsChan, and whether it is closed
    todo,          \* the objects reverse expansion has not found yet
    signal,        \* reverseExpandDoneWithError holds a message
    consumer,      \* ConsumerReadLoop and what follows it, [at, obj]
    check,         \* the goroutine of each Check
    found,         \* objectsFound
    cancelled,     \* cancel() of cancelCtx was called
    stopped,       \* the pool was cancelled by an error of a task
    expired,       \* the deadline has passed, or the caller has returned
    first,         \* the first error of the pool
    results,       \* resultsChan, and whether it is closed
    caller         \* [at, got, errs]: Execute or ExecuteStreamed

vars == <<call, kind, expansion, candidates, todo, signal, consumer, check, found,
          cancelled, stopped, expired, first, results, caller>>
poolVars == <<stopped, first>>

NoObject == "none"

Init ==
    /\ call \in Calls /\ kind \in Kinds
    /\ expansion = "running" /\ candidates = [q |-> <<>>, closed |-> FALSE] /\ todo = Objects
    /\ signal = FALSE /\ consumer = [at |-> "loop", obj |-> NoObject]
    /\ check = [o \in Objects |-> "none"] /\ found = 0
    /\ cancelled = FALSE /\ stopped = FALSE /\ expired = FALSE /\ first = "none"
    /\ results = [q |-> <<>>, closed |-> FALSE]
    /\ caller = [at |-> "ranging", got |-> <<>>, errs |-> FALSE]

\* What the handler reports: an error of a condition, or any other.
Errors == {"hard", "condition"}

\* The context the tasks of the pool run with has ended.
PoolDone == cancelled \/ stopped \/ expired

\* A task of the pool returns an error: the first is kept, the rest stop.
TaskFails(err) ==
    /\ first' = IF first = "none" THEN err ELSE first
    /\ stopped' = TRUE

-----------------------------------------------------------------------------
(* Reverse expansion. *)

\* trySendCandidate: sent, or dropped when the context has ended.
SendCandidate(o) ==
    /\ expansion = "running" /\ o \in todo
    /\ todo' = todo \ {o}
    /\ \/ candidates.q = <<>> /\ candidates' = [candidates EXCEPT !.q = <<o>>]
       \/ PoolDone /\ UNCHANGED candidates
    /\ UNCHANGED <<call, kind, expansion, signal, consumer, check, found, cancelled, expired,
                   poolVars, results, caller>>

\* Execute closes the channel when all is found.
CloseCandidates ==
    /\ expansion = "running" /\ todo = {}
    /\ expansion' = "ended"
    /\ candidates' = [candidates EXCEPT !.closed = TRUE]
    /\ UNCHANGED <<call, kind, todo, signal, consumer, check, found, cancelled, expired,
                   poolVars, results, caller>>

\* It fails, with an error of the store or the model or of a condition, or
\* because its context has ended: first the signal, then the pool is told.
FailExpansion(err) ==
    /\ expansion = "running"
    /\ err = "cancelled" => PoolDone
    /\ expansion' = err
    /\ signal' = TRUE
    /\ UNCHANGED <<call, kind, candidates, todo, consumer, check, found, cancelled, expired,
                   poolVars, results, caller>>

ReturnExpansion ==
    /\ expansion \in {"hard", "condition", "cancelled"}
    /\ TaskFails(expansion)
    /\ expansion' = "ended"
    /\ UNCHANGED <<call, kind, candidates, todo, signal, consumer, check, found, cancelled,
                   expired, results, caller>>

-----------------------------------------------------------------------------
(* The consumer. *)

\* The cases of the select that end the loop; the two that mean trouble also
\* cancel what is in flight.
LeaveLoop ==
    /\ consumer.at = "loop"
    /\ \/ signal /\ signal' = FALSE /\ cancelled' = TRUE
       \/ expired /\ cancelled' = TRUE /\ UNCHANGED signal
       \/ candidates.closed /\ candidates.q = <<>> /\ UNCHANGED <<signal, cancelled>>
    /\ consumer' = [consumer EXCEPT !.at = "wait"]
    /\ UNCHANGED <<call, kind, expansion, candidates, todo, check, found, expired, poolVars,
                   results, caller>>

\* A candidate is received: too many, to be passed on, or to be checked.
Receive ==
    /\ consumer.at = "loop" /\ candidates.q # <<>>
    /\ candidates' = [candidates EXCEPT !.q = <<>>]
    /\ LET o == candidates.q[1]
           full == call.max # 0 /\ found >= call.max
       IN /\ cancelled' = (cancelled \/ full)
          /\ consumer' = [at |-> CASE full -> "wait" [] ~full /\ kind[o] = "direct" -> "count"
                                   [] OTHER -> "start",
                          obj |-> IF full THEN NoObject ELSE o]
    /\ UNCHANGED <<call, kind, expansion, todo, signal, check, found, expired, poolVars, results, caller>>

\* trySendObject: the object is counted, and sent when the limit allows.
Counts == IF call.max # 0 THEN found + 1 ELSE found
Within == call.max = 0 \/ found + 1 <= call.max

HasRoom == Len(results.q) < call.cap

CountDirect ==
    /\ consumer.at = "count"
    /\ found' = Counts
    /\ consumer' = [consumer EXCEPT !.at = IF Within THEN "put" ELSE "loop"]
    /\ UNCHANGED <<call, kind, expansion, candidates, todo, signal, check, cancelled, expired,
                   poolVars, results, caller>>

\* The consumer sends with the context of the call, not of the pool.
PutDirect ==
    /\ consumer.at = "put"
    /\ \/ HasRoom /\ results' = [results EXCEPT !.q = Append(@, consumer.obj)]
       \/ expired /\ UNCHANGED results
    /\ consumer' = [consumer EXCEPT !.at = "loop"]
    /\ UNCHANGED <<call, kind, expansion, candidates, todo, signal, check, found, cancelled,
                   expired, poolVars, caller>>

\* pool.Go waits for one of the 1 + Breadth places.
Running == {o \in Objects : check[o] \in {"running", "put"}}

\* Mutant: the pool has no place for reverse expansion.
StartCheckCrowded ==
    /\ consumer.at = "start"
    /\ Cardinality(Running) + (IF expansion = "ended" THEN 0 ELSE 1) < Breadth
    /\ check' = [check EXCEPT ![consumer.obj] = "running"]
    /\ consumer' = [consumer EXCEPT !.at = "loop"]
    /\ UNCHANGED <<call, kind, expansion, candidates, todo, signal, found, cancelled, expired,
                   poolVars, results, caller>>

StartCheck ==
    /\ consumer.at = "start"
    /\ Cardinality(Running) + (IF expansion = "ended" THEN 0 ELSE 1) < 1 + Breadth
    /\ check' = [check EXCEPT ![consumer.obj] = "running"]
    /\ consumer' = [consumer EXCEPT !.at = "loop"]
    /\ UNCHANGED <<call, kind, expansion, candidates, todo, signal, found, cancelled, expired,
                   poolVars, results, caller>>

\* Mutant: the handler closes the channel when the loop ends.
WaitNot ==
    /\ consumer.at = "wait"
    /\ consumer' = [consumer EXCEPT !.at = IF first \in {"hard", "condition"} THEN "error" ELSE "close"]
    /\ UNCHANGED <<call, kind, expansion, candidates, todo, signal, check, found, cancelled,
                   expired, poolVars, results, caller>>

\* Mutant: an error of a condition is dropped like a cancellation.
WaitDropsConditions ==
    /\ consumer.at = "wait"
    /\ expansion = "ended" /\ Running = {}
    /\ consumer' = [consumer EXCEPT !.at = IF first = "hard" THEN "error" ELSE "close"]
    /\ UNCHANGED <<call, kind, expansion, candidates, todo, signal, check, found, cancelled,
                   expired, poolVars, results, caller>>

\* pool.Wait, and what is done with its error.
Wait ==
    /\ consumer.at = "wait"
    /\ expansion = "ended" /\ Running = {}
    /\ consumer' = [consumer EXCEPT !.at = IF first \in {"hard", "condition"} THEN "error" ELSE "close"]
    /\ UNCHANGED <<call, kind, expansion, candidates, todo, signal, check, found, cancelled,
                   expired, poolVars, results, caller>>

\* The send of the error has no way out.
SendError ==
    /\ consumer.at = "error" /\ HasRoom
    /\ results' = [results EXCEPT !.q = Append(@, first)]
    /\ consumer' = [consumer EXCEPT !.at = "close"]
    /\ UNCHANGED <<call, kind, expansion, candidates, todo, signal, check, found, cancelled,
                   expired, poolVars, caller>>

CloseResults ==
    /\ consumer.at = "close"
    /\ results' = [results EXCEPT !.closed = TRUE]
    /\ consumer' = [consumer EXCEPT !.at = "ended"]
    /\ UNCHANGED <<call, kind, expansion, candidates, todo, signal, check, found, cancelled,
                   expired, poolVars, caller>>

-----------------------------------------------------------------------------
(* The Check of a candidate. *)

\* It answers, fails by a condition or harder (the depth, the store), or fails
\* because its context has ended.
EndCheck(o) ==
    /\ check[o] = "running"
    /\ \/ /\ kind[o] = "allowed"
          /\ found' = Counts
          /\ check' = [check EXCEPT ![o] = IF Within THEN "put" ELSE "ended"]
          /\ UNCHANGED poolVars
       \/ /\ kind[o] = "denied"
          /\ check' = [check EXCEPT ![o] = "ended"]
          /\ UNCHANGED <<found, poolVars>>
       \/ /\ \/ kind[o] = "failing" /\ \E err \in Errors : TaskFails(err)
             \/ PoolDone /\ TaskFails("cancelled")
          /\ check' = [check EXCEPT ![o] = "ended"]
          /\ UNCHANGED found
    /\ UNCHANGED <<call, kind, expansion, candidates, todo, signal, consumer, cancelled,
                   expired, results, caller>>

\* Mutant: the object may be sent again.
PutTwice(o) ==
    /\ check[o] = "put" /\ HasRoom
    /\ results' = [results EXCEPT !.q = Append(@, o)]
    /\ check' \in {check, [check EXCEPT ![o] = "ended"]}
    /\ UNCHANGED <<call, kind, expansion, candidates, todo, signal, consumer, found, cancelled,
                   expired, poolVars, caller>>

PutChecked(o) ==
    /\ check[o] = "put"
    /\ \/ HasRoom /\ results' = [results EXCEPT !.q = Append(@, o)]
       \/ PoolDone /\ UNCHANGED results
    /\ check' = [check EXCEPT ![o] = "ended"]
    /\ UNCHANGED <<call, kind, expansion, candidates, todo, signal, consumer, found, cancelled,
                   expired, poolVars, caller>>

-----------------------------------------------------------------------------
(* The caller. *)

\* The deferred cancel ends the context of what is still running.
Return(outcome) == caller' = [caller EXCEPT !.at = outcome] /\ expired' = TRUE

\* A result is taken.  Execute collects objects and errors of conditions and
\* returns any other error; ExecuteStreamed returns every error, and that of
\* a client that no longer listens.
Take ==
    /\ caller.at = "ranging" /\ results.q # <<>>
    /\ results' = [results EXCEPT !.q = Tail(@)]
    /\ LET x == results.q[1]
       IN \/ /\ x \notin Errors
             /\ caller' = [caller EXCEPT !.got = Append(@, x)] /\ UNCHANGED expired
          \/ x \notin Errors /\ call.streamed /\ Return("hung up")
          \/ x = "condition" /\ ~call.streamed /\ caller' = [caller EXCEPT !.errs = TRUE] /\ UNCHANGED expired
          \/ x \in Errors /\ (x = "hard" \/ call.streamed) /\ Return("failed")
    /\ UNCHANGED <<call, kind, expansion, candidates, todo, signal, consumer, check, found,
                   cancelled, poolVars>>

\* The channel is closed: an error of a condition counts while the list is short.
Finish ==
    /\ caller.at = "ranging" /\ results.q = <<>> /\ results.closed
    /\ Return(IF caller.errs /\ Len(caller.got) < call.max THEN "failed" ELSE "ok")
    /\ UNCHANGED <<call, kind, expansion, candidates, todo, signal, consumer, check, found,
                   cancelled, poolVars, results>>

Expire ==
    /\ ~expired /\ expired' = TRUE
    /\ UNCHANGED <<call, kind, expansion, candidates, todo, signal, consumer, check, found,
                   cancelled, poolVars, results, caller>>

Expansion == (\E o \in Objects : SendCandidate(o)) \/ CloseCandidates \/ ReturnExpansion
             \/ FailExpansion("cancelled")
Consumer  == LeaveLoop \/ Receive \/ CountDirect \/ PutDirect \/ StartCheck \/ Wait
             \/ SendError \/ CloseResults
Checks(o) == EndCheck(o) \/ PutChecked(o)
Caller    == Take \/ Finish

Next == \/ Expansion \/ FailExpansion("hard") \/ FailExpansion("condition")
        \/ Consumer \/ Caller \/ Expire
        \/ \E o \in Objects : Checks(o)

Spec == Init /\ [][Next]_vars

\* Goroutines are scheduled and calls of the store return.
FairSpec == /\ Spec
            /\ WF_vars(Expansion) /\ WF_vars(Consumer) /\ WF_vars(Caller)
            /\ \A o \in Objects : WF_vars(Checks(o))

-----------------------------------------------------------------------------

TypeOK ==
    /\ call \in Calls /\ kind \in Kinds
    /\ expansion \in {"running", "hard", "condition", "cancelled", "ended"}
    /\ candidates.q \in {<<>>} \cup {<<o>> : o \in Objects} /\ candidates.closed \in BOOLEAN
    /\ todo \subseteq Objects /\ signal \in BOOLEAN
    /\ consumer.at \in {"loop", "count", "put", "start", "wait", "error", "close", "ended"}
    /\ consumer.obj \in Objects \cup {NoObject}
    /\ check \in [Objects -> {"none", "running", "put", "ended"}]
    /\ found \in 0..Cardinality(Objects)
    /\ first \in {"none", "hard", "condition", "cancelled"}
    /\ Len(results.q) <= call.cap /\ results.closed \in BOOLEAN
    /\ caller.at \in {"ranging", "ok", "failed", "hung up"}
    /\ \A b \in {cancelled, stopped, expired, caller.errs} : b \in BOOLEAN

Related == {o \in Objects : kind[o] \in {"direct", "allowed"}}

\* Nothing is sent on the channel after it was closed: every goroutine that
\* sends on it is waited for, whatever ends the loop.
NoSendAfterClose == results.closed => Running = {} /\ expansion = "ended"

\* What the caller got is related, comes once, and is no more than the limit,
\* although counting an object and sending it are two steps of several
\* goroutines.
ListIsWithinLimit ==
    /\ Range(caller.got) \subseteq Related
    /\ \A i, j \in DOMAIN caller.got : i # j => caller.got[i] # caller.got[j]
    /\ call.max # 0 => Len(caller.got) <= call.max

\* A call that returns without an error before its deadline has the whole list,
\* or as much as the limit allows: no failed Check or reverse expansion is taken
\* for the end of the list.  Two cases are left out by name, both after cancel():
\* the limit was reached and a Check dropped what it had counted, and a Check
\* that the failing expansion had cancelled came first to the pool, which drops
\* the error of the expansion (list_objects.go:371-388, 446-448).  (With no
\* limit, errors of conditions are dropped.)
ListIsWhole ==
    [][(caller.at = "ranging" /\ caller'.at = "ok" /\ ~expired /\ call.max # 0) =>
        \/ Range(caller.got) = Related \/ Len(caller.got) = call.max
        \/ cancelled /\ (found >= call.max \/ first = "cancelled")]_vars

\* "cancel any inflight work if we already found enough results": a call that
\* stopped because the limit was reached, before its deadline and without any
\* failure, returns as many objects as the limit allows.
EnoughIsReturned ==
    [][(caller.at = "ranging" /\ caller'.at = "ok" /\ ~expired /\ call.max # 0 /\ found >= call.max
        /\ first \notin Errors) => Len(caller.got) = call.max]_vars

\* The call returns, and the handler ends and closes the channel of results:
\* nothing waits for ever for a place in a channel or in the pool.  A client
\* that hangs up may leave the handler behind with an error to send.
CallEnds == <>(caller.at # "ranging") /\ <>(consumer.at = "ended" \/ caller.at = "hung up")
=============================================================================
