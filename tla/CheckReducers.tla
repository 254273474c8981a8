---------------------------- MODULE CheckReducers ----------------------------
(***************************************************************************)
(* union, intersection and exclusion of LocalChecker: one call of a        *)
(* reducer starts its handlers in goroutines, receives their outcomes in   *)
(* whatever order they end, returns as soon as it can, and cancels the     *)
(* rest. The caller's context may end at any time.                         *)
(***************************************************************************)
EXTENDS Integers, FiniteSets

CONSTANTS
    Handlers,          \* the operands
    Base, Subtract,    \* the two of an exclusion
    ConcurrencyLimit

ASSUME ReducerAssumption ==
    /\ IsFiniteSet(Handlers)
    /\ {Base, Subtract} \subseteq Handlers
    /\ Base # Subtract
    /\ ConcurrencyLimit \in Nat \ {0}

(* "cycle" is a response that is not allowed and has CycleDetected set; a  *)
(* panic is an error.                                                      *)
Outcome == {"allowed", "denied", "cycle", "error"}
Answer == Outcome \cup {"cancelled"}

VARIABLES
    op,        \* which reducer is called
    finds,     \* what each handler finds out if it is left alone
    ended,     \* the caller's context is done
    worker,    \* the goroutine of each handler
    outcome,   \* what runHandler returned there
    out,       \* the handlers whose outcome is in the channel
    closed,    \* the channel is closed; in an exclusion each has its own
    main,      \* the reducer itself
    received,  \* the handlers whose outcome it has received
    missed,    \* how often it has received from a closed channel
    finalErr, cycle, \* its locals
    answer

vars == <<op, finds, ended, worker, outcome, out, closed, main, received, missed,
          finalErr, cycle, answer>>

Reducers == {"union", "intersection", "exclusion"}

(* The handlers the reducer is called with: exclusion takes two, in order; *)
(* to the others the order means nothing.                                  *)
Operands == IF op = "exclusion" THEN {Base, Subtract} ELSE Handlers

Init ==
    /\ op \in Reducers
    /\ finds \in [Handlers -> Outcome]
    /\ ended = FALSE
    /\ worker = [h \in Handlers |-> "new"]
    /\ outcome = [h \in Handlers |-> "denied"]
    /\ out = {}
    /\ closed = FALSE
    /\ main = "start"
    /\ received = {}
    /\ missed = 0
    /\ finalErr = FALSE
    /\ cycle = FALSE
    /\ answer = "denied"

(* The context of the handlers ends with the caller's and, by the deferred *)
(* cancel, when the reducer returns.                                       *)
Cancelled == ended \/ main = "returned"

Running == {h \in Handlers : worker[h] \in {"running", "sending"}}

(* pool.Go waits for a free goroutine; exclusion has no pool.              *)
Start(h) ==
    /\ main = "start"
    /\ worker[h] = "new"
    /\ op = "exclusion" \/ Cardinality(Running) < ConcurrencyLimit
    /\ worker' = [worker EXCEPT ![h] = "running"]
    /\ UNCHANGED <<op, finds, ended, outcome, out, closed, main, received, missed,
                   finalErr, cycle, answer>>

Started ==
    /\ main = "start"
    /\ \A h \in Operands : worker[h] # "new"
    /\ main' = "receive"
    /\ UNCHANGED <<op, finds, ended, worker, outcome, out, closed, received, missed,
                   finalErr, cycle, answer>>

(* runHandler: what the handler finds or, once its context is done, an     *)
(* error.                                                                  *)
RunHandler(h) ==
    /\ worker[h] = "running"
    /\ \E o \in {finds[h]} \cup (IF Cancelled THEN {"error"} ELSE {}) :
           outcome' = [outcome EXCEPT ![h] = o]
    /\ worker' = [worker EXCEPT ![h] = "sending"]
    /\ UNCHANGED <<op, finds, ended, out, closed, main, received, missed,
                   finalErr, cycle, answer>>

(* Mutant: a send that never waits, over a channel without room.           *)
TrySendOrDrop(h) ==
    /\ worker[h] = "sending"
    /\ worker' = [worker EXCEPT ![h] = "done"]
    /\ \/ out' = out \cup {h}
       \/ UNCHANGED out
    /\ UNCHANGED <<op, finds, ended, outcome, closed, main, received, missed,
                   finalErr, cycle, answer>>

(* The channel has room for every outcome. When the context is done too,   *)
(* select takes either case.                                               *)
TrySendThroughChannel(h) ==
    /\ worker[h] = "sending"
    /\ worker' = [worker EXCEPT ![h] = "done"]
    /\ \/ out' = out \cup {h}
       \/ Cancelled /\ UNCHANGED out
    /\ UNCHANGED <<op, finds, ended, outcome, closed, main, received, missed,
                   finalErr, cycle, answer>>

(* After pool.Wait.                                                        *)
CloseOut ==
    /\ main # "start"
    /\ ~closed
    /\ \A h \in Operands : worker[h] = "done"
    /\ closed' = TRUE
    /\ UNCHANGED <<op, finds, ended, worker, outcome, out, main, received, missed,
                   finalErr, cycle, answer>>

Return(a) ==
    /\ main' = "returned"
    /\ answer' = a
    /\ UNCHANGED <<op, finds, ended, worker, outcome, closed, missed>>

CallerGivesUp ==
    /\ ~ended
    /\ ended' = TRUE
    /\ UNCHANGED <<op, finds, worker, outcome, out, closed, main, received, missed,
                   finalErr, cycle, answer>>

-----------------------------------------------------------------------------

(* The loop over the outcomes has not ended.                               *)
Loop == main = "receive" /\ Cardinality(received) + missed < Cardinality(Operands)

(* Mutant: a union that stops at the first error.                          *)
DecidesOrFails(h) ==
    \/ op = "union" /\ outcome[h] \in {"allowed", "error"}
    \/ op = "intersection" /\ outcome[h] \in {"denied", "cycle"}
    \/ op = "exclusion" /\ outcome[h] \in {IF h = Base THEN "denied" ELSE "allowed", "cycle"}

(* The outcomes that settle the answer whatever the others are.            *)
Decides(h) ==
    \/ op = "union" /\ outcome[h] = "allowed"
    \/ op = "intersection" /\ outcome[h] \in {"denied", "cycle"}
    \/ op = "exclusion" /\ outcome[h] \in {IF h = Base THEN "denied" ELSE "allowed", "cycle"}

(* What a reducer returns then.                                            *)
Decision(h) ==
    IF op = "union" THEN "allowed" ELSE IF outcome[h] = "cycle" THEN "cycle" ELSE "denied"

Receive(h) ==
    /\ Loop
    /\ h \in out
    /\ out' = out \ {h}
    /\ received' = received \cup {h}
    /\ finalErr' = (finalErr \/ outcome[h] = "error")
    /\ cycle' = (cycle \/ outcome[h] = "cycle")
    /\ IF Decides(h)
       THEN Return(Decision(h))
       ELSE UNCHANGED <<op, finds, ended, worker, outcome, closed, main, missed, answer>>

(* break leaves the select, not the loop: the iteration counts. An         *)
(* exclusion stops listening to a closed channel instead.                  *)
ReceiveFromClosed ==
    /\ Loop
    /\ op # "exclusion"
    /\ closed
    /\ out = {}
    /\ missed' = missed + 1
    /\ UNCHANGED <<op, finds, ended, worker, outcome, out, closed, main, received,
                   finalErr, cycle, answer>>

ContextDone ==
    /\ Loop
    /\ ended
    /\ Return("cancelled")
    /\ UNCHANGED <<out, received, finalErr, cycle>>

(* No outcome was decisive.                                                *)
Undecided ==
    IF finalErr THEN "error"
    ELSE IF op # "union" THEN "allowed"
    ELSE IF cycle THEN "cycle" ELSE "denied"

Finish ==
    /\ main = "receive"
    /\ ~Loop
    /\ Return(Undecided)
    /\ UNCHANGED <<out, received, finalErr, cycle>>

Main == Started \/ ContextDone \/ ReceiveFromClosed \/ Finish
            \/ \E h \in Operands : Start(h) \/ Receive(h)

Worker(h) == RunHandler(h) \/ TrySendThroughChannel(h)

Next == Main \/ CloseOut \/ CallerGivesUp \/ \E h \in Operands : Worker(h)

Spec == Init /\ [][Next]_vars

(* Goroutines are scheduled and handlers return.                           *)
FairSpec ==
    /\ Spec
    /\ WF_vars(Main) /\ WF_vars(CloseOut)
    /\ \A h \in Handlers : WF_vars(Worker(h))

-----------------------------------------------------------------------------

TypeOK ==
    /\ op \in Reducers
    /\ finds \in [Handlers -> Outcome]
    /\ ended \in BOOLEAN
    /\ worker \in [Handlers -> {"new", "running", "sending", "done"}]
    /\ outcome \in [Handlers -> Outcome]
    /\ out \subseteq Handlers
    /\ closed \in BOOLEAN
    /\ main \in {"start", "receive", "returned"}
    /\ received \subseteq Handlers
    /\ missed \in Nat
    /\ finalErr \in BOOLEAN
    /\ cycle \in BOOLEAN
    /\ answer \in Answer

Finds(o) == \E h \in Operands : finds[h] = o

(* What the operands' outcomes mean, whatever their order: the reference   *)
(* the reducers are checked against. Where both a plain denial and a cycle *)
(* decide, either may be reported.                                         *)
Denied == finds[Base] = "denied" \/ finds[Subtract] = "allowed"

Right(a) ==
    /\ op = "union" =>
           IF Finds("allowed") THEN a = "allowed"
           ELSE IF Finds("error") THEN a = "error"
           ELSE IF Finds("cycle") THEN a = "cycle" ELSE a = "denied"
    /\ op = "intersection" =>
           IF Finds("denied") \/ Finds("cycle") THEN a \in {"denied", "cycle"} /\ Finds(a)
           ELSE IF Finds("error") THEN a = "error" ELSE a = "allowed"
    /\ op = "exclusion" =>
           IF Denied \/ Finds("cycle")
           THEN (a = "denied" /\ Denied) \/ (a = "cycle" /\ Finds("cycle"))
           ELSE IF Finds("error") THEN a = "error" ELSE a = "allowed"

(* A call whose caller did not give up answers what its operands mean,     *)
(* whatever the order in which they end and although it returns at the     *)
(* first decisive one: an error never hides a decisive outcome, and is     *)
(* never lost when there is none.                                          *)
AnswersAreRight == main = "returned" /\ ~ended => Right(answer)

(* Every call returns and all its goroutines end, also when the pool is    *)
(* smaller than the number of handlers, when the reducer returned before   *)
(* they sent, and when the caller gave up.                                 *)
CallsEnd == main = "start" ~> main = "returned" /\ closed

(* "requires all of the provided CheckHandlerFunc to resolve to an allowed *)
(* outcome" (check.go, intersection): an allowed answer means that, even   *)
(* for a caller that gave up.                                              *)
AllowedMeansAllowed ==
    main = "returned" /\ answer = "allowed" /\ op = "intersection"
        => \A h \in Operands : finds[h] = "allowed"
=============================================================================
