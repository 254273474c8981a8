------------------------- MODULE CheckReducersProofs -------------------------
(***************************************************************************)
(* The answers of union, intersection and exclusion are right for any      *)
(* number of handlers and any concurrency limit, and a batch answers each  *)
(* of its checks as Check would alone.                                     *)
(***************************************************************************)
EXTENDS CheckReducers, BatchChecks, FiniteSetTheorems, WellFoundedInduction, TLAPS

(* Only a goroutine that has ended has sent.                               *)
SentByDone == \A h \in out \cup received : h \in Operands /\ worker[h] = "done"

(* Until the handlers' context is done nothing is lost: every goroutine    *)
(* that ended has sent what its handler found.                             *)
NothingLost ==
    ~Cancelled =>
        /\ missed = 0
        /\ \A h \in Handlers : worker[h] \in {"sending", "done"} => outcome[h] = finds[h]
        /\ \A h \in Operands : worker[h] = "done" => h \in out \cup received

(* The locals of the reducer sum up what it has received.                  *)
LocalsSumUp ==
    main # "returned" =>
        /\ finalErr <=> \E h \in received : outcome[h] = "error"
        /\ cycle <=> \E h \in received : outcome[h] = "cycle"
        /\ \A h \in received : ~Decides(h)

ClosedAtEnd == closed => \A h \in Operands : worker[h] = "done"

ReducerInv ==
    /\ TypeOK
    /\ SentByDone
    /\ NothingLost
    /\ LocalsSumUp
    /\ ClosedAtEnd
    /\ AnswersAreRight

-----------------------------------------------------------------------------

(* The operands are handlers, and finitely many.                           *)
LEMMA OperandsAreHandlers == Operands \subseteq Handlers /\ IsFiniteSet(Operands)
<1>1. Operands \subseteq Handlers
  BY ReducerAssumption DEF Operands
<1> QED
  BY <1>1, ReducerAssumption, FS_Subset

(* When as many outcomes were received as there are operands, all were.    *)
LEMMA AllReceived ==
    ASSUME TypeOK, SentByDone, missed = 0, main = "receive", ~Loop
    PROVE  received = Operands
<1>1. received \subseteq Operands
  BY DEF SentByDone
<1>2. /\ IsFiniteSet(received)
      /\ Cardinality(received) <= Cardinality(Operands)
      /\ Cardinality(received) = Cardinality(Operands) => received = Operands
  BY <1>1, OperandsAreHandlers, FS_Subset
<1>3. Cardinality(received) \in Nat /\ Cardinality(Operands) \in Nat
  BY <1>2, OperandsAreHandlers, FS_CardinalityType
<1> QED
  BY <1>2, <1>3 DEF Loop

(* A decisive outcome is the answer whatever the other operands find.      *)
LEMMA DecisionsAreRight ==
    ASSUME TypeOK, NEW h \in Operands, outcome[h] = finds[h], Decides(h)
    PROVE  Right(Decision(h)) /\ Decision(h) \in Answer
<1>1. h \in Handlers /\ outcome[h] \in Outcome
  BY OperandsAreHandlers DEF TypeOK
<1>2. CASE op = "union"
  BY <1>1, <1>2 DEF Decides, Decision, Right, Finds, Answer, Outcome
<1>3. CASE op = "intersection"
  BY <1>1, <1>3 DEF Decides, Decision, Right, Finds, Answer, Outcome
<1>4. CASE op = "exclusion"
  <2>1. h = Base \/ h = Subtract
    BY <1>4 DEF Operands
  <2> QED
    BY <1>1, <1>4, <2>1 DEF Decides, Decision, Right, Denied, Finds, Answer, Outcome
<1> QED
  BY <1>2, <1>3, <1>4 DEF TypeOK, Reducers

(* With every outcome received and none decisive, the end of the reducer   *)
(* is right.                                                               *)
LEMMA UndecidedIsRight ==
    ASSUME TypeOK, LocalsSumUp, main = "receive", received = Operands,
           \A h \in Operands : outcome[h] = finds[h]
    PROVE  Right(Undecided)
<1>1. \A h \in Operands : outcome[h] \in Outcome /\ ~Decides(h)
  BY OperandsAreHandlers DEF TypeOK, LocalsSumUp
<1>2. /\ finalErr <=> Finds("error")
      /\ cycle <=> Finds("cycle")
  BY DEF LocalsSumUp, Finds
<1>3. CASE op = "union"
  BY <1>1, <1>2, <1>3 DEF Decides, Undecided, Right, Finds, Outcome
<1>4. CASE op = "intersection"
  BY <1>1, <1>2, <1>4 DEF Decides, Undecided, Right, Finds, Outcome
<1>5. CASE op = "exclusion"
  <2>1. Base \in Operands /\ Subtract \in Operands /\ \A h \in Operands : h = Base \/ h = Subtract
    BY <1>5 DEF Operands
  <2>2. ~Denied /\ ~Finds("cycle")
    BY <1>1, <1>5, <2>1, ReducerAssumption DEF Decides, Denied, Finds, Outcome
  <2> QED
    BY <1>2, <1>5, <2>2 DEF Undecided, Right
<1> QED
  BY <1>3, <1>4, <1>5 DEF TypeOK, Reducers

-----------------------------------------------------------------------------

(* Nothing has started.                                                    *)
LEMMA ReducerInitially == Init => ReducerInv
<1> SUFFICES ASSUME Init
             PROVE  ReducerInv
  OBVIOUS
<1>1. TypeOK
  BY DEF Init, TypeOK, Outcome, Answer
<1>2. SentByDone /\ LocalsSumUp /\ ClosedAtEnd /\ AnswersAreRight
  BY DEF Init, SentByDone, LocalsSumUp, ClosedAtEnd, AnswersAreRight
<1>3. NothingLost
  BY OperandsAreHandlers DEF Init, NothingLost
<1> QED
  BY <1>1, <1>2, <1>3 DEF ReducerInv

(* Every action preserves the invariant.                                   *)
LEMMA ReducerStep == ReducerInv /\ [Next]_vars => ReducerInv'
<1> SUFFICES ASSUME ReducerInv, [Next]_vars
             PROVE  ReducerInv'
  OBVIOUS
<1> USE DEF ReducerInv
<1>a. Operands \subseteq Handlers
  BY OperandsAreHandlers
<1>1. ASSUME NEW h \in Operands, Start(h)
      PROVE  ReducerInv'
  BY <1>a, <1>1 DEF Start, TypeOK, SentByDone, NothingLost, Cancelled, LocalsSumUp, Decides,
                    ClosedAtEnd, AnswersAreRight, Right, Denied, Finds, Operands
<1>2. CASE Started
  BY <1>2 DEF Started, TypeOK, SentByDone, NothingLost, Cancelled, LocalsSumUp, Decides,
              ClosedAtEnd, AnswersAreRight, Right, Denied, Finds, Operands
<1>3. ASSUME NEW h \in Operands, RunHandler(h)
      PROVE  ReducerInv'
  <2>1. TypeOK'
    BY <1>a, <1>3 DEF RunHandler, TypeOK, Outcome
  <2>2. /\ UNCHANGED <<op, finds, ended, out, closed, main, received, missed, finalErr, cycle, answer>>
        /\ \A g \in Handlers : g # h => worker'[g] = worker[g] /\ outcome'[g] = outcome[g]
        /\ worker[h] = "running" /\ worker'[h] = "sending"
    BY <1>a, <1>3 DEF RunHandler, TypeOK
  <2>3. h \notin out \cup received
    BY <2>2 DEF SentByDone
  <2>4. ~Cancelled => outcome'[h] = finds[h]
    BY <1>a, <1>3 DEF RunHandler, TypeOK
  <2>5. SentByDone' /\ ClosedAtEnd' /\ AnswersAreRight'
    BY <1>a, <2>2, <2>3 DEF SentByDone, ClosedAtEnd, AnswersAreRight, Right, Denied, Finds, Operands
  <2>6. NothingLost'
    BY <1>a, <2>2, <2>3, <2>4 DEF NothingLost, Cancelled, Operands
  <2>7. LocalsSumUp'
    BY <1>a, <2>2, <2>3 DEF LocalsSumUp, Decides, SentByDone
  <2> QED
    BY <2>1, <2>5, <2>6, <2>7
<1>4. ASSUME NEW h \in Operands, TrySendThroughChannel(h)
      PROVE  ReducerInv'
  <2>1. /\ UNCHANGED <<op, finds, ended, outcome, closed, main, received, missed, finalErr, cycle, answer>>
        /\ \A g \in Handlers : g # h => worker'[g] = worker[g]
        /\ worker[h] = "sending" /\ worker'[h] = "done"
        /\ out' = out \cup {h} \/ (Cancelled /\ out' = out)
    BY <1>a, <1>4 DEF TrySendThroughChannel, TypeOK
  <2>2. TypeOK'
    BY <1>a, <1>4 DEF TrySendThroughChannel, TypeOK
  <2>3. SentByDone' /\ ClosedAtEnd' /\ AnswersAreRight'
    BY <1>a, <2>1 DEF SentByDone, ClosedAtEnd, AnswersAreRight, Right, Denied, Finds, Operands
  <2>4. NothingLost'
    BY <1>a, <2>1 DEF NothingLost, Cancelled, Operands
  <2>5. LocalsSumUp'
    BY <2>1 DEF LocalsSumUp, Decides
  <2> QED
    BY <2>2, <2>3, <2>4, <2>5
<1>5. CASE CloseOut
  BY <1>5 DEF CloseOut, TypeOK, SentByDone, NothingLost, Cancelled, LocalsSumUp, Decides,
              ClosedAtEnd, AnswersAreRight, Right, Denied, Finds, Operands
<1>6. CASE CallerGivesUp
  BY <1>6 DEF CallerGivesUp, TypeOK, SentByDone, NothingLost, Cancelled, LocalsSumUp, Decides,
              ClosedAtEnd, AnswersAreRight, Right, Denied, Finds, Operands
<1>7. ASSUME NEW h \in Operands, Receive(h)
      PROVE  ReducerInv'
  <2>1. /\ UNCHANGED <<op, finds, ended, worker, outcome, closed, missed>>
        /\ main = "receive" /\ h \in out
        /\ out' = out \ {h} /\ received' = received \cup {h}
        /\ finalErr' = (finalErr \/ outcome[h] = "error")
        /\ cycle' = (cycle \/ outcome[h] = "cycle")
    BY <1>7 DEF Receive, Return, Loop
  <2>2. CASE Decides(h)
    <3>1. main' = "returned" /\ answer' = Decision(h)
      BY <1>7, <2>2 DEF Receive, Return
    <3>2. Decision(h) \in Answer
      BY DEF Decision, Answer, Outcome
    <3>3. TypeOK' /\ SentByDone' /\ NothingLost' /\ LocalsSumUp' /\ ClosedAtEnd'
      BY <1>a, <2>1, <3>1, <3>2 DEF TypeOK, SentByDone, NothingLost, Cancelled, LocalsSumUp,
                                    ClosedAtEnd, Operands
    <3>4. ~ended => Right(Decision(h))
      BY <1>a, <2>1, <2>2, DecisionsAreRight DEF SentByDone, NothingLost, Cancelled
    <3>5. AnswersAreRight'
      BY <2>1, <3>1, <3>4 DEF AnswersAreRight, Right, Denied, Finds, Operands
    <3> QED
      BY <3>3, <3>5
  <2>3. CASE ~Decides(h)
    <3>1. main' = main /\ answer' = answer
      BY <1>7, <2>3 DEF Receive
    <3>2. TypeOK' /\ SentByDone' /\ ClosedAtEnd' /\ AnswersAreRight'
      BY <1>a, <2>1, <3>1 DEF TypeOK, SentByDone, ClosedAtEnd, AnswersAreRight, Operands
    <3>3. NothingLost'
      BY <1>a, <2>1, <3>1 DEF NothingLost, Cancelled, Operands
    <3>4. LocalsSumUp'
      BY <2>1, <2>3, <3>1 DEF TypeOK, LocalsSumUp, Decides
    <3> QED
      BY <3>2, <3>3, <3>4
  <2> QED
    BY <2>2, <2>3
<1>8. CASE ReceiveFromClosed
  <2>1. /\ UNCHANGED <<op, finds, ended, worker, outcome, out, closed, main, received,
                       finalErr, cycle, answer>>
        /\ missed' = missed + 1
        /\ closed /\ out = {} /\ main = "receive" /\ Loop
    BY <1>8 DEF ReceiveFromClosed, Loop
  <2>2. Cancelled
    <3> SUFFICES ASSUME ~Cancelled
                 PROVE  FALSE
      OBVIOUS
    <3>1. missed = 0 /\ received = Operands
      BY <2>1 DEF NothingLost, ClosedAtEnd, SentByDone
    <3>2. Cardinality(Operands) \in Nat
      BY OperandsAreHandlers, FS_CardinalityType
    <3> QED
      BY <2>1, <3>1, <3>2 DEF Loop
  <2>3. TypeOK' /\ SentByDone' /\ NothingLost' /\ ClosedAtEnd' /\ AnswersAreRight'
    BY <2>1, <2>2 DEF TypeOK, SentByDone, NothingLost, Cancelled, ClosedAtEnd, AnswersAreRight, Operands
  <2>4. LocalsSumUp'
    BY <2>1 DEF LocalsSumUp, Decides
  <2> QED
    BY <2>3, <2>4
<1>9. CASE ContextDone
  BY <1>9 DEF ContextDone, Return, TypeOK, Answer, SentByDone, NothingLost, Cancelled, LocalsSumUp,
              ClosedAtEnd, AnswersAreRight, Operands
<1>10. CASE Finish
  <2>1. /\ UNCHANGED <<op, finds, ended, worker, outcome, out, closed, received, missed,
                       finalErr, cycle>>
        /\ main = "receive" /\ ~Loop
        /\ main' = "returned" /\ answer' = Undecided
    BY <1>10 DEF Finish, Return
  <2>2. Undecided \in Answer
    BY DEF Undecided, Answer, Outcome
  <2>3. TypeOK' /\ SentByDone' /\ NothingLost' /\ LocalsSumUp' /\ ClosedAtEnd'
    BY <2>1, <2>2 DEF TypeOK, SentByDone, NothingLost, Cancelled, LocalsSumUp, ClosedAtEnd, Operands
  <2>4. ASSUME ~ended
        PROVE  Right(Undecided)
    <3>1. ~Cancelled
      BY <2>1, <2>4 DEF Cancelled
    <3>2. received = Operands
      BY <2>1, <3>1, AllReceived DEF NothingLost
    <3>3. \A h \in Operands : outcome[h] = finds[h]
      BY <1>a, <3>1, <3>2 DEF NothingLost, SentByDone
    <3> QED
      BY <2>1, <3>2, <3>3, UndecidedIsRight
  <2>5. AnswersAreRight'
    BY <2>1, <2>4 DEF AnswersAreRight, Right, Denied, Finds, Operands
  <2> QED
    BY <2>3, <2>5
<1>11. CASE UNCHANGED vars
  BY <1>11 DEF vars, TypeOK, SentByDone, NothingLost, Cancelled, LocalsSumUp, Decides,
               ClosedAtEnd, AnswersAreRight, Right, Denied, Finds, Operands
<1> QED
  BY <1>1, <1>2, <1>3, <1>4, <1>5, <1>6, <1>7, <1>8, <1>9, <1>10, <1>11 DEF Next, Main, Worker

(* For any finite set of operands, any concurrency limit and any order in  *)
(* which the handlers end, union, intersection and exclusion answer what   *)
(* their operands mean, unless the caller gave up.                         *)
THEOREM ReducersAreRight == Spec => []AnswersAreRight
<1>1. ReducerInv => AnswersAreRight
  BY DEF ReducerInv
<1> QED
  BY ReducerInitially, ReducerStep, <1>1, PTL DEF Spec

(* Every variable of a call keeps its type.                                *)
THEOREM ReducerTypes == Spec => []TypeOK
<1>1. ReducerInv => TypeOK
  BY DEF ReducerInv
<1> QED
  BY ReducerInitially, ReducerStep, <1>1, PTL DEF Spec

-----------------------------------------------------------------------------
(* A call runs out. *)

(* One of the goroutines can take a step: a handler runs or sends; the     *)
(* reducer starts one, or has started all; the channel is closed; or it    *)
(* receives or leaves its loop.                                            *)
CanMove ==
    \/ \E h \in Operands : worker[h] \in {"running", "sending"}
    \/ /\ main = "start"
       /\ \/ \A h \in Operands : worker[h] # "new"
          \/ op = "exclusion"
          \/ Cardinality(Running) < ConcurrencyLimit
    \/ main # "start" /\ ~closed /\ \A h \in Operands : worker[h] = "done"
    \/ main = "receive" /\ ~Loop
    \/ Loop /\ (out # {} \/ ended \/ (closed /\ op # "exclusion"))

NeverStuck == (main = "returned" /\ closed) \/ CanMove

(* The loop runs once for each operand at most.                            *)
Counted == Cardinality(received) + missed <= Cardinality(Operands)

(* A step takes a handler, the reducer, the channel or the caller forward, *)
(* and none of them back: each has finitely many steps ahead.              *)
Onward(before, after) ==
    \/ after = before
    \/ before = "new" /\ after = "running"
    \/ before = "running" /\ after = "sending"
    \/ before = "sending" /\ after = "done"

Advances ==
    /\ \A h \in Handlers : Onward(worker[h], worker'[h])
    /\ received \subseteq received' /\ missed <= missed'
    /\ main' = main \/ main = "start" \/ main' = "returned"
    /\ closed => closed'
    /\ ended => ended'
    /\ \/ worker' # worker \/ received' # received \/ missed' # missed
       \/ main' # main \/ closed' # closed \/ ended' # ended

AllStarted == main # "start" => \A h \in Operands : worker[h] # "new"

SentOnce == out \cap received = {}

OthersRest == \A h \in Handlers \ Operands : worker[h] = "new"

RunInv == ReducerInv /\ AllStarted /\ SentOnce /\ OthersRest /\ Counted

LEMMA RunInitially == Init => RunInv
<1> SUFFICES ASSUME Init PROVE RunInv
  OBVIOUS
<1>1. ReducerInv BY ReducerInitially
<1>2. Cardinality(received) = 0 /\ missed = 0 BY FS_EmptySet DEF Init
<1>3. Cardinality(Operands) \in Nat BY OperandsAreHandlers, FS_CardinalityType
<1> QED BY <1>1, <1>2, <1>3 DEF Init, RunInv, AllStarted, SentOnce, OthersRest, Counted

LEMMA RunStep == RunInv /\ [Next]_vars => RunInv' /\ [Advances]_vars
<1> SUFFICES ASSUME RunInv, [Next]_vars PROVE RunInv' /\ [Advances]_vars
  OBVIOUS
<1>a. ReducerInv' /\ ReducerInv BY ReducerStep DEF RunInv
<1>b. TypeOK /\ TypeOK' /\ Operands \subseteq Handlers BY <1>a, OperandsAreHandlers DEF ReducerInv
<1>c. op' = op BY DEF Next, Main, Worker, Start, Started, RunHandler, TrySendThroughChannel, CloseOut,
                      CallerGivesUp, Receive, ReceiveFromClosed, ContextDone, Finish, Return, vars
<1>d. Operands' = Operands BY <1>c DEF Operands
<1>e. /\ Cardinality(Operands) \in Nat /\ Cardinality(received) \in Nat /\ missed \in Nat
      /\ IsFiniteSet(received)
  BY <1>b, OperandsAreHandlers, ReducerAssumption, FS_Subset, FS_CardinalityType DEF TypeOK
<1>f. AllStarted /\ SentOnce /\ OthersRest /\ Counted BY DEF RunInv
(* One handler goes on.                                                    *)
<1>g. ASSUME NEW h \in Operands, NEW to \in {"running", "sending", "done"},
             worker' = [worker EXCEPT ![h] = to], Onward(worker[h], to), worker[h] # to,
             UNCHANGED <<received, missed, main, closed, ended>>, SentOnce'
      PROVE  RunInv' /\ Advances
  <2>1. h \in Handlers /\ worker'[h] = to /\ \A g \in Handlers \ {h} : worker'[g] = worker[g]
    BY <1>b, <1>g DEF TypeOK
  <2>2. \A g \in Handlers : Onward(worker[g], worker'[g]) BY <1>g, <2>1 DEF Onward
  <2>3. worker' # worker BY <1>g, <2>1
  <2>4. AllStarted' /\ OthersRest' BY <1>b, <1>d, <1>f, <1>g, <2>1 DEF AllStarted, OthersRest
  <2>5. Counted' BY <1>d, <1>f, <1>g DEF Counted
  <2> QED BY <1>a, <1>e, <1>g, <2>2, <2>3, <2>4, <2>5 DEF RunInv, Advances
(* No handler does.                                                        *)
<1>h. ASSUME UNCHANGED worker, received \subseteq received', missed <= missed',
             main' = main \/ main' = "returned" \/ (main = "start" /\ \A h \in Operands : worker[h] # "new"),
             main = "returned" => main' = main, main' = "start" => main = "start",
             closed => closed', ended => ended', SentOnce', Counted',
             \/ received' # received \/ missed' # missed \/ main' # main
             \/ closed' # closed \/ ended' # ended,
             main # "start" \/ main' # "returned"
      PROVE  RunInv' /\ Advances
  <2>1. AllStarted' /\ OthersRest' BY <1>d, <1>f, <1>h DEF AllStarted, OthersRest
  <2>2. \A h \in Handlers : Onward(worker[h], worker'[h]) BY <1>h DEF Onward
  <2> QED BY <1>a, <1>h, <2>1, <2>2 DEF RunInv, Advances
<1>1. ASSUME NEW h \in Operands, Start(h) PROVE RunInv' /\ Advances
  BY <1>1, <1>f, <1>g DEF Start, Onward, SentOnce
<1>2. CASE Started
  <2>1. Counted' /\ SentOnce' BY <1>2, <1>d, <1>f DEF Started, Counted, SentOnce
  <2> QED BY <1>2, <1>e, <1>h, <2>1 DEF Started
<1>3. ASSUME NEW h \in Operands, RunHandler(h) PROVE RunInv' /\ Advances
  BY <1>3, <1>f, <1>g DEF RunHandler, Onward, SentOnce
<1>4. ASSUME NEW h \in Operands, TrySendThroughChannel(h) PROVE RunInv' /\ Advances
  <2>1. h \notin received BY <1>4, <1>a DEF TrySendThroughChannel, ReducerInv, SentByDone
  <2>2. SentOnce' BY <1>4, <1>f, <2>1 DEF TrySendThroughChannel, SentOnce
  <2> QED BY <1>4, <1>g, <2>2 DEF TrySendThroughChannel, Onward
<1>5. CASE CloseOut \/ CallerGivesUp
  <2>1. UNCHANGED <<worker, received, missed, main, out>> BY <1>5 DEF CloseOut, CallerGivesUp
  <2>2. Counted' /\ SentOnce' BY <1>d, <1>f, <2>1 DEF Counted, SentOnce
  <2>3. (closed' = TRUE /\ ~closed /\ ended' = ended) \/ (ended' = TRUE /\ ~ended /\ closed' = closed)
    <3>1. CASE CloseOut BY <3>1, Zenon DEF CloseOut
    <3>2. CASE CallerGivesUp BY <3>2, Zenon DEF CallerGivesUp
    <3> QED BY <1>5, <3>1, <3>2
  <2>4. (closed => closed') /\ (ended => ended') /\ (closed' # closed \/ ended' # ended)
    <3>1. CASE closed' = TRUE /\ ~closed /\ ended' = ended BY <3>1, Zenon
    <3>2. CASE ended' = TRUE /\ ~ended /\ closed' = closed BY <3>2, Zenon
    <3> QED BY <2>3, <3>1, <3>2
  <2>5. Advances /\ AllStarted' /\ OthersRest'
    BY <1>d, <1>e, <1>f, <2>1, <2>4 DEF Advances, Onward, AllStarted, OthersRest
  <2> QED BY <1>a, <2>2, <2>5 DEF RunInv
<1>6. ASSUME NEW h \in Operands, Receive(h) PROVE RunInv' /\ Advances
  <2>1. /\ Loop /\ h \in out /\ out' = out \ {h} /\ received' = received \cup {h}
        /\ UNCHANGED <<worker, closed, missed, ended>> /\ main' \in {main, "returned"}
    BY <1>6 DEF Receive, Return
  <2>2. h \notin received /\ SentOnce' BY <1>f, <2>1 DEF SentOnce
  <2>3. Cardinality(received') = Cardinality(received) + 1 BY <1>e, <2>1, <2>2, FS_AddElement
  <2>4. Counted' BY <1>d, <1>e, <2>1, <2>3 DEF Counted, Loop
  <2>5. received' # received BY <2>1, <2>2
  <2>6. main = "receive" BY <2>1 DEF Loop
  <2> QED BY <1>e, <1>h, <2>1, <2>2, <2>4, <2>5, <2>6
<1>7. CASE ReceiveFromClosed
  <2>1. Loop /\ missed' = missed + 1 /\ UNCHANGED <<worker, received, out, main, closed, ended>>
    BY <1>7 DEF ReceiveFromClosed
  <2>2. Counted' /\ SentOnce' BY <1>d, <1>e, <1>f, <2>1 DEF Counted, SentOnce, Loop
  <2>3. main = "receive" BY <2>1 DEF Loop
  <2> QED BY <1>e, <1>h, <2>1, <2>2, <2>3
<1>8. CASE ContextDone \/ Finish
  <2>1. /\ main = "receive" /\ main' = "returned"
        /\ UNCHANGED <<worker, received, missed, out, closed, ended>>
    BY <1>8 DEF ContextDone, Finish, Return, Loop
  <2>2. Counted' /\ SentOnce' BY <1>d, <1>f, <2>1 DEF Counted, SentOnce
  <2> QED BY <1>e, <1>h, <2>1, <2>2
<1>9. CASE UNCHANGED vars
  <2>1. AllStarted' /\ SentOnce' /\ OthersRest' /\ Counted'
    BY <1>9, <1>d, <1>f DEF vars, AllStarted, SentOnce, OthersRest, Counted
  <2> QED BY <1>9, <1>a, <2>1 DEF RunInv
<1> QED
  BY <1>1, <1>2, <1>3, <1>4, <1>5, <1>6, <1>7, <1>8, <1>9 DEF Next, Main, Worker

LEMMA RunsOn == RunInv => NeverStuck
<1> SUFFICES ASSUME RunInv, ~(main = "returned" /\ closed),
                    \A h \in Operands : worker[h] \notin {"running", "sending"}
             PROVE  CanMove
  BY DEF NeverStuck, CanMove
<1>a. TypeOK /\ Operands \subseteq Handlers BY OperandsAreHandlers DEF RunInv, ReducerInv
<1>1. CASE main = "start"
  <2>1. CASE op = "exclusion" BY <1>1, <2>1 DEF CanMove
  <2>2. CASE op # "exclusion"
    <3>1. Operands = Handlers BY <2>2 DEF Operands
    <3>2. Running = {} BY <3>1 DEF Running
    <3>3. Cardinality(Running) < ConcurrencyLimit BY <3>2, FS_EmptySet, ReducerAssumption
    <3> QED BY <1>1, <3>3 DEF CanMove
  <2> QED BY <2>1, <2>2
<1>2. CASE main # "start"
  <2>1. \A h \in Operands : worker[h] = "done" BY <1>2, <1>a DEF RunInv, AllStarted, TypeOK
  <2>2. CASE ~closed BY <1>2, <2>1, <2>2 DEF CanMove
  <2>3. CASE closed /\ ~Loop
    <3>1. main = "receive" BY <1>2, <1>a, <2>3 DEF TypeOK
    <3> QED BY <2>3, <3>1 DEF CanMove
  <2>4. CASE closed /\ Loop
    <3> SUFFICES ASSUME out = {}, ~ended PROVE FALSE
      BY <2>4 DEF CanMove
    <3>1. ~Cancelled BY <2>4 DEF Loop, Cancelled
    <3>2. missed = 0 /\ received = Operands
      BY <2>1, <3>1 DEF RunInv, ReducerInv, NothingLost, SentByDone
    <3>3. Cardinality(Operands) \in Nat BY OperandsAreHandlers, FS_CardinalityType
    <3> QED BY <2>4, <3>2, <3>3 DEF Loop
  <2> QED BY <2>2, <2>3, <2>4
<1> QED BY <1>1, <1>2

(* A reducer's call never waits for nothing: until it has returned and its *)
(* channel is closed some goroutine of it can go on, also with a pool      *)
(* smaller than the operands, after an early return, and when the caller   *)
(* gave up; and every step brings it closer to its end, of which there are *)
(* finitely many. With the fairness of CallsEnd, every call ends.          *)
THEOREM CallsRunOut == Spec => [](NeverStuck /\ Counted) /\ [][Advances]_vars
<1>1. RunInv => NeverStuck /\ Counted BY RunsOn DEF RunInv
<1> QED BY <1>1, RunInitially, RunStep, PTL DEF Spec

-----------------------------------------------------------------------------
(* Batches of checks. *)

(* Every set of natural numbers that has a member has a least one.         *)
LEMMA LeastNatural ==
    ASSUME NEW T \in SUBSET Nat, T # {}
    PROVE  \E x \in T : \A y \in T : x <= y
<1> DEFINE R == {ss \in Nat \X Nat : ss[1] < ss[2]}
<1>1. IsWellFoundedOn(R, Nat) BY NatLessThanWellFounded DEF OpToRel
<1>2. PICK x \in T : \A y \in T : ~(<<y, x>> \in R)
  <2> HIDE DEF R
  <2> QED BY <1>1, WFMin
<1>3. \A y \in T : ~(y < x) BY <1>2
<1> QED BY <1>3

(* First finds the first check with the key.                               *)
LEMMA FirstHasKey ==
    ASSUME NEW S, NEW checks \in Seq(S), NEW i \in DOMAIN checks
    PROVE  /\ First(checks, checks[i]) \in DOMAIN checks
           /\ Hash(CacheKey(checks[First(checks, checks[i])])) = Hash(CacheKey(checks[i]))
<1> DEFINE Key(c) == Hash(CacheKey(c))
           T == {j \in DOMAIN checks : Key(checks[j]) = Key(checks[i])}
<1>1. T \in SUBSET Nat /\ i \in T /\ DOMAIN checks = 1..Len(checks) /\ Len(checks) \in Nat OBVIOUS
<1>2. PICK k \in T : \A j \in T : k <= j BY <1>1, LeastNatural
<1>3. \A j \in 1..(k - 1) : Key(checks[j]) # Key(checks[i])
  <2> SUFFICES ASSUME NEW j \in 1..(k - 1), Key(checks[j]) = Key(checks[i]) PROVE FALSE OBVIOUS
  <2>1. j \in T /\ j < k BY <1>1, <1>2
  <2> QED BY <1>1, <1>2, <2>1
<1>4. k \in DOMAIN checks /\ Key(checks[k]) = Key(checks[i]) BY <1>2
<1> HIDE DEF T
<1> QED BY <1>3, <1>4 DEF First, generateCacheKeyFromCheck

(* Whatever texts contexts have, whatever the hash is and whatever Check   *)
(* answers, a batch that is not refused answers each of its checks as      *)
(* Check answers some check of it that the key cannot tell from this one,  *)
(* so exactly as Check answers it alone where the key tells it from all    *)
(* others: executing the checks that have one key once, the first for all, *)
(* mixes up no more than spelling and hashing do.                          *)
THEOREM BatchAnswersLikeCheck ==
    ASSUME NEW S, NEW checks \in Seq(S),
           Len(checks) \in 1..MaxChecks, validateCorrelationIDs(checks),
           NEW i \in DOMAIN checks
    PROVE  LET told == HandleBatchCheck(checks)[checks[i].id]
           IN /\ \E j \in DOMAIN checks : MixedUp(checks[i], checks[j]) /\ told = HandleCheck(checks[j])
              /\ (\A j \in DOMAIN checks : MixedUp(checks[i], checks[j]) =>
                     <<checks[j].e, checks[j].obj, checks[j].rel>>
                        = <<checks[i].e, checks[i].obj, checks[i].rel>>)
                 => told = HandleCheck(checks[i])
<1> DEFINE f == First(checks, checks[i])
           ids == {checks[j].id : j \in DOMAIN checks}
<1>1. DOMAIN checks = 1..Len(checks) /\ Len(checks) \in Nat OBVIOUS
<1>2. f \in DOMAIN checks /\ Hash(CacheKey(checks[f])) = Hash(CacheKey(checks[i])) BY FirstHasKey
<1> HIDE DEF f
<1>3. MixedUp(checks[i], checks[f])
  <2>1. CASE CacheKey(checks[f]) = CacheKey(checks[i]) BY <2>1 DEF CacheKey, MixedUp
  <2>2. CASE CacheKey(checks[f]) # CacheKey(checks[i]) BY <1>2, <2>2 DEF MixedUp
  <2> QED BY <2>1, <2>2
<1>4. (CHOOSE j \in DOMAIN checks : checks[j].id = checks[i].id) = i
  <2>1. ASSUME NEW j \in DOMAIN checks, checks[j].id = checks[i].id PROVE j = i
    <3>1. j \in Nat /\ i \in Nat BY <1>1
    <3>2. ~(j < i) /\ ~(i < j) BY <2>1 DEF validateCorrelationIDs
    <3> QED BY <3>1, <3>2
  <2> QED BY <2>1
<1>5. checks[i].id \in ids OBVIOUS
<1>6. BatchCheck(checks)[checks[i].id] = Outcomes(checks[f].e, checks[f].obj, checks[f].rel)
  BY <1>4, <1>5 DEF BatchCheck, f
<1>7. DOMAIN BatchCheck(checks) = ids BY DEF BatchCheck
<1>8. HandleBatchCheck(checks) = [id \in ids |-> Told(BatchCheck(checks)[id])]
  BY <1>7 DEF HandleBatchCheck
<1>9. HandleBatchCheck(checks)[checks[i].id] = HandleCheck(checks[f]) BY <1>5, <1>6, <1>8 DEF HandleCheck
<1>10. ASSUME <<checks[f].e, checks[f].obj, checks[f].rel>> = <<checks[i].e, checks[i].obj, checks[i].rel>>
       PROVE  HandleCheck(checks[f]) = HandleCheck(checks[i])
  BY <1>10 DEF HandleCheck
<1> QED BY <1>2, <1>3, <1>9, <1>10

(* BatchIsExact for any number of requests that fit into a batch, any      *)
(* spelling of contexts and any hash.                                      *)
THEOREM BatchesAreExact ==
    ASSUME IsFiniteSet(Asked), MaxChecks \in Nat, Cardinality(Asked) < MaxChecks
    PROVE  BatchIsExact
<1> SUFFICES ASSUME NEW u \in {e.user : e \in Asked}, NEW p \in StoredPairs
             PROVE  LET checks == BatchOf(SetToSeq({e \in Asked : e.user = u}), p)
                    IN \A i \in DOMAIN checks : \E j \in DOMAIN checks :
                          /\ MixedUp(checks[i], checks[j])
                          /\ HandleBatchCheck(checks)[checks[i].id] = HandleCheck(checks[j])
  BY DEF BatchIsExact
<1> DEFINE E == {e \in Asked : e.user = u}
           n == Cardinality(E)
           es == SetToSeq(E)
           checks == BatchOf(es, p)
<1>1. IsFiniteSet(E) /\ n \in Nat /\ n <= Cardinality(Asked) /\ Cardinality(Asked) \in Nat
  BY FS_Subset, FS_CardinalityType
<1>2. n # 0 
  <2>1. E # {} OBVIOUS
  <2> QED BY <1>1, <2>1, FS_EmptySet
<1>3. es \in [1..n -> E]
  <2>1. \E f \in [1..n -> E] : IsInjective(f)
    <3>1. ExistsBijection(1..n, E) BY <1>1, FS_CardinalityType
    <3> QED BY <3>1 DEF ExistsBijection, Bijection, Injection, IsInjective
  <2> QED BY <2>1 DEF SetToSeq
<1> HIDE DEF es, n
<1>4. es \in Seq(E) /\ Len(es) = n BY <1>1, <1>3
<1>5. /\ DOMAIN checks = 1..(n + 1)
      /\ \A i \in 1..(n + 1) : /\ checks[i].id = i /\ checks[i].e \in E
  <2>1. \A i \in 1..(n + 1) : 1 + (i % n) \in 1..n BY <1>1, <1>2
  <2> QED BY <1>3, <1>4, <2>1 DEF BatchOf
<1>6. checks = [i \in 1..(n + 1) |-> checks[i]] BY <1>4 DEF BatchOf
<1>7. checks \in Seq({checks[i] : i \in 1..(n + 1)}) /\ Len(checks) = n + 1
  <2> HIDE DEF checks
  <2> QED BY <1>1, <1>6
<1> HIDE DEF checks, E
<1>8. validateCorrelationIDs(checks) BY <1>1, <1>5 DEF validateCorrelationIDs
<1>9. Len(checks) \in 1..MaxChecks BY <1>1, <1>7
<1> QED BY <1>7, <1>8, <1>9, BatchAnswersLikeCheck DEF checks, es, E
=============================================================================
