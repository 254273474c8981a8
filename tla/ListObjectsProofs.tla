------------------------- MODULE ListObjectsProofs -------------------------
(***************************************************************************)
(* The channels and goroutines of a ListObjects call, for any set of       *)
(* objects, limit, capacity and breadth: what the caller gets is related,  *)
(* comes once and is no more than the limit; nothing is sent on a closed   *)
(* channel; a list that was not cut short is whole, and what cuts it short *)
(* is known.                                                               *)
(***************************************************************************)
EXTENDS ListObjectsPipeline, FiniteSetTheorems, TLAPS

\* Where the consumer has an object in hand, and where its loop is behind it.
Moving == {"count", "put", "start"}
Past   == {"error", "close", "ended"}

(* The types, in the form the argument needs, variable by variable.        *)
PlainTypes ==
    /\ call \in Calls /\ kind \in Kinds
    /\ expansion \in {"running", "hard", "condition", "cancelled", "ended"}
    /\ todo \in SUBSET Objects /\ signal \in BOOLEAN
    /\ check \in [Objects -> {"none", "running", "put", "ended"}]
    /\ found \in Nat
    /\ cancelled \in BOOLEAN /\ stopped \in BOOLEAN /\ expired \in BOOLEAN
    /\ first \in {"none", "hard", "condition", "cancelled"}
CandidateTypes == candidates \in [q : {<<>>} \cup {<<o>> : o \in Objects}, closed : BOOLEAN]
ConsumerTypes ==
    /\ consumer \in [at : {"loop", "wait"} \cup Moving \cup Past, obj : Objects \cup {NoObject}]
    /\ consumer.at \in Moving => consumer.obj \in Objects
    /\ consumer.at = "error" => first \in Errors
ResultTypes == results \in [q : Seq(Objects \cup Errors), closed : BOOLEAN]
CallerTypes ==
    caller \in [at : {"ranging", "ok", "failed", "hung up"}, got : Seq(Objects), errs : BOOLEAN]

PipelineTypes == PlainTypes /\ CandidateTypes /\ ConsumerTypes /\ ResultTypes /\ CallerTypes

(* Every goroutine that sends on the channel of results is waited for      *)
(* before it is closed.                                                    *)
WaitedFor ==
    /\ consumer.at \in Past => Running = {} /\ expansion = "ended"
    /\ results.closed => consumer.at = "ended"

-----------------------------------------------------------------------------
(* Sequences without repetition. *)

NoRepeat(s) == \A i, j \in DOMAIN s : i # j => s[i] # s[j]

LEMMA AppendFacts ==
    ASSUME NEW S, NEW s \in Seq(S), NEW x \in S
    PROVE  /\ Append(s, x) \in Seq(S)
           /\ Range(Append(s, x)) = Range(s) \cup {x}
           /\ Len(Append(s, x)) = Len(s) + 1
           /\ NoRepeat(s) /\ x \notin Range(s) => NoRepeat(Append(s, x))
<1>1. Append(s, x) \in Seq(S) /\ DOMAIN Append(s, x) = 1..(Len(s) + 1) /\ DOMAIN s = 1..Len(s)
      /\ Len(s) \in Nat /\ Len(Append(s, x)) = Len(s) + 1
  OBVIOUS
<1>2. /\ \A i \in 1..Len(s) : Append(s, x)[i] = s[i]
      /\ Append(s, x)[Len(s) + 1] = x
  OBVIOUS
<1>3. Range(Append(s, x)) = Range(s) \cup {x}
  <2> DEFINE t == Append(s, x)
  <2>0. DOMAIN t = DOMAIN s \cup {Len(s) + 1} BY <1>1
  <2>1. \A i \in DOMAIN s : t[i] = s[i] BY <1>1, <1>2
  <2>2. t[Len(s) + 1] = x BY <1>2
  <2> HIDE DEF t
  <2> QED BY <2>0, <2>1, <2>2 DEF Range
<1>4. ASSUME NoRepeat(s), x \notin Range(s) PROVE NoRepeat(Append(s, x))
  BY <1>1, <1>2, <1>4 DEF NoRepeat, Range
<1> QED BY <1>1, <1>3, <1>4

LEMMA TailFacts ==
    ASSUME NEW S, NEW s \in Seq(S), s # <<>>
    PROVE  /\ s[1] \in S /\ s[1] \in Range(s)
           /\ Tail(s) \in Seq(S)
           /\ Range(s) = Range(Tail(s)) \cup {s[1]}
           /\ Len(Tail(s)) = Len(s) - 1
           /\ NoRepeat(s) => NoRepeat(Tail(s)) /\ s[1] \notin Range(Tail(s))
<1>1. /\ Len(s) \in Nat \ {0} /\ DOMAIN s = 1..Len(s)
      /\ Tail(s) \in Seq(S) /\ Len(Tail(s)) = Len(s) - 1
      /\ DOMAIN Tail(s) = 1..(Len(s) - 1)
      /\ \A i \in 1..(Len(s) - 1) : Tail(s)[i] = s[i + 1]
  OBVIOUS
<1>2. Range(s) = Range(Tail(s)) \cup {s[1]}
  <2>1. \A i \in 1..Len(s) : i = 1 \/ (i - 1 \in 1..(Len(s) - 1) /\ s[i] = Tail(s)[i - 1])
    BY <1>1
  <2>2. \A i \in 1..(Len(s) - 1) : i + 1 \in 1..Len(s) BY <1>1
  <2>3. 1 \in DOMAIN s BY <1>1
  <2> DEFINE t == Tail(s)
            n == Len(s)
  <2>4. DOMAIN t = 1..(n - 1) /\ DOMAIN s = 1..n /\ \A i \in 1..(n - 1) : t[i] = s[i + 1] BY <1>1
  <2>5. \A i \in 1..n : i = 1 \/ (i - 1 \in 1..(n - 1) /\ s[i] = t[i - 1]) BY <2>1
  <2>6. \A i \in 1..(n - 1) : i + 1 \in 1..n BY <2>2
  <2> HIDE DEF t, n
  <2>7. \A y \in Range(s) : y \in Range(t) \cup {s[1]} BY <2>4, <2>5 DEF Range
  <2>8. \A y \in Range(t) : y \in Range(s) BY <2>4, <2>6 DEF Range
  <2>9. s[1] \in Range(s) BY <2>3 DEF Range
  <2>10. Range(s) = Range(t) \cup {s[1]} BY <2>7, <2>8, <2>9
  <2> QED BY <2>10 DEF t
<1>3. ASSUME NoRepeat(s) PROVE NoRepeat(Tail(s)) /\ s[1] \notin Range(Tail(s))
  <2>1. \A i \in 1..(Len(s) - 1) : i + 1 \in DOMAIN s /\ i + 1 # 1 BY <1>1
  <2> QED BY <1>1, <1>3, <2>1 DEF NoRepeat, Range
<1>4. s[1] \in S BY <1>1
<1> QED BY <1>1, <1>2, <1>3, <1>4

LEMMA Appended ==
    ASSUME ResultTypes, NEW x \in Objects \cup Errors, results' = [results EXCEPT !.q = Append(@, x)]
    PROVE  results'.q = Append(results.q, x) /\ results'.closed = results.closed /\ ResultTypes'
<1>1. results.q \in Seq(Objects \cup Errors) BY DEF ResultTypes
<1>2. Append(results.q, x) \in Seq(Objects \cup Errors) BY <1>1, AppendFacts
<1>3. ASSUME NEW t \in Seq(Objects \cup Errors), results' = [results EXCEPT !.q = t]
      PROVE  results'.q = t /\ results'.closed = results.closed /\ ResultTypes'
  BY <1>3 DEF ResultTypes
<1> QED BY <1>2, <1>3

LEMMA TakenResult ==
    ASSUME ResultTypes, results.q # <<>>, results' = [results EXCEPT !.q = Tail(@)]
    PROVE  results'.q = Tail(results.q) /\ results'.closed = results.closed /\ ResultTypes'
<1>1. results.q \in Seq(Objects \cup Errors) BY DEF ResultTypes
<1>2. Tail(results.q) \in Seq(Objects \cup Errors) BY <1>1, TailFacts
<1>3. ASSUME NEW t \in Seq(Objects \cup Errors), results' = [results EXCEPT !.q = t]
      PROVE  results'.q = t /\ results'.closed = results.closed /\ ResultTypes'
  BY <1>3 DEF ResultTypes
<1> QED BY <1>2, <1>3

LEMMA AppendedGot ==
    ASSUME CallerTypes, NEW x \in Objects, caller' = [caller EXCEPT !.got = Append(@, x)]
    PROVE  /\ caller'.got = Append(caller.got, x) /\ caller'.at = caller.at
           /\ caller'.errs = caller.errs /\ CallerTypes'
<1>1. caller.got \in Seq(Objects) BY DEF CallerTypes
<1>2. Append(caller.got, x) \in Seq(Objects) BY <1>1, AppendFacts
<1>3. ASSUME NEW t \in Seq(Objects), caller' = [caller EXCEPT !.got = t]
      PROVE  caller'.got = t /\ caller'.at = caller.at /\ caller'.errs = caller.errs /\ CallerTypes'
  BY <1>3 DEF CallerTypes
<1> QED BY <1>2, <1>3

(* What the caller does with a result.                                     *)
LEMMA TakeFacts ==
    ASSUME PipelineTypes, Take
    PROVE  /\ results.q # <<>> /\ results.q[1] \in Objects \cup Errors
           /\ results' = [results EXCEPT !.q = Tail(@)]
           /\ \/ /\ results.q[1] \in Objects /\ expired' = expired
                 /\ caller' = [caller EXCEPT !.got = Append(@, results.q[1])]
              \/ /\ results.q[1] \in Errors /\ expired' = expired
                 /\ caller' = [caller EXCEPT !.errs = TRUE]
              \/ expired' = TRUE /\ \E at \in {"hung up", "failed"} : caller' = [caller EXCEPT !.at = at]
<1>1. results.q \in Seq(Objects \cup Errors) BY DEF PipelineTypes, ResultTypes
<1>2. results.q # <<>> BY DEF Take
<1>3. results.q[1] \in Objects \cup Errors BY <1>1, <1>2, TailFacts
<1> QED BY <1>2, <1>3 DEF Take, Return, Errors

(* What the consumer does with a candidate.                                *)
LEMMA ReceiveFacts ==
    ASSUME CandidateTypes, cancelled \in BOOLEAN, Receive
    PROVE  \E o \in Objects :
              /\ candidates.q = <<o>> /\ candidates'.q = <<>> /\ candidates'.closed = candidates.closed
              /\ \/ /\ call.max # 0 /\ found >= call.max /\ cancelled' = TRUE
                    /\ consumer' = [at |-> "wait", obj |-> NoObject]
                 \/ /\ ~(call.max # 0 /\ found >= call.max) /\ cancelled' = cancelled
                    /\ \/ kind[o] = "direct" /\ consumer' = [at |-> "count", obj |-> o]
                       \/ kind[o] # "direct" /\ consumer' = [at |-> "start", obj |-> o]
<1> DEFINE full == call.max # 0 /\ found >= call.max
<1>1. PICK o \in Objects : candidates.q = <<o>> BY DEF Receive, CandidateTypes
<1>2. candidates'.q = <<>> /\ candidates'.closed = candidates.closed BY DEF Receive, CandidateTypes
<1>3. candidates.q[1] = o BY <1>1
<1> DEFINE at == CASE full -> "wait" [] ~full /\ kind[o] = "direct" -> "count" [] OTHER -> "start"
           obj == IF full THEN NoObject ELSE o
<1>4. (cancelled' = (cancelled \/ full)) /\ consumer' = [at |-> at, obj |-> obj]
  BY <1>3 DEF Receive
<1>5. /\ full => at = "wait" /\ obj = NoObject
      /\ ~full /\ kind[o] = "direct" => at = "count" /\ obj = o
      /\ ~full /\ kind[o] # "direct" => at = "start" /\ obj = o
  <2> HIDE DEF full
  <2> QED OBVIOUS
<1> HIDE DEF at, obj
<1>6. CASE full BY <1>1, <1>2, <1>4, <1>5, <1>6
<1>7. CASE ~full /\ kind[o] = "direct" BY <1>1, <1>2, <1>4, <1>5, <1>7
<1>8. CASE ~full /\ kind[o] # "direct" BY <1>1, <1>2, <1>4, <1>5, <1>8
<1> QED BY <1>6, <1>7, <1>8

-----------------------------------------------------------------------------
(* Types. *)

LEMMA PlainStep == PlainTypes /\ [Next]_vars => PlainTypes'
<1> SUFFICES ASSUME PlainTypes, [Next]_vars PROVE PlainTypes'
  OBVIOUS
<1> USE DEF PlainTypes, poolVars
<1>1. ASSUME NEW o \in Objects, SendCandidate(o) PROVE PlainTypes'
  BY <1>1 DEF SendCandidate
<1>2. CASE CloseCandidates BY <1>2 DEF CloseCandidates
<1>3. CASE ReturnExpansion BY <1>3 DEF ReturnExpansion, TaskFails
<1>4. ASSUME NEW err \in {"hard", "condition", "cancelled"}, FailExpansion(err) PROVE PlainTypes'
  BY <1>4 DEF FailExpansion
<1>5. CASE LeaveLoop BY <1>5 DEF LeaveLoop
<1>6. CASE Receive BY <1>6 DEF Receive
<1>7. CASE CountDirect BY <1>7 DEF CountDirect, Counts
<1>8. CASE PutDirect BY <1>8 DEF PutDirect
<1>9. CASE StartCheck BY <1>9 DEF StartCheck
<1>10. CASE Wait BY <1>10 DEF Wait
<1>11. CASE SendError BY <1>11 DEF SendError
<1>12. CASE CloseResults BY <1>12 DEF CloseResults
<1>13. ASSUME NEW o \in Objects, EndCheck(o) PROVE PlainTypes'
  <2>1. found' \in Nat BY <1>13 DEF EndCheck, Counts
  <2>2. check' \in [Objects -> {"none", "running", "put", "ended"}]
    <3>1. \E s \in {"put", "ended"} : check' = [check EXCEPT ![o] = s] BY <1>13 DEF EndCheck
    <3> QED BY <3>1
  <2>3. stopped' \in BOOLEAN /\ first' \in {"none", "hard", "condition", "cancelled"}
    BY <1>13 DEF EndCheck, TaskFails, Errors, poolVars
  <2>4. UNCHANGED <<call, kind, expansion, todo, signal, cancelled, expired>> BY <1>13 DEF EndCheck
  <2> QED BY <2>1, <2>2, <2>3, <2>4
<1>14. ASSUME NEW o \in Objects, PutChecked(o) PROVE PlainTypes'
  BY <1>14 DEF PutChecked
<1>15. CASE Take BY <1>15 DEF Take, Return
<1>16. CASE Finish BY <1>16 DEF Finish, Return
<1>17. CASE Expire BY <1>17 DEF Expire
<1>18. CASE UNCHANGED vars BY <1>18 DEF vars
<1> QED BY <1>1, <1>2, <1>3, <1>4, <1>5, <1>6, <1>7, <1>8, <1>9, <1>10, <1>11, <1>12, <1>13,
           <1>14, <1>15, <1>16, <1>17, <1>18 DEF Next, Expansion, Consumer, Checks, Caller

LEMMA CandidateStep == CandidateTypes /\ [Next]_vars => CandidateTypes'
<1> SUFFICES ASSUME CandidateTypes, [Next]_vars PROVE CandidateTypes'
  OBVIOUS
<1> USE DEF CandidateTypes
<1>1. ASSUME NEW o \in Objects, SendCandidate(o) PROVE CandidateTypes'
  BY <1>1 DEF SendCandidate
<1>2. CASE CloseCandidates BY <1>2 DEF CloseCandidates
<1>3. CASE ReturnExpansion BY <1>3 DEF ReturnExpansion
<1>4. ASSUME NEW err \in {"hard", "condition", "cancelled"}, FailExpansion(err) PROVE CandidateTypes'
  BY <1>4 DEF FailExpansion
<1>5. CASE LeaveLoop BY <1>5 DEF LeaveLoop
<1>6. CASE Receive BY <1>6 DEF Receive
<1>7. CASE CountDirect BY <1>7 DEF CountDirect
<1>8. CASE PutDirect BY <1>8 DEF PutDirect
<1>9. CASE StartCheck BY <1>9 DEF StartCheck
<1>10. CASE Wait BY <1>10 DEF Wait
<1>11. CASE SendError BY <1>11 DEF SendError
<1>12. CASE CloseResults BY <1>12 DEF CloseResults
<1>13. ASSUME NEW o \in Objects, EndCheck(o) PROVE CandidateTypes'
  BY <1>13 DEF EndCheck
<1>14. ASSUME NEW o \in Objects, PutChecked(o) PROVE CandidateTypes'
  BY <1>14 DEF PutChecked
<1>15. CASE Take BY <1>15 DEF Take
<1>16. CASE Finish BY <1>16 DEF Finish
<1>17. CASE Expire BY <1>17 DEF Expire
<1>18. CASE UNCHANGED vars BY <1>18 DEF vars
<1> QED BY <1>1, <1>2, <1>3, <1>4, <1>5, <1>6, <1>7, <1>8, <1>9, <1>10, <1>11, <1>12, <1>13,
           <1>14, <1>15, <1>16, <1>17, <1>18 DEF Next, Expansion, Consumer, Checks, Caller

LEMMA ConsumerStep == PlainTypes /\ CandidateTypes /\ ConsumerTypes /\ WaitedFor /\ [Next]_vars => ConsumerTypes'
<1> SUFFICES ASSUME PlainTypes, CandidateTypes, ConsumerTypes, WaitedFor, [Next]_vars PROVE ConsumerTypes'
  OBVIOUS
<1> USE DEF ConsumerTypes, Moving, Past, Errors, poolVars
<1>1. ASSUME NEW o \in Objects, SendCandidate(o) PROVE ConsumerTypes'
  BY <1>1 DEF SendCandidate
<1>2. CASE CloseCandidates BY <1>2 DEF CloseCandidates
<1>3. CASE ReturnExpansion BY <1>3 DEF ReturnExpansion, TaskFails, WaitedFor
<1>4. ASSUME NEW err \in {"hard", "condition", "cancelled"}, FailExpansion(err) PROVE ConsumerTypes'
  BY <1>4 DEF FailExpansion
<1>5. CASE LeaveLoop BY <1>5 DEF LeaveLoop
<1>6. CASE Receive
  <2>1. PICK o \in Objects : \/ consumer' = [at |-> "wait", obj |-> NoObject]
                             \/ consumer' = [at |-> "count", obj |-> o]
                             \/ consumer' = [at |-> "start", obj |-> o]
    BY <1>6, ReceiveFacts DEF PlainTypes
  <2> QED BY <2>1
<1>7. CASE CountDirect BY <1>7 DEF CountDirect
<1>8. CASE PutDirect BY <1>8 DEF PutDirect
<1>9. CASE StartCheck BY <1>9 DEF StartCheck
<1>10. CASE Wait BY <1>10 DEF Wait
<1>11. CASE SendError BY <1>11 DEF SendError
<1>12. CASE CloseResults BY <1>12 DEF CloseResults
<1>13. ASSUME NEW o \in Objects, EndCheck(o) PROVE ConsumerTypes'
  BY <1>13 DEF EndCheck, TaskFails, WaitedFor, Running
<1>14. ASSUME NEW o \in Objects, PutChecked(o) PROVE ConsumerTypes'
  BY <1>14 DEF PutChecked
<1>15. CASE Take BY <1>15 DEF Take
<1>16. CASE Finish BY <1>16 DEF Finish
<1>17. CASE Expire BY <1>17 DEF Expire
<1>18. CASE UNCHANGED vars BY <1>18 DEF vars
<1> QED BY <1>1, <1>2, <1>3, <1>4, <1>5, <1>6, <1>7, <1>8, <1>9, <1>10, <1>11, <1>12, <1>13,
           <1>14, <1>15, <1>16, <1>17, <1>18 DEF Next, Expansion, Consumer, Checks, Caller

LEMMA ResultStep == PipelineTypes /\ [Next]_vars => ResultTypes'
<1> SUFFICES ASSUME PipelineTypes, [Next]_vars PROVE ResultTypes'
  OBVIOUS
<1> USE DEF PipelineTypes
<1>1. ASSUME NEW o \in Objects, SendCandidate(o) PROVE ResultTypes'
  BY <1>1 DEF SendCandidate, ResultTypes
<1>2. CASE CloseCandidates BY <1>2 DEF CloseCandidates, ResultTypes
<1>3. CASE ReturnExpansion BY <1>3 DEF ReturnExpansion, ResultTypes
<1>4. ASSUME NEW err \in {"hard", "condition", "cancelled"}, FailExpansion(err) PROVE ResultTypes'
  BY <1>4 DEF FailExpansion, ResultTypes
<1>5. CASE LeaveLoop BY <1>5 DEF LeaveLoop, ResultTypes
<1>6. CASE Receive BY <1>6 DEF Receive, ResultTypes
<1>7. CASE CountDirect BY <1>7 DEF CountDirect, ResultTypes
<1>8. CASE PutDirect
  <2>1. consumer.obj \in Objects BY <1>8 DEF PutDirect, ConsumerTypes, Moving
  <2>2. CASE results' = results BY <2>2 DEF ResultTypes
  <2> QED BY <1>8, <2>1, <2>2, Appended DEF PutDirect
<1>9. CASE StartCheck BY <1>9 DEF StartCheck, ResultTypes
<1>10. CASE Wait BY <1>10 DEF Wait, ResultTypes
<1>11. CASE SendError
  <2>1. first \in Errors BY <1>11 DEF SendError, ConsumerTypes
  <2> QED BY <1>11, <2>1, Appended DEF SendError
<1>12. CASE CloseResults BY <1>12 DEF CloseResults, ResultTypes
<1>13. ASSUME NEW o \in Objects, EndCheck(o) PROVE ResultTypes'
  BY <1>13 DEF EndCheck, ResultTypes
<1>14. ASSUME NEW o \in Objects, PutChecked(o) PROVE ResultTypes'
  <2>1. CASE results' = results BY <2>1 DEF ResultTypes
  <2> QED BY <1>14, <2>1, Appended DEF PutChecked
<1>15. CASE Take
  BY <1>15, TakeFacts, TakenResult
<1>16. CASE Finish BY <1>16 DEF Finish, ResultTypes
<1>17. CASE Expire BY <1>17 DEF Expire, ResultTypes
<1>18. CASE UNCHANGED vars BY <1>18 DEF vars, ResultTypes
<1> QED BY <1>1, <1>2, <1>3, <1>4, <1>5, <1>6, <1>7, <1>8, <1>9, <1>10, <1>11, <1>12, <1>13,
           <1>14, <1>15, <1>16, <1>17, <1>18 DEF Next, Expansion, Consumer, Checks, Caller

LEMMA CallerStep == PipelineTypes /\ [Next]_vars => CallerTypes'
<1> SUFFICES ASSUME PipelineTypes, [Next]_vars PROVE CallerTypes'
  OBVIOUS
<1> USE DEF PipelineTypes
<1>1. ASSUME NEW o \in Objects, SendCandidate(o) PROVE CallerTypes'
  BY <1>1 DEF SendCandidate, CallerTypes
<1>2. CASE CloseCandidates BY <1>2 DEF CloseCandidates, CallerTypes
<1>3. CASE ReturnExpansion BY <1>3 DEF ReturnExpansion, CallerTypes
<1>4. ASSUME NEW err \in {"hard", "condition", "cancelled"}, FailExpansion(err) PROVE CallerTypes'
  BY <1>4 DEF FailExpansion, CallerTypes
<1>5. CASE LeaveLoop BY <1>5 DEF LeaveLoop, CallerTypes
<1>6. CASE Receive BY <1>6 DEF Receive, CallerTypes
<1>7. CASE CountDirect BY <1>7 DEF CountDirect, CallerTypes
<1>8. CASE PutDirect BY <1>8 DEF PutDirect, CallerTypes
<1>9. CASE StartCheck BY <1>9 DEF StartCheck, CallerTypes
<1>10. CASE Wait BY <1>10 DEF Wait, CallerTypes
<1>11. CASE SendError BY <1>11 DEF SendError, CallerTypes
<1>12. CASE CloseResults BY <1>12 DEF CloseResults, CallerTypes
<1>13. ASSUME NEW o \in Objects, EndCheck(o) PROVE CallerTypes'
  BY <1>13 DEF EndCheck, CallerTypes
<1>14. ASSUME NEW o \in Objects, PutChecked(o) PROVE CallerTypes'
  BY <1>14 DEF PutChecked, CallerTypes
<1>15. CASE Take
  <2>1. CASE results.q[1] \in Objects /\ caller' = [caller EXCEPT !.got = Append(@, results.q[1])]
    BY <2>1, AppendedGot
  <2>2. CASE caller' = [caller EXCEPT !.errs = TRUE] BY <2>2 DEF CallerTypes
  <2>3. ASSUME NEW at \in {"hung up", "failed"}, caller' = [caller EXCEPT !.at = at] PROVE CallerTypes'
    BY <2>3 DEF CallerTypes
  <2> QED BY <1>15, <2>1, <2>2, <2>3, TakeFacts
<1>16. CASE Finish
  BY <1>16 DEF Finish, Return, CallerTypes
<1>17. CASE Expire BY <1>17 DEF Expire, CallerTypes
<1>18. CASE UNCHANGED vars BY <1>18 DEF vars, CallerTypes
<1> QED BY <1>1, <1>2, <1>3, <1>4, <1>5, <1>6, <1>7, <1>8, <1>9, <1>10, <1>11, <1>12, <1>13,
           <1>14, <1>15, <1>16, <1>17, <1>18 DEF Next, Expansion, Consumer, Checks, Caller

LEMMA WaitedForStep == PipelineTypes /\ WaitedFor /\ [Next]_vars => WaitedFor'
<1> SUFFICES ASSUME PipelineTypes, WaitedFor, [Next]_vars PROVE WaitedFor'
  OBVIOUS
<1> USE DEF WaitedFor, Past, Running, poolVars
<1>1. ASSUME NEW o \in Objects, SendCandidate(o) PROVE WaitedFor'
  BY <1>1 DEF SendCandidate
<1>2. CASE CloseCandidates BY <1>2 DEF CloseCandidates
<1>3. CASE ReturnExpansion BY <1>3 DEF ReturnExpansion
<1>4. ASSUME NEW err \in {"hard", "condition", "cancelled"}, FailExpansion(err) PROVE WaitedFor'
  BY <1>4 DEF FailExpansion
<1>5. CASE LeaveLoop BY <1>5 DEF LeaveLoop, PipelineTypes, ConsumerTypes, Moving, Past
<1>6. CASE Receive BY <1>6 DEF Receive, PipelineTypes, ConsumerTypes, Moving, Past
<1>7. CASE CountDirect BY <1>7 DEF CountDirect, PipelineTypes, ConsumerTypes, Moving, Past
<1>8. CASE PutDirect
  <2>1. consumer'.at = "loop" BY <1>8 DEF PutDirect, PipelineTypes, ConsumerTypes
  <2>2. results'.closed = results.closed
    BY <1>8, Appended DEF PutDirect, PipelineTypes, ConsumerTypes, Moving
  <2> QED BY <1>8, <2>1, <2>2 DEF PutDirect
<1>9. CASE StartCheck BY <1>9 DEF StartCheck, PipelineTypes, ConsumerTypes, Moving, Past
<1>10. CASE Wait BY <1>10 DEF Wait, PipelineTypes, ConsumerTypes, Moving, Past
<1>11. CASE SendError
  <2>1. consumer'.at = "close" BY <1>11 DEF SendError, PipelineTypes, ConsumerTypes
  <2>2. results'.closed = results.closed
    BY <1>11, Appended DEF SendError, PipelineTypes, ConsumerTypes
  <2> QED BY <1>11, <2>1, <2>2 DEF SendError
<1>12. CASE CloseResults BY <1>12 DEF CloseResults, PipelineTypes, ConsumerTypes, Moving, Past
<1>13. ASSUME NEW o \in Objects, EndCheck(o) PROVE WaitedFor'
  <2>1. o \in Running BY <1>13 DEF EndCheck
  <2>2. UNCHANGED <<consumer, expansion, results>> BY <1>13 DEF EndCheck
  <2> QED BY <2>1, <2>2
<1>14. ASSUME NEW o \in Objects, PutChecked(o) PROVE WaitedFor'
  <2>1. results'.closed = results.closed BY <1>14, Appended DEF PutChecked, PipelineTypes
  <2>2. \A q \in Objects : check'[q] \in {"running", "put"} => check[q] \in {"running", "put"}
    BY <1>14 DEF PutChecked, PipelineTypes, PlainTypes
  <2> QED BY <1>14, <2>1, <2>2 DEF PutChecked
<1>15. CASE Take
  <2>1. results'.closed = results.closed BY <1>15, TakeFacts, TakenResult DEF PipelineTypes
  <2> QED BY <1>15, <2>1 DEF Take
<1>16. CASE Finish BY <1>16 DEF Finish
<1>17. CASE Expire BY <1>17 DEF Expire
<1>18. CASE UNCHANGED vars BY <1>18 DEF vars
<1> QED BY <1>1, <1>2, <1>3, <1>4, <1>5, <1>6, <1>7, <1>8, <1>9, <1>10, <1>11, <1>12, <1>13,
           <1>14, <1>15, <1>16, <1>17, <1>18 DEF Next, Expansion, Consumer, Checks, Caller

(* The types hold, and the senders are waited for, in every state.         *)
TInv == PipelineTypes /\ WaitedFor

LEMMA TInvInit == Init => TInv
<1> SUFFICES ASSUME Init PROVE TInv
  OBVIOUS
<1>1. PlainTypes BY DEF Init, PlainTypes
<1>2. CandidateTypes BY DEF Init, CandidateTypes
<1>3. ConsumerTypes BY DEF Init, ConsumerTypes, Moving, Past
<1>4. ResultTypes BY DEF Init, ResultTypes
<1>5. CallerTypes BY DEF Init, CallerTypes
<1>6. WaitedFor BY DEF Init, WaitedFor, Past
<1> QED BY <1>1, <1>2, <1>3, <1>4, <1>5, <1>6 DEF TInv, PipelineTypes

LEMMA TInvStep == TInv /\ [Next]_vars => TInv'
BY PlainStep, CandidateStep, ConsumerStep, ResultStep, CallerStep, WaitedForStep
   DEF TInv, PipelineTypes

LEMMA TInvAlways == Spec => []TInv
BY TInvInit, TInvStep, PTL DEF Spec

(* Nothing is sent on the channel of results after list_objects.go closed  *)
(* it: pool.Wait comes before the close on every path out of the loop.     *)
THEOREM ResultsAreNotSentLate == Spec => []NoSendAfterClose
<1>1. TInv => NoSendAfterClose
  BY DEF TInv, WaitedFor, NoSendAfterClose, Past
<1> QED BY <1>1, TInvAlways, PTL

-----------------------------------------------------------------------------
(* Every object is in one place. *)

Candidate == Range(candidates.q)
Held      == IF consumer.at \in Moving THEN {consumer.obj} ELSE {}
Checked   == {o \in Objects : check[o] # "none"}
Queued    == Range(results.q)
Got       == Range(caller.got)

(* The objects not found yet, the candidate, the one in the consumer's     *)
(* hand, those with a Check and those sent are apart, and what was sent    *)
(* was sent once.  No error is sent before the last step of the handler.   *)
Once ==
    /\ Candidate \cap todo = {}
    /\ Held \cap (todo \cup Candidate) = {}
    /\ Checked \cap (todo \cup Candidate \cup Held) = {}
    /\ (Got \cup Queued) \cap (todo \cup Candidate \cup Held \cup Running) = {}
    /\ Got \cap Queued = {}
    /\ NoRepeat(caller.got) /\ NoRepeat(results.q)
    /\ consumer.at \notin {"close", "ended"} => Queued \cap Errors = {}

(* What is sent, or about to be, is related.                               *)
SentAreRelated ==
    /\ Got \subseteq Related /\ Queued \subseteq Related \cup Errors
    /\ consumer.at \in {"count", "put"} => kind[consumer.obj] = "direct"
    /\ \A o \in Objects : check[o] = "put" => kind[o] = "allowed"

LEMMA CandidateFacts ==
    ASSUME CandidateTypes
    PROVE  \/ candidates.q = <<>> /\ Candidate = {}
           \/ \E o \in Objects : candidates.q = <<o>> /\ Candidate = {o}
BY DEF CandidateTypes, Candidate, Range

LEMMA SentTypes ==
    ASSUME PipelineTypes
    PROVE  Got \subseteq Objects /\ Queued \subseteq Objects \cup Errors
<1>1. caller.got \in Seq(Objects) /\ results.q \in Seq(Objects \cup Errors)
  BY DEF PipelineTypes, CallerTypes, ResultTypes
<1>2. ASSUME NEW S, NEW s \in Seq(S) PROVE Range(s) \subseteq S
  BY DEF Range
<1> QED BY <1>1, <1>2 DEF Got, Queued

(* A result is put in the channel, and a result is taken from it.          *)
LEMMA PutFacts ==
    ASSUME PipelineTypes, NEW x \in Objects \cup Errors, results' = [results EXCEPT !.q = Append(@, x)]
    PROVE  /\ Queued' = Queued \cup {x}
           /\ NoRepeat(results.q) /\ x \notin Queued => NoRepeat(results.q)'
<1>1. results.q \in Seq(Objects \cup Errors) BY DEF PipelineTypes, ResultTypes
<1>2. results'.q = Append(results.q, x) BY Appended DEF PipelineTypes
<1> DEFINE t == Append(results.q, x)
<1>3. /\ Range(t) = Range(results.q) \cup {x}
      /\ NoRepeat(results.q) /\ x \notin Range(results.q) => NoRepeat(t)
  BY <1>1, AppendFacts
<1> HIDE DEF t
<1>4. results'.q = t BY <1>2 DEF t
<1>5. Queued' = Range(t) BY <1>4 DEF Queued
<1>6. NoRepeat(t) => NoRepeat(results.q)' BY <1>4
<1> QED BY <1>3, <1>5, <1>6 DEF Queued

LEMMA TakenFacts ==
    ASSUME PipelineTypes, results.q # <<>>, results' = [results EXCEPT !.q = Tail(@)]
    PROVE  /\ Queued = Queued' \cup {results.q[1]} /\ results.q[1] \in Queued
           /\ NoRepeat(results.q) => NoRepeat(results.q)' /\ results.q[1] \notin Queued'
<1>1. results.q \in Seq(Objects \cup Errors) BY DEF PipelineTypes, ResultTypes
<1>2. results'.q = Tail(results.q) BY TakenResult DEF PipelineTypes
<1> QED BY <1>1, <1>2, TailFacts DEF Queued, NoRepeat

LEMMA GotFacts ==
    ASSUME PipelineTypes, NEW x \in Objects, caller' = [caller EXCEPT !.got = Append(@, x)]
    PROVE  /\ Got' = Got \cup {x}
           /\ NoRepeat(caller.got) /\ x \notin Got => NoRepeat(caller.got)'
<1>1. caller.got \in Seq(Objects) BY DEF PipelineTypes, CallerTypes
<1>2. caller'.got = Append(caller.got, x) BY AppendedGot DEF PipelineTypes
<1> QED BY <1>1, <1>2, AppendFacts DEF Got, NoRepeat

(* The effect of the steps of reverse expansion, the consumer and the      *)
(* Checks on the places.                                                   *)
SameConsumer   == Held' = Held /\ consumer'.at = consumer.at
SameCandidate  == Candidate' = Candidate
SameChecks     == Checked' = Checked /\ Running' = Running
SameSent       == /\ Queued' = Queued /\ Got' = Got
                  /\ NoRepeat(caller.got) => NoRepeat(caller.got)'
                  /\ NoRepeat(results.q) => NoRepeat(results.q)'

LEMMA SameFacts ==
    /\ UNCHANGED consumer => SameConsumer
    /\ UNCHANGED candidates => SameCandidate
    /\ UNCHANGED check => SameChecks
    /\ UNCHANGED <<results, caller>> => SameSent
<1>1. UNCHANGED consumer => SameConsumer BY DEF SameConsumer, Held
<1>2. UNCHANGED candidates => SameCandidate BY DEF SameCandidate, Candidate
<1>3. UNCHANGED check => SameChecks BY DEF SameChecks, Checked, Running
<1>4. UNCHANGED <<results, caller>> => SameSent BY DEF SameSent, Queued, Got
<1> QED BY <1>1, <1>2, <1>3, <1>4

LEMMA OnceStep == TInv /\ Once /\ [Next]_vars => Once'
<1> SUFFICES ASSUME TInv, Once, [Next]_vars PROVE Once'
  OBVIOUS
<1> USE DEF Once, TInv, PipelineTypes
<1>1. ASSUME NEW o \in Objects, SendCandidate(o) PROVE Once'
  <2>1. SameConsumer /\ SameChecks /\ SameSent BY <1>1, SameFacts DEF SendCandidate
  <2>2. o \in todo /\ todo' = todo \ {o} BY <1>1 DEF SendCandidate
  <2>3. Candidate' = {o} \/ Candidate' = Candidate
    <3>1. CASE candidates' = candidates BY <3>1 DEF Candidate
    <3>2. CASE candidates' = [candidates EXCEPT !.q = <<o>>]
      <4>1. candidates'.q = <<o>> BY <3>2 DEF CandidateTypes
      <4> QED BY <4>1 DEF Candidate, Range
    <3> QED BY <1>1, <3>1, <3>2 DEF SendCandidate
  <2> QED BY <2>1, <2>2, <2>3 DEF SameConsumer, SameChecks, SameSent
<1>2. CASE CloseCandidates
  <2>1. SameConsumer /\ SameChecks /\ SameSent /\ UNCHANGED todo BY <1>2, SameFacts DEF CloseCandidates
  <2>2. Candidate' = Candidate BY <1>2 DEF CloseCandidates, Candidate, CandidateTypes
  <2> QED BY <2>1, <2>2 DEF SameConsumer, SameChecks, SameSent
<1>3. CASE ReturnExpansion
  <2>1. SameConsumer /\ SameCandidate /\ SameChecks /\ SameSent /\ UNCHANGED todo
    BY <1>3, SameFacts DEF ReturnExpansion
  <2> QED BY <2>1 DEF SameConsumer, SameCandidate, SameChecks, SameSent
<1>4. ASSUME NEW err \in {"hard", "condition", "cancelled"}, FailExpansion(err) PROVE Once'
  <2>1. SameConsumer /\ SameCandidate /\ SameChecks /\ SameSent /\ UNCHANGED todo
    BY <1>4, SameFacts DEF FailExpansion
  <2> QED BY <2>1 DEF SameConsumer, SameCandidate, SameChecks, SameSent
<1>5. CASE LeaveLoop
  <2>1. SameCandidate /\ SameChecks /\ SameSent /\ UNCHANGED todo BY <1>5, SameFacts DEF LeaveLoop
  <2>2. consumer.at = "loop" /\ consumer'.at = "wait" BY <1>5 DEF LeaveLoop, ConsumerTypes
  <2>3. Held' \subseteq Held BY <1>5, <2>2 DEF LeaveLoop, Held, ConsumerTypes, Moving
  <2> QED BY <2>1, <2>2, <2>3 DEF SameCandidate, SameChecks, SameSent
<1>6. CASE Receive
  <2>1. SameChecks /\ SameSent /\ UNCHANGED todo BY <1>6, SameFacts DEF Receive
  <2>2. PICK o \in Objects : /\ candidates.q = <<o>> /\ candidates'.q = <<>>
                             /\ \/ consumer' = [at |-> "wait", obj |-> NoObject]
                                \/ consumer' = [at |-> "count", obj |-> o]
                                \/ consumer' = [at |-> "start", obj |-> o]
    BY <1>6, ReceiveFacts DEF PlainTypes
  <2>3. Candidate = {o} /\ Candidate' = {} BY <2>2 DEF Candidate, Range
  <2>4. (Held' = {} \/ Held' = {o}) /\ consumer'.at \in {"wait", "count", "start"}
    BY <2>2 DEF Held, Moving
  <2>5. consumer.at = "loop" BY <1>6 DEF Receive
  <2> QED BY <2>1, <2>3, <2>4, <2>5 DEF SameChecks, SameSent
<1>7. CASE CountDirect
  <2>1. SameCandidate /\ SameChecks /\ SameSent /\ UNCHANGED todo BY <1>7, SameFacts DEF CountDirect
  <2>2. consumer.at = "count" /\ consumer'.at \in {"put", "loop"} BY <1>7 DEF CountDirect, ConsumerTypes
  <2>3. Held' \subseteq Held BY <1>7, <2>2 DEF CountDirect, Held, ConsumerTypes, Moving
  <2> QED BY <2>1, <2>2, <2>3 DEF SameCandidate, SameChecks, SameSent
<1>8. CASE PutDirect
  <2>1. SameCandidate /\ SameChecks /\ UNCHANGED <<todo, caller>> BY <1>8, SameFacts DEF PutDirect
  <2>2. consumer.at = "put" /\ consumer'.at = "loop" BY <1>8 DEF PutDirect, ConsumerTypes
  <2>3. Held = {consumer.obj} /\ consumer.obj \in Objects /\ Held' = {}
    BY <2>2 DEF Held, Moving, ConsumerTypes
  <2>4. Got' = Got /\ (NoRepeat(caller.got) => NoRepeat(caller.got)') BY <2>1 DEF Got
  <2>5. consumer.obj \notin Queued \cup Errors BY <2>3, PipelineAssumption DEF Errors
  <2>6. CASE results' = results
    <3>1. SameSent BY <2>1, <2>6, SameFacts
    <3> QED BY <2>1, <2>2, <2>3, <3>1 DEF SameCandidate, SameChecks, SameSent
  <2>7. CASE results' = [results EXCEPT !.q = Append(@, consumer.obj)]
    <3>1. Queued' = Queued \cup {consumer.obj} /\ NoRepeat(results.q)' BY <2>3, <2>5, <2>7, PutFacts
    <3>2. Running \subseteq Checked BY DEF Running, Checked
    <3> QED BY <2>1, <2>2, <2>3, <2>4, <2>5, <3>1, <3>2 DEF SameCandidate, SameChecks
  <2> QED BY <1>8, <2>6, <2>7 DEF PutDirect
<1>9. CASE StartCheck
  <2>1. SameCandidate /\ SameSent /\ UNCHANGED todo BY <1>9, SameFacts DEF StartCheck
  <2>2. consumer.at = "start" /\ consumer'.at = "loop" BY <1>9 DEF StartCheck, ConsumerTypes
  <2>3. Held = {consumer.obj} /\ consumer.obj \in Objects /\ Held' = {}
    BY <2>2 DEF Held, Moving, ConsumerTypes
  <2>4. check' = [check EXCEPT ![consumer.obj] = "running"] BY <1>9 DEF StartCheck
  <2>5. Checked' = Checked \cup {consumer.obj} /\ Running' = Running \cup {consumer.obj}
    BY <2>3, <2>4 DEF Checked, Running, PlainTypes
  <2> QED BY <2>1, <2>2, <2>3, <2>5 DEF SameCandidate, SameSent
<1>10. CASE Wait
  <2>1. SameCandidate /\ SameChecks /\ SameSent /\ UNCHANGED todo BY <1>10, SameFacts DEF Wait
  <2>2. consumer.at = "wait" /\ consumer'.at \in {"error", "close"} BY <1>10 DEF Wait, ConsumerTypes
  <2>3. Held' \subseteq Held BY <1>10, <2>2 DEF Wait, Held, ConsumerTypes, Moving
  <2> QED BY <2>1, <2>2, <2>3 DEF SameCandidate, SameChecks, SameSent
<1>11. CASE SendError
  <2>1. SameCandidate /\ SameChecks /\ UNCHANGED <<todo, caller>> BY <1>11, SameFacts DEF SendError
  <2>2. consumer.at = "error" /\ consumer'.at = "close" /\ first \in Errors
    BY <1>11 DEF SendError, ConsumerTypes
  <2>3. Held = {} /\ Held' = {} BY <2>2 DEF Held, Moving
  <2>4. first \notin Objects /\ first \notin Queued BY <2>2, PipelineAssumption DEF Errors
  <2>5. Queued' = Queued \cup {first} /\ NoRepeat(results.q)' BY <1>11, <2>2, <2>4, PutFacts DEF SendError
  <2>6. Got' = Got /\ (NoRepeat(caller.got) => NoRepeat(caller.got)') BY <2>1 DEF Got
  <2>7. todo \subseteq Objects /\ Candidate \subseteq Objects /\ Running \subseteq Objects
    BY CandidateFacts DEF PlainTypes, Running
  <2>8. Got \subseteq Objects BY SentTypes
  <2> QED BY <2>1, <2>2, <2>3, <2>4, <2>5, <2>6, <2>7, <2>8 DEF SameCandidate, SameChecks
<1>12. CASE CloseResults
  <2>1. SameCandidate /\ SameChecks /\ UNCHANGED <<todo, caller>> BY <1>12, SameFacts DEF CloseResults
  <2>2. consumer.at = "close" /\ consumer'.at = "ended" BY <1>12 DEF CloseResults, ConsumerTypes
  <2>3. Held' = {} BY <2>2 DEF Held, Moving
  <2>4. results'.q = results.q BY <1>12 DEF CloseResults, ResultTypes
  <2>5. SameSent BY <2>1, <2>4 DEF SameSent, Queued, Got
  <2> QED BY <2>1, <2>2, <2>3, <2>5 DEF SameCandidate, SameChecks, SameSent
<1>13. ASSUME NEW o \in Objects, EndCheck(o) PROVE Once'
  <2>1. SameConsumer /\ SameCandidate /\ SameSent /\ UNCHANGED todo BY <1>13, SameFacts DEF EndCheck
  <2>2. PICK s \in {"put", "ended"} : check[o] = "running" /\ check' = [check EXCEPT ![o] = s]
    BY <1>13 DEF EndCheck
  <2>3. Checked' = Checked /\ Running' \subseteq Running BY <2>2 DEF Checked, Running, PlainTypes
  <2> QED BY <2>1, <2>3 DEF SameConsumer, SameCandidate, SameSent
<1>14. ASSUME NEW o \in Objects, PutChecked(o) PROVE Once'
  <2>1. SameConsumer /\ SameCandidate /\ UNCHANGED <<todo, caller>> BY <1>14, SameFacts DEF PutChecked
  <2>2. check[o] = "put" /\ check' = [check EXCEPT ![o] = "ended"] BY <1>14 DEF PutChecked
  <2>3. /\ Checked' = Checked /\ Running' = Running \ {o}
        /\ o \in Running /\ o \in Checked
    BY <2>2 DEF Checked, Running, PlainTypes
  <2>4. Got' = Got /\ (NoRepeat(caller.got) => NoRepeat(caller.got)') BY <2>1 DEF Got
  <2>5. o \notin Queued \cup Errors BY <2>3, PipelineAssumption DEF Errors
  <2>6. CASE results' = results
    <3>1. SameSent BY <2>1, <2>6, SameFacts
    <3> QED BY <2>1, <2>3, <3>1 DEF SameConsumer, SameCandidate, SameSent
  <2>7. CASE results' = [results EXCEPT !.q = Append(@, o)]
    <3>1. Queued' = Queued \cup {o} /\ NoRepeat(results.q)' BY <2>5, <2>7, PutFacts
    <3> QED BY <2>1, <2>3, <2>4, <2>5, <3>1 DEF SameConsumer, SameCandidate
  <2> QED BY <1>14, <2>6, <2>7 DEF PutChecked
<1>15. CASE Take
  <2>1. SameConsumer /\ SameCandidate /\ SameChecks /\ UNCHANGED todo BY <1>15, SameFacts DEF Take
  <2> DEFINE x == results.q[1]
  <2>2. /\ Queued = Queued' \cup {x} /\ x \in Queued
        /\ NoRepeat(results.q)' /\ x \notin Queued'
    BY <1>15, TakeFacts, TakenFacts
  <2>3. CASE x \in Objects /\ caller' = [caller EXCEPT !.got = Append(@, x)]
    <3>1. Got' = Got \cup {x} /\ NoRepeat(caller.got)' BY <2>2, <2>3, GotFacts
    <3> HIDE DEF x
    <3> QED BY <2>1, <2>2, <3>1 DEF SameConsumer, SameCandidate, SameChecks
  <2>4. CASE caller'.got = caller.got
    <3>1. Got' = Got /\ NoRepeat(caller.got)' BY <2>4 DEF Got
    <3> HIDE DEF x
    <3> QED BY <2>1, <2>2, <3>1 DEF SameConsumer, SameCandidate, SameChecks
  <2>5. \/ x \in Objects /\ caller' = [caller EXCEPT !.got = Append(@, x)]
        \/ caller'.got = caller.got
    BY <1>15, TakeFacts DEF CallerTypes
  <2> QED BY <2>3, <2>4, <2>5
<1>16. CASE Finish
  <2>1. SameConsumer /\ SameCandidate /\ SameChecks /\ UNCHANGED <<todo, results>>
    BY <1>16, SameFacts DEF Finish
  <2>2. caller'.got = caller.got BY <1>16 DEF Finish, Return, CallerTypes
  <2>3. SameSent BY <2>1, <2>2 DEF SameSent, Queued, Got
  <2> QED BY <2>1, <2>3 DEF SameConsumer, SameCandidate, SameChecks, SameSent
<1>17. CASE Expire
  <2>1. SameConsumer /\ SameCandidate /\ SameChecks /\ SameSent /\ UNCHANGED todo
    BY <1>17, SameFacts DEF Expire
  <2> QED BY <2>1 DEF SameConsumer, SameCandidate, SameChecks, SameSent
<1>18. CASE UNCHANGED vars
  <2>1. SameConsumer /\ SameCandidate /\ SameChecks /\ SameSent /\ UNCHANGED todo
    BY <1>18, SameFacts DEF vars
  <2> QED BY <2>1 DEF SameConsumer, SameCandidate, SameChecks, SameSent
<1> QED BY <1>1, <1>2, <1>3, <1>4, <1>5, <1>6, <1>7, <1>8, <1>9, <1>10, <1>11, <1>12, <1>13,
           <1>14, <1>15, <1>16, <1>17, <1>18 DEF Next, Expansion, Consumer, Checks, Caller

LEMMA OnceInit == Init => Once
BY DEF Init, Once, Candidate, Held, Checked, Running, Queued, Got, NoRepeat, Range, Moving

-----------------------------------------------------------------------------
(* Counting. *)

InHand(stages) == IF consumer.at \in stages THEN {consumer.obj} ELSE {}
InCheck(stage) == {o \in Objects : check[o] = stage}

(* The objects that may still be counted, and those that were counted and  *)
(* are sent or will be.                                                    *)
Pending  == todo \cup Candidate \cup InCheck("running") \cup InHand({"count", "start"})
Admitted == Got \cup (Queued \ Errors) \cup InCheck("put") \cup InHand({"put"})

(* Nothing has made the call drop objects.                                 *)
Quiet == ~expired /\ ~cancelled /\ ~stopped

(* A step counts a pending object, or moves objects along and drops some.  *)
CountsOne ==
    \E o \in Pending : /\ found' = Counts /\ Pending' = Pending \ {o}
                       /\ Admitted' = IF Within THEN Admitted \cup {o} ELSE Admitted
MovesOn ==
    /\ found' = found /\ Pending' \subseteq Pending /\ Admitted' \subseteq Admitted
    /\ Quiet' => Admitted' = Admitted /\ Related \cap Pending \subseteq Pending'

LEMMA StaysFacts ==
    /\ UNCHANGED consumer => \A S : InHand(S)' = InHand(S)
    /\ UNCHANGED check => \A s : InCheck(s)' = InCheck(s)
BY DEF InHand, InCheck

LEMMA StepKinds == TInv /\ Once /\ [Next]_vars => (CountsOne \/ MovesOn)
<1> SUFFICES ASSUME TInv, Once, [Next]_vars PROVE (CountsOne \/ MovesOn)
  OBVIOUS
<1> USE DEF TInv, PipelineTypes
<1>1. ASSUME NEW o \in Objects, SendCandidate(o) PROVE (CountsOne \/ MovesOn)
  <2>1. /\ UNCHANGED <<found, expired, cancelled, stopped>> /\ SameSent
        /\ InCheck("running")' = InCheck("running") /\ InCheck("put")' = InCheck("put")
        /\ InHand({"count", "start"})' = InHand({"count", "start"})
        /\ InHand({"put"})' = InHand({"put"})
    BY <1>1, SameFacts, StaysFacts DEF SendCandidate, poolVars
  <2>2. o \in todo /\ todo' = todo \ {o} BY <1>1 DEF SendCandidate
  <2>3. CASE candidates.q = <<>> /\ candidates' = [candidates EXCEPT !.q = <<o>>]
    <3>1. candidates'.q = <<o>> BY <2>3 DEF CandidateTypes
    <3>2. Candidate = {} /\ Candidate' = {o} BY <2>3, <3>1 DEF Candidate, Range
    <3> QED BY <2>1, <2>2, <3>2 DEF SameSent, MovesOn, Pending, Admitted
  <2>4. CASE PoolDone /\ UNCHANGED candidates
    <3>1. ~Quiet' BY <2>1, <2>4 DEF Quiet, PoolDone
    <3>2. Candidate' = Candidate BY <2>4 DEF Candidate
    <3> QED BY <2>1, <2>2, <3>1, <3>2 DEF SameSent, MovesOn, Pending, Admitted
  <2> QED BY <1>1, <2>3, <2>4 DEF SendCandidate
<1>2. CASE CloseCandidates
  <2>1. /\ UNCHANGED <<todo, found>> /\ SameSent
        /\ InCheck("running")' = InCheck("running") /\ InCheck("put")' = InCheck("put")
        /\ InHand({"count", "start"})' = InHand({"count", "start"})
        /\ InHand({"put"})' = InHand({"put"})
    BY <1>2, SameFacts, StaysFacts DEF CloseCandidates
  <2>2. Candidate' = Candidate BY <1>2 DEF CloseCandidates, Candidate, CandidateTypes
  <2> QED BY <2>1, <2>2 DEF SameSent, MovesOn, Pending, Admitted
<1>3. CASE ReturnExpansion
  <2>1. /\ UNCHANGED <<todo, found>> /\ Candidate' = Candidate /\ SameSent
        /\ InCheck("running")' = InCheck("running") /\ InCheck("put")' = InCheck("put")
        /\ InHand({"count", "start"})' = InHand({"count", "start"})
        /\ InHand({"put"})' = InHand({"put"})
    BY <1>3, SameFacts, StaysFacts DEF ReturnExpansion, SameCandidate
  <2> QED BY <2>1 DEF SameSent, MovesOn, Pending, Admitted
<1>4. ASSUME NEW err \in {"hard", "condition", "cancelled"}, FailExpansion(err) PROVE (CountsOne \/ MovesOn)
  <2>1. /\ UNCHANGED <<todo, found>> /\ Candidate' = Candidate /\ SameSent
        /\ InCheck("running")' = InCheck("running") /\ InCheck("put")' = InCheck("put")
        /\ InHand({"count", "start"})' = InHand({"count", "start"})
        /\ InHand({"put"})' = InHand({"put"})
    BY <1>4, SameFacts, StaysFacts DEF FailExpansion, SameCandidate
  <2> QED BY <2>1 DEF SameSent, MovesOn, Pending, Admitted
<1>5. CASE LeaveLoop
  <2>1. /\ UNCHANGED <<todo, found>> /\ Candidate' = Candidate /\ SameSent
        /\ InCheck("running")' = InCheck("running") /\ InCheck("put")' = InCheck("put")
    BY <1>5, SameFacts, StaysFacts DEF LeaveLoop, SameCandidate
  <2>2. consumer.at = "loop" /\ consumer'.at = "wait" BY <1>5 DEF LeaveLoop, ConsumerTypes
  <2>3. /\ InHand({"count", "start"}) = {} /\ InHand({"count", "start"})' = {}
        /\ InHand({"put"}) = {} /\ InHand({"put"})' = {}
    BY <2>2 DEF InHand
  <2> QED BY <2>1, <2>3 DEF SameSent, MovesOn, Pending, Admitted
<1>6. CASE Receive
  <2>1. /\ UNCHANGED <<todo, found>> /\ SameSent
        /\ InCheck("running")' = InCheck("running") /\ InCheck("put")' = InCheck("put")
    BY <1>6, SameFacts, StaysFacts DEF Receive
  <2>2. PICK o \in Objects : /\ candidates.q = <<o>> /\ candidates'.q = <<>>
                             /\ \/ cancelled' = TRUE /\ consumer' = [at |-> "wait", obj |-> NoObject]
                                \/ consumer' = [at |-> "count", obj |-> o]
                                \/ consumer' = [at |-> "start", obj |-> o]
    BY <1>6, ReceiveFacts DEF PlainTypes
  <2>3. Candidate = {o} /\ Candidate' = {} BY <2>2 DEF Candidate, Range
  <2>4. consumer.at = "loop" BY <1>6 DEF Receive
  <2>5. InHand({"count", "start"}) = {} /\ InHand({"put"}) = {} /\ InHand({"put"})' = {}
    BY <2>2, <2>4 DEF InHand
  <2>6. InHand({"count", "start"})' = {o} \/ (InHand({"count", "start"})' = {} /\ ~Quiet')
    BY <2>2 DEF InHand, Quiet
  <2> QED BY <2>1, <2>3, <2>5, <2>6 DEF SameSent, MovesOn, Pending, Admitted
<1>7. CASE CountDirect
  <2>1. /\ UNCHANGED todo /\ found' = Counts /\ Candidate' = Candidate /\ SameSent
        /\ InCheck("running")' = InCheck("running") /\ InCheck("put")' = InCheck("put")
    BY <1>7, SameFacts, StaysFacts DEF CountDirect, SameCandidate
  <2>2. /\ consumer.at = "count" /\ consumer.obj \in Objects /\ consumer'.obj = consumer.obj
        /\ (Within => consumer'.at = "put") /\ (~Within => consumer'.at = "loop")
    BY <1>7 DEF CountDirect, ConsumerTypes, Moving
  <2>3. /\ InHand({"count", "start"}) = {consumer.obj} /\ InHand({"count", "start"})' = {}
        /\ InHand({"put"}) = {} /\ InHand({"put"})' = IF Within THEN {consumer.obj} ELSE {}
    BY <2>2 DEF InHand
  <2>4. consumer.obj \notin todo \cup Candidate \cup InCheck("running")
    <3>1. Held = {consumer.obj} BY <2>2 DEF Held, Moving
    <3>2. InCheck("running") \subseteq Checked BY DEF InCheck, Checked
    <3> QED BY <3>1, <3>2 DEF Once
  <2>5. /\ consumer.obj \in Pending /\ Pending' = Pending \ {consumer.obj}
        /\ Admitted' = IF Within THEN Admitted \cup {consumer.obj} ELSE Admitted
    BY <2>1, <2>3, <2>4 DEF SameSent, Pending, Admitted
  <2> QED BY <2>1, <2>5 DEF CountsOne
<1>8. CASE PutDirect
  <2>1. /\ UNCHANGED <<todo, found, expired>> /\ Candidate' = Candidate /\ Got' = Got
        /\ InCheck("running")' = InCheck("running") /\ InCheck("put")' = InCheck("put")
    BY <1>8, SameFacts, StaysFacts DEF PutDirect, SameCandidate, Got
  <2>2. consumer.at = "put" /\ consumer.obj \in Objects /\ consumer'.at = "loop"
    BY <1>8 DEF PutDirect, ConsumerTypes, Moving
  <2>3. /\ InHand({"count", "start"}) = {} /\ InHand({"count", "start"})' = {}
        /\ InHand({"put"}) = {consumer.obj} /\ InHand({"put"})' = {}
    BY <2>2 DEF InHand
  <2>4. CASE results' = [results EXCEPT !.q = Append(@, consumer.obj)]
    <3>1. Queued' = Queued \cup {consumer.obj} BY <2>2, <2>4, PutFacts
    <3>2. consumer.obj \notin Errors BY <2>2, PipelineAssumption DEF Errors
    <3> QED BY <2>1, <2>3, <3>1, <3>2 DEF MovesOn, Pending, Admitted
  <2>5. CASE expired /\ UNCHANGED results
    <3>1. Queued' = Queued /\ ~Quiet' BY <2>1, <2>5 DEF Queued, Quiet
    <3> QED BY <2>1, <2>3, <3>1 DEF MovesOn, Pending, Admitted
  <2> QED BY <1>8, <2>4, <2>5 DEF PutDirect
<1>9. CASE StartCheck
  <2>1. /\ UNCHANGED <<todo, found>> /\ Candidate' = Candidate /\ SameSent
    BY <1>9, SameFacts DEF StartCheck, SameCandidate
  <2>2. consumer.at = "start" /\ consumer.obj \in Objects /\ consumer'.at = "loop"
    BY <1>9 DEF StartCheck, ConsumerTypes, Moving
  <2>3. /\ InHand({"count", "start"}) = {consumer.obj} /\ InHand({"count", "start"})' = {}
        /\ InHand({"put"}) = {} /\ InHand({"put"})' = {}
    BY <2>2 DEF InHand
  <2>4. check[consumer.obj] = "none"
    <3>1. Held = {consumer.obj} BY <2>2 DEF Held, Moving
    <3> QED BY <2>2, <3>1 DEF Once, Checked
  <2>5. /\ InCheck("running")' = InCheck("running") \cup {consumer.obj}
        /\ InCheck("put")' = InCheck("put")
    BY <1>9, <2>2, <2>4 DEF StartCheck, InCheck, PlainTypes
  <2> QED BY <2>1, <2>3, <2>5 DEF SameSent, MovesOn, Pending, Admitted
<1>10. CASE Wait
  <2>1. /\ UNCHANGED <<todo, found>> /\ Candidate' = Candidate /\ SameSent
        /\ InCheck("running")' = InCheck("running") /\ InCheck("put")' = InCheck("put")
    BY <1>10, SameFacts, StaysFacts DEF Wait, SameCandidate
  <2>2. consumer.at = "wait" /\ consumer'.at \in {"error", "close"} BY <1>10 DEF Wait, ConsumerTypes
  <2>3. /\ InHand({"count", "start"}) = {} /\ InHand({"count", "start"})' = {}
        /\ InHand({"put"}) = {} /\ InHand({"put"})' = {}
    BY <2>2 DEF InHand
  <2> QED BY <2>1, <2>3 DEF SameSent, MovesOn, Pending, Admitted
<1>11. CASE SendError
  <2>1. /\ UNCHANGED <<todo, found>> /\ Candidate' = Candidate /\ Got' = Got
        /\ InCheck("running")' = InCheck("running") /\ InCheck("put")' = InCheck("put")
    BY <1>11, SameFacts, StaysFacts DEF SendError, SameCandidate, Got
  <2>2. consumer.at = "error" /\ consumer'.at = "close" /\ first \in Errors
    BY <1>11 DEF SendError, ConsumerTypes
  <2>3. /\ InHand({"count", "start"}) = {} /\ InHand({"count", "start"})' = {}
        /\ InHand({"put"}) = {} /\ InHand({"put"})' = {}
    BY <2>2 DEF InHand
  <2>4. Queued' = Queued \cup {first} BY <1>11, <2>2, PutFacts DEF SendError
  <2> QED BY <2>1, <2>2, <2>3, <2>4 DEF MovesOn, Pending, Admitted
<1>12. CASE CloseResults
  <2>1. /\ UNCHANGED <<todo, found>> /\ Candidate' = Candidate
        /\ InCheck("running")' = InCheck("running") /\ InCheck("put")' = InCheck("put")
    BY <1>12, SameFacts, StaysFacts DEF CloseResults, SameCandidate
  <2>2. consumer.at = "close" /\ consumer'.at = "ended" BY <1>12 DEF CloseResults, ConsumerTypes
  <2>3. /\ InHand({"count", "start"}) = {} /\ InHand({"count", "start"})' = {}
        /\ InHand({"put"}) = {} /\ InHand({"put"})' = {}
    BY <2>2 DEF InHand
  <2>4. results'.q = results.q /\ caller' = caller BY <1>12 DEF CloseResults, ResultTypes
  <2>5. Queued' = Queued /\ Got' = Got BY <2>4 DEF Queued, Got
  <2> QED BY <2>1, <2>3, <2>5 DEF MovesOn, Pending, Admitted
<1>13. ASSUME NEW o \in Objects, EndCheck(o) PROVE (CountsOne \/ MovesOn)
  <2>1. /\ UNCHANGED todo /\ Candidate' = Candidate /\ SameSent
        /\ InHand({"count", "start"})' = InHand({"count", "start"})
        /\ InHand({"put"})' = InHand({"put"})
    BY <1>13, SameFacts, StaysFacts DEF EndCheck, SameCandidate
  <2>2. check[o] = "running" /\ o \in Checked BY <1>13 DEF EndCheck, Checked
  <2>3. o \notin todo \cup Candidate \cup InHand({"count", "start"})
    <3>1. InHand({"count", "start"}) \subseteq Held BY DEF InHand, Held, Moving
    <3> QED BY <2>2, <3>1 DEF Once
  <2>4. ASSUME NEW s \in {"put", "ended"}, check' = [check EXCEPT ![o] = s]
        PROVE  /\ InCheck("running")' = InCheck("running") \ {o} /\ o \in InCheck("running")
               /\ InCheck("put")' = IF s = "put" THEN InCheck("put") \cup {o} ELSE InCheck("put")
    BY <2>2, <2>4 DEF InCheck, PlainTypes
  <2>5. CASE found' = Counts /\ check' = [check EXCEPT ![o] = IF Within THEN "put" ELSE "ended"]
    <3>1. /\ o \in Pending /\ Pending' = Pending \ {o}
          /\ Admitted' = IF Within THEN Admitted \cup {o} ELSE Admitted
      BY <2>1, <2>3, <2>4, <2>5 DEF SameSent, Pending, Admitted
    <3> QED BY <2>5, <3>1 DEF CountsOne
  <2>6. CASE found' = found /\ check' = [check EXCEPT ![o] = "ended"] /\ (kind[o] = "denied" \/ stopped')
    <3>1. Pending' = Pending \ {o} /\ Admitted' = Admitted
      BY <2>1, <2>3, <2>4, <2>6 DEF SameSent, Pending, Admitted
    <3>2. o \notin Related \/ ~Quiet' BY <2>6 DEF Related, Quiet
    <3> QED BY <2>6, <3>1, <3>2 DEF MovesOn
  <2> QED BY <1>13, <2>5, <2>6 DEF EndCheck, TaskFails
<1>14. ASSUME NEW o \in Objects, PutChecked(o) PROVE (CountsOne \/ MovesOn)
  <2>1. /\ UNCHANGED <<todo, found, expired, cancelled, stopped>> /\ Candidate' = Candidate /\ Got' = Got
        /\ InHand({"count", "start"})' = InHand({"count", "start"})
        /\ InHand({"put"})' = InHand({"put"})
    BY <1>14, SameFacts, StaysFacts DEF PutChecked, SameCandidate, Got, poolVars
  <2>2. /\ InCheck("running")' = InCheck("running")
        /\ InCheck("put")' = InCheck("put") \ {o} /\ o \in InCheck("put")
    BY <1>14 DEF PutChecked, InCheck, PlainTypes
  <2>3. CASE results' = [results EXCEPT !.q = Append(@, o)]
    <3>1. Queued' = Queued \cup {o} BY <2>3, PutFacts
    <3>2. o \notin Errors BY PipelineAssumption DEF Errors
    <3>3. InCheck("put") \subseteq InCheck("put")' \cup {o} BY <2>2
    <3> QED BY <2>1, <2>2, <3>1, <3>2, <3>3 DEF MovesOn, Pending, Admitted
  <2>4. CASE PoolDone /\ UNCHANGED results
    <3>1. Queued' = Queued /\ ~Quiet' BY <2>1, <2>4 DEF Queued, Quiet, PoolDone
    <3> QED BY <2>1, <2>2, <3>1 DEF MovesOn, Pending, Admitted
  <2> QED BY <1>14, <2>3, <2>4 DEF PutChecked
<1>15. CASE Take
  <2>1. /\ UNCHANGED <<todo, found>> /\ Candidate' = Candidate
        /\ InCheck("running")' = InCheck("running") /\ InCheck("put")' = InCheck("put")
        /\ InHand({"count", "start"})' = InHand({"count", "start"})
        /\ InHand({"put"})' = InHand({"put"})
    BY <1>15, SameFacts, StaysFacts DEF Take, SameCandidate
  <2> DEFINE x == results.q[1]
  <2>2. Queued = Queued' \cup {x} BY <1>15, TakeFacts, TakenFacts
  <2>3. CASE x \in Objects /\ caller' = [caller EXCEPT !.got = Append(@, x)]
    <3>1. Got' = Got \cup {x} BY <2>3, GotFacts
    <3>2. x \notin Errors BY <2>3, PipelineAssumption DEF Errors
    <3> HIDE DEF x
    <3> QED BY <2>1, <2>2, <3>1, <3>2 DEF MovesOn, Pending, Admitted
  <2>4. CASE caller'.got = caller.got /\ (x \in Errors \/ ~Quiet')
    <3>1. Got' = Got BY <2>4 DEF Got
    <3> HIDE DEF x
    <3> QED BY <2>1, <2>2, <2>4, <3>1 DEF MovesOn, Pending, Admitted
  <2>5. \/ x \in Objects /\ caller' = [caller EXCEPT !.got = Append(@, x)]
        \/ caller'.got = caller.got /\ (x \in Errors \/ ~Quiet')
    BY <1>15, TakeFacts DEF CallerTypes, Quiet
  <2> QED BY <2>3, <2>4, <2>5
<1>16. CASE Finish
  <2>1. /\ UNCHANGED <<todo, found>> /\ Candidate' = Candidate /\ Queued' = Queued
        /\ InCheck("running")' = InCheck("running") /\ InCheck("put")' = InCheck("put")
        /\ InHand({"count", "start"})' = InHand({"count", "start"})
        /\ InHand({"put"})' = InHand({"put"})
    BY <1>16, SameFacts, StaysFacts DEF Finish, SameCandidate, Queued
  <2>2. caller'.got = caller.got BY <1>16 DEF Finish, Return, CallerTypes
  <2>3. Got' = Got BY <2>2 DEF Got
  <2> QED BY <2>1, <2>3 DEF MovesOn, Pending, Admitted
<1>17. CASE Expire
  <2>1. /\ UNCHANGED <<todo, found>> /\ Candidate' = Candidate /\ SameSent
        /\ InCheck("running")' = InCheck("running") /\ InCheck("put")' = InCheck("put")
        /\ InHand({"count", "start"})' = InHand({"count", "start"})
        /\ InHand({"put"})' = InHand({"put"})
    BY <1>17, SameFacts, StaysFacts DEF Expire, SameCandidate
  <2> QED BY <2>1 DEF SameSent, MovesOn, Pending, Admitted
<1>18. CASE UNCHANGED vars
  <2>1. /\ UNCHANGED <<todo, found>> /\ Candidate' = Candidate /\ SameSent
        /\ InCheck("running")' = InCheck("running") /\ InCheck("put")' = InCheck("put")
        /\ InHand({"count", "start"})' = InHand({"count", "start"})
        /\ InHand({"put"})' = InHand({"put"})
    BY <1>18, SameFacts, StaysFacts DEF vars, SameCandidate
  <2> QED BY <2>1 DEF SameSent, MovesOn, Pending, Admitted
<1> QED BY <1>1, <1>2, <1>3, <1>4, <1>5, <1>6, <1>7, <1>8, <1>9, <1>10, <1>11, <1>12, <1>13,
           <1>14, <1>15, <1>16, <1>17, <1>18 DEF Next, Expansion, Consumer, Checks, Caller

(* The call and its objects stay the same.                                 *)
LEMMA CallStays == [Next]_vars => UNCHANGED <<call, kind>>
<1> SUFFICES ASSUME [Next]_vars PROVE UNCHANGED <<call, kind>>
  OBVIOUS
<1>1. ASSUME NEW o \in Objects, SendCandidate(o) PROVE UNCHANGED <<call, kind>>
  BY <1>1 DEF SendCandidate
<1>2. CASE CloseCandidates BY <1>2 DEF CloseCandidates
<1>3. CASE ReturnExpansion BY <1>3 DEF ReturnExpansion
<1>4. ASSUME NEW err \in {"hard", "condition", "cancelled"}, FailExpansion(err) PROVE UNCHANGED <<call, kind>>
  BY <1>4 DEF FailExpansion
<1>5. CASE LeaveLoop BY <1>5 DEF LeaveLoop
<1>6. CASE Receive BY <1>6 DEF Receive
<1>7. CASE CountDirect BY <1>7 DEF CountDirect
<1>8. CASE PutDirect BY <1>8 DEF PutDirect
<1>9. CASE StartCheck BY <1>9 DEF StartCheck
<1>10. CASE Wait BY <1>10 DEF Wait
<1>11. CASE SendError BY <1>11 DEF SendError
<1>12. CASE CloseResults BY <1>12 DEF CloseResults
<1>13. ASSUME NEW o \in Objects, EndCheck(o) PROVE UNCHANGED <<call, kind>>
  BY <1>13 DEF EndCheck
<1>14. ASSUME NEW o \in Objects, PutChecked(o) PROVE UNCHANGED <<call, kind>>
  BY <1>14 DEF PutChecked
<1>15. CASE Take BY <1>15 DEF Take
<1>16. CASE Finish BY <1>16 DEF Finish
<1>17. CASE Expire BY <1>17 DEF Expire
<1>18. CASE UNCHANGED vars BY <1>18 DEF vars
<1> QED BY <1>1, <1>2, <1>3, <1>4, <1>5, <1>6, <1>7, <1>8, <1>9, <1>10, <1>11, <1>12, <1>13,
           <1>14, <1>15, <1>16, <1>17, <1>18 DEF Next, Expansion, Consumer, Checks, Caller

(* The sets that are counted are finite.                                   *)
CountedSets ==
    /\ Admitted \subseteq Objects /\ IsFiniteSet(Admitted) /\ Cardinality(Admitted) \in Nat
    /\ IsFiniteSet(Objects \ Pending) /\ Cardinality(Objects \ Pending) \in Nat

LEMMA AdmittedFinite == TInv => CountedSets
<1> SUFFICES ASSUME PipelineTypes PROVE CountedSets
  BY DEF TInv
<1>1. InHand({"put"}) \subseteq Objects BY DEF InHand, PipelineTypes, ConsumerTypes, Moving
<1>2. Admitted \subseteq Objects BY <1>1, SentTypes DEF Admitted, InCheck
<1> QED BY <1>2, PipelineAssumption, FS_Subset, FS_CardinalityType DEF CountedSets

(* What is still pending is admitted nowhere.                              *)
LEMMA PendingApart == TInv /\ Once => Pending \cap Admitted = {}
<1> SUFFICES ASSUME TInv, Once PROVE Pending \cap Admitted = {}
  OBVIOUS
<1>1. /\ InHand({"count", "start"}) \subseteq Held /\ InHand({"put"}) \subseteq Held
      /\ InHand({"count", "start"}) = {} \/ InHand({"put"}) = {}
  BY DEF InHand, Held, Moving
<1>2. /\ InCheck("running") \subseteq Running /\ InCheck("put") \subseteq Running
      /\ Running \subseteq Checked /\ InCheck("running") \cap InCheck("put") = {}
  BY DEF InCheck, Running, Checked
<1> QED BY <1>1, <1>2 DEF Once, Pending, Admitted

(* Every object is counted once, and no more are admitted than the limit.  *)
Counted ==
    /\ found <= Cardinality(Objects \ Pending)
    /\ call.max # 0 => Cardinality(Admitted) <= found /\ Cardinality(Admitted) <= call.max

LEMMA CountedStep == TInv /\ Once /\ Counted /\ [Next]_vars => Counted'
<1> SUFFICES ASSUME TInv, Once, Counted, [Next]_vars PROVE Counted'
  OBVIOUS
<1>1. TInv' BY TInvStep
<1>2. call' = call /\ call.max \in Nat /\ found \in Nat /\ call \in Calls
  BY CallStays, PipelineAssumption DEF TInv, PipelineTypes, PlainTypes
<1>3. /\ IsFiniteSet(Admitted) /\ Cardinality(Admitted) \in Nat
      /\ IsFiniteSet(Objects \ Pending) /\ Cardinality(Objects \ Pending) \in Nat
  BY AdmittedFinite DEF CountedSets
<1>4. /\ IsFiniteSet(Admitted') /\ Cardinality(Admitted') \in Nat
      /\ IsFiniteSet(Objects \ Pending') /\ Cardinality(Objects \ Pending') \in Nat
  <2>1. CountedSets' BY <1>1, AdmittedFinite, PTL
  <2> QED BY <2>1 DEF CountedSets
<1>5. CASE MovesOn
  <2>1. Objects \ Pending \subseteq Objects \ Pending' BY <1>5 DEF MovesOn
  <2>2. Cardinality(Objects \ Pending) <= Cardinality(Objects \ Pending')
    BY <1>4, <2>1, FS_Subset
  <2>3. Cardinality(Admitted') <= Cardinality(Admitted) BY <1>3, <1>5, FS_Subset DEF MovesOn
  <2>4. found' = found BY <1>5 DEF MovesOn
  <2> QED BY <1>2, <1>3, <1>4, <2>2, <2>3, <2>4 DEF Counted
<1>6. CASE CountsOne
  <2>1. PICK o \in Pending : /\ found' = Counts /\ Pending' = Pending \ {o}
                             /\ Admitted' = IF Within THEN Admitted \cup {o} ELSE Admitted
    BY <1>6 DEF CountsOne
  <2>2. o \in Objects
    BY <1>2, CandidateFacts DEF Pending, InCheck, InHand, TInv, PipelineTypes, PlainTypes, ConsumerTypes, Moving
  <2>3. Objects \ Pending' = (Objects \ Pending) \cup {o} BY <2>1, <2>2
  <2>4. Cardinality(Objects \ Pending') = Cardinality(Objects \ Pending) + 1
    BY <1>3, <2>1, <2>3, FS_AddElement
  <2>5. o \notin Admitted BY <2>1, PendingApart
  <2>6. Cardinality(Admitted') = IF Within THEN Cardinality(Admitted) + 1 ELSE Cardinality(Admitted)
    BY <1>3, <2>1, <2>5, FS_AddElement
  <2> QED BY <1>2, <1>3, <2>1, <2>4, <2>6 DEF Counted, Counts, Within
<1> QED BY <1>5, <1>6, StepKinds

LEMMA RelatedStep == TInv /\ Once /\ SentAreRelated /\ [Next]_vars => SentAreRelated'
<1> SUFFICES ASSUME TInv, Once, SentAreRelated, [Next]_vars PROVE SentAreRelated'
  OBVIOUS
<1> USE DEF SentAreRelated, TInv, PipelineTypes
<1>1. ASSUME NEW o \in Objects, SendCandidate(o) PROVE SentAreRelated'
  BY <1>1 DEF SendCandidate, Related, Got, Queued
<1>2. CASE CloseCandidates BY <1>2 DEF CloseCandidates, Related, Got, Queued
<1>3. CASE ReturnExpansion BY <1>3 DEF ReturnExpansion, Related, Got, Queued
<1>4. ASSUME NEW err \in {"hard", "condition", "cancelled"}, FailExpansion(err) PROVE SentAreRelated'
  BY <1>4 DEF FailExpansion, Related, Got, Queued
<1>5. CASE LeaveLoop BY <1>5 DEF LeaveLoop, Related, Got, Queued, ConsumerTypes
<1>6. CASE Receive
  <2>1. UNCHANGED <<check, caller, results, kind>> BY <1>6 DEF Receive
  <2>2. \E o \in Objects : \/ consumer' = [at |-> "wait", obj |-> NoObject]
                           \/ kind[o] = "direct" /\ consumer' = [at |-> "count", obj |-> o]
                           \/ consumer' = [at |-> "start", obj |-> o]
    BY <1>6, ReceiveFacts DEF PlainTypes
  <2>3. consumer'.at \in {"count", "put"} => kind'[consumer'.obj] = "direct" BY <2>1, <2>2
  <2> QED BY <2>1, <2>3 DEF Related, Got, Queued
<1>7. CASE CountDirect BY <1>7 DEF CountDirect, Related, Got, Queued, ConsumerTypes
<1>8. CASE PutDirect
  <2>1. consumer.at = "put" /\ consumer.obj \in Objects /\ consumer'.at = "loop"
    BY <1>8 DEF PutDirect, ConsumerTypes, Moving
  <2>2. consumer.obj \in Related BY <2>1 DEF Related
  <2>3. UNCHANGED <<check, caller, kind>> BY <1>8 DEF PutDirect
  <2>4. Queued' \subseteq Queued \cup {consumer.obj} BY <1>8, <2>1, PutFacts DEF PutDirect, Queued
  <2> QED BY <2>1, <2>2, <2>3, <2>4 DEF Related, Got
<1>9. CASE StartCheck BY <1>9 DEF StartCheck, Related, Got, Queued, ConsumerTypes, PlainTypes, Moving
<1>10. CASE Wait BY <1>10 DEF Wait, Related, Got, Queued, ConsumerTypes
<1>11. CASE SendError
  <2>1. consumer'.at = "close" /\ first \in Errors BY <1>11 DEF SendError, ConsumerTypes
  <2>2. UNCHANGED <<check, caller, kind>> BY <1>11 DEF SendError
  <2>3. Queued' = Queued \cup {first} BY <1>11, <2>1, PutFacts DEF SendError
  <2> QED BY <2>1, <2>2, <2>3 DEF Related, Got
<1>12. CASE CloseResults
  <2>1. consumer'.at = "ended" BY <1>12 DEF CloseResults, ConsumerTypes
  <2>2. UNCHANGED <<check, caller, kind>> BY <1>12 DEF CloseResults
  <2>3. results'.q = results.q BY <1>12 DEF CloseResults, ResultTypes
  <2> QED BY <2>1, <2>2, <2>3 DEF Related, Got, Queued
<1>13. ASSUME NEW o \in Objects, EndCheck(o) PROVE SentAreRelated'
  <2>1. UNCHANGED <<consumer, caller, results, kind>> BY <1>13 DEF EndCheck
  <2>2. check' = [check EXCEPT ![o] = "ended"] \/ (kind[o] = "allowed" /\ check' = [check EXCEPT ![o] = "put"])
    BY <1>13 DEF EndCheck
  <2>3. \A q \in Objects : check'[q] = "put" => check[q] = "put" \/ (q = o /\ kind[o] = "allowed")
    BY <2>2 DEF PlainTypes
  <2> QED BY <2>1, <2>3 DEF Related, Got, Queued
<1>14. ASSUME NEW o \in Objects, PutChecked(o) PROVE SentAreRelated'
  <2>1. UNCHANGED <<consumer, caller, kind>> BY <1>14 DEF PutChecked
  <2>2. check[o] = "put" /\ check' = [check EXCEPT ![o] = "ended"] BY <1>14 DEF PutChecked
  <2>3. \A q \in Objects : check'[q] = "put" => check[q] = "put" BY <2>2 DEF PlainTypes
  <2>4. Queued' \subseteq Queued \cup {o} BY <1>14, PutFacts DEF PutChecked, Queued
  <2>5. o \in Related BY <2>2 DEF Related
  <2> QED BY <2>1, <2>3, <2>4, <2>5 DEF Related, Got
<1>15. CASE Take
  <2>1. UNCHANGED <<consumer, check, kind>> BY <1>15 DEF Take
  <2> DEFINE x == results.q[1]
  <2>2. Queued = Queued' \cup {x} BY <1>15, TakeFacts, TakenFacts
  <2>3. Got' = Got \/ (Got' = Got \cup {x} /\ x \in Objects)
    <3>1. CASE x \in Objects /\ caller' = [caller EXCEPT !.got = Append(@, x)] BY <3>1, GotFacts
    <3>2. CASE caller'.got = caller.got BY <3>2 DEF Got
    <3> QED BY <1>15, <3>1, <3>2, TakeFacts DEF CallerTypes
  <2>4. x \in Objects => x \in Related BY <2>2, PipelineAssumption DEF Errors
  <2> HIDE DEF x
  <2> QED BY <2>1, <2>2, <2>3, <2>4 DEF Related
<1>16. CASE Finish
  <2>1. UNCHANGED <<consumer, check, results, kind>> BY <1>16 DEF Finish
  <2>2. caller'.got = caller.got BY <1>16 DEF Finish, Return, CallerTypes
  <2> QED BY <2>1, <2>2 DEF Related, Got, Queued
<1>17. CASE Expire BY <1>17 DEF Expire, Related, Got, Queued
<1>18. CASE UNCHANGED vars BY <1>18 DEF vars, Related, Got, Queued
<1> QED BY <1>1, <1>2, <1>3, <1>4, <1>5, <1>6, <1>7, <1>8, <1>9, <1>10, <1>11, <1>12, <1>13,
           <1>14, <1>15, <1>16, <1>17, <1>18 DEF Next, Expansion, Consumer, Checks, Caller

-----------------------------------------------------------------------------
(* The limit. *)

LInv == TInv /\ Once /\ SentAreRelated /\ Counted

LEMMA LInvInit == Init => LInv
<1> SUFFICES ASSUME Init PROVE LInv
  OBVIOUS
<1>1. TInv /\ Once BY TInvInit, OnceInit
<1>2. Got = {} /\ Queued = {} BY DEF Init, Got, Queued, Range
<1>3. SentAreRelated BY <1>2 DEF Init, SentAreRelated
<1>4. Admitted = {} BY <1>2 DEF Init, Admitted, InCheck, InHand
<1>5. Cardinality(Admitted) = 0 BY <1>4, FS_EmptySet
<1>6. Cardinality(Objects \ Pending) \in Nat /\ call.max \in Nat
  BY <1>1, AdmittedFinite, PipelineAssumption DEF Init, CountedSets
<1>7. Counted BY <1>5, <1>6 DEF Counted, Init
<1> QED BY <1>1, <1>3, <1>7 DEF LInv

LEMMA LInvStep == LInv /\ [Next]_vars => LInv'
BY TInvStep, OnceStep, RelatedStep, CountedStep DEF LInv

LEMMA LInvAlways == Spec => []LInv
BY LInvInit, LInvStep, PTL DEF Spec

(* A list without repetition is as long as the set of its elements.        *)
LEMMA NoRepeatLength ==
    ASSUME NEW S, NEW s \in Seq(S), NoRepeat(s), IsFiniteSet(S)
    PROVE  Len(s) = Cardinality(Range(s)) /\ IsFiniteSet(Range(s))
<1>1. Len(s) \in Nat /\ DOMAIN s = 1..Len(s) /\ Range(s) \subseteq S BY DEF Range
<1>2. IsFiniteSet(Range(s)) BY <1>1, FS_Subset
<1>3. s \in [1..Len(s) -> Range(s)]
  BY <1>1 DEF Range
<1>4. s \in Bijection(1..Len(s), Range(s))
  <2>1. s \in Injection(1..Len(s), Range(s)) BY <1>1, <1>3 DEF Injection, IsInjective, NoRepeat
  <2>2. s \in Surjection(1..Len(s), Range(s)) BY <1>1, <1>3 DEF Surjection, Range
  <2> QED BY <2>1, <2>2 DEF Bijection
<1>5. Cardinality(1..Len(s)) = Len(s) /\ IsFiniteSet(1..Len(s)) BY <1>1, FS_Interval
<1>6. Cardinality(Range(s)) = Cardinality(1..Len(s)) BY <1>4, <1>5, FS_Bijection DEF ExistsBijection
<1> QED BY <1>2, <1>5, <1>6

LEMMA GotLength == LInv => Len(caller.got) = Cardinality(Got) /\ Got \subseteq Admitted
BY NoRepeatLength, PipelineAssumption
   DEF LInv, TInv, PipelineTypes, CallerTypes, Once, Got, Admitted

(* What the caller of ListObjects gets is related, comes once and is no    *)
(* more than the limit, although trySendObject counts an object and sends  *)
(* it in two steps of several goroutines.                                  *)
THEOREM ListsStayWithinLimit == Spec => []ListIsWithinLimit
<1>1. LInv => ListIsWithinLimit
  <2> SUFFICES ASSUME LInv PROVE ListIsWithinLimit
    OBVIOUS
  <2>1. Range(caller.got) \subseteq Related BY DEF LInv, SentAreRelated, Got
  <2>2. \A i, j \in DOMAIN caller.got : i # j => caller.got[i] # caller.got[j]
    BY DEF LInv, Once, NoRepeat
  <2>3. Cardinality(Got) <= Cardinality(Admitted) /\ Cardinality(Got) \in Nat /\ Cardinality(Admitted) \in Nat
    BY GotLength, AdmittedFinite, FS_Subset, FS_CardinalityType DEF LInv, CountedSets
  <2>4. call.max # 0 => Len(caller.got) <= call.max
    BY <2>3, GotLength, PipelineAssumption DEF LInv, Counted, TInv, PipelineTypes, PlainTypes
  <2> QED BY <2>1, <2>2, <2>4 DEF ListIsWithinLimit
<1> QED BY <1>1, LInvAlways, PTL

-----------------------------------------------------------------------------
(* The whole list. *)

Calm == ~expired /\ ~cancelled

(* The first error of the pool is kept, and it is an error to report       *)
(* unless something else had ended the work; the handler reports it.       *)
ErrorIsTold ==
    /\ stopped <=> first # "none"
    /\ Calm /\ stopped => first \in Errors
    /\ expansion = "cancelled" => ~Calm \/ stopped
    /\ consumer.at \in {"close", "ended"} /\ first \in Errors /\ caller.at = "ranging"
          => Queued \cap Errors # {} \/ caller.errs

(* A loop that was not cut short saw the last candidate.                   *)
LoopIsDone ==
    /\ candidates.closed => todo = {} /\ expansion = "ended"
    /\ Calm /\ consumer.at \in {"wait"} \cup Past => candidates.closed /\ candidates.q = <<>>

(* As long as nothing makes the call drop objects, every related one is    *)
(* still to come or admitted, until as many are admitted as allowed.       *)
NoneIsLost ==
    Quiet /\ call.max # 0 =>
        /\ Related \subseteq Pending \cup Admitted \/ Cardinality(Admitted) >= call.max
        /\ Cardinality(Admitted) >= found \/ Cardinality(Admitted) >= call.max

LEMMA ErrorStep == TInv /\ ErrorIsTold /\ [Next]_vars => ErrorIsTold'
<1> SUFFICES ASSUME TInv, ErrorIsTold, [Next]_vars PROVE ErrorIsTold'
  OBVIOUS
<1> USE DEF ErrorIsTold, TInv, PipelineTypes
<1>1. ASSUME NEW o \in Objects, SendCandidate(o) PROVE ErrorIsTold'
  BY <1>1 DEF SendCandidate, Queued, Calm, poolVars, PlainTypes
<1>2. CASE CloseCandidates BY <1>2 DEF CloseCandidates, Queued, Calm, poolVars, PlainTypes
<1>3. CASE ReturnExpansion
  <2>1. /\ UNCHANGED <<cancelled, expired, consumer, results, caller>>
        /\ expansion' = "ended" /\ stopped' = TRUE /\ first' = IF first = "none" THEN expansion ELSE first
    BY <1>3 DEF ReturnExpansion, TaskFails
  <2>2. consumer.at \notin Past BY <1>3 DEF ReturnExpansion, WaitedFor
  <2>3. expansion \in {"hard", "condition"} \/ (expansion = "cancelled" /\ (~Calm \/ stopped))
    BY <1>3 DEF ReturnExpansion
  <2> QED BY <2>1, <2>2, <2>3 DEF Calm, Past, Errors
<1>4. ASSUME NEW err \in {"hard", "condition", "cancelled"}, FailExpansion(err) PROVE ErrorIsTold'
  BY <1>4 DEF FailExpansion, Queued, Calm, poolVars, PlainTypes, PoolDone
<1>5. CASE LeaveLoop BY <1>5 DEF LeaveLoop, Queued, Calm, poolVars, PlainTypes, ConsumerTypes
<1>6. CASE Receive
  <2>1. UNCHANGED <<expansion, expired, stopped, first>> /\ (cancelled' = cancelled \/ cancelled' = TRUE)
    BY <1>6, ReceiveFacts DEF Receive, poolVars, PlainTypes
  <2>2. consumer'.at \in {"wait", "count", "start"}
    <3>1. \E o \in Objects : \/ consumer' = [at |-> "wait", obj |-> NoObject]
                             \/ consumer' = [at |-> "count", obj |-> o]
                             \/ consumer' = [at |-> "start", obj |-> o]
      BY <1>6, ReceiveFacts DEF PlainTypes
    <3> QED BY <3>1
  <2> QED BY <2>1, <2>2 DEF Calm
<1>7. CASE CountDirect BY <1>7 DEF CountDirect, Queued, Calm, poolVars, PlainTypes, ConsumerTypes
<1>8. CASE PutDirect
  <2>1. consumer'.at = "loop" BY <1>8 DEF PutDirect, ConsumerTypes
  <2>2. UNCHANGED <<expansion, cancelled, expired, stopped, first>> BY <1>8 DEF PutDirect, poolVars
  <2> QED BY <2>1, <2>2 DEF Calm
<1>9. CASE StartCheck BY <1>9 DEF StartCheck, Queued, Calm, poolVars, PlainTypes, ConsumerTypes
<1>10. CASE Wait
  <2>1. UNCHANGED <<expansion, cancelled, expired, stopped, first, results, caller>> /\ consumer.at = "wait"
    BY <1>10 DEF Wait, poolVars
  <2>2. first \in Errors => consumer'.at = "error" BY <1>10 DEF Wait, ConsumerTypes, Errors
  <2> QED BY <2>1, <2>2 DEF Calm
<1>11. CASE SendError
  <2>1. UNCHANGED <<expansion, cancelled, expired, stopped, first>> BY <1>11 DEF SendError, poolVars
  <2>2. first \in Errors BY <1>11 DEF SendError, ConsumerTypes
  <2>3. Queued' = Queued \cup {first} BY <1>11, <2>2, PutFacts DEF SendError
  <2> QED BY <2>1, <2>2, <2>3 DEF Calm
<1>12. CASE CloseResults
  <2>1. UNCHANGED <<expansion, cancelled, expired, stopped, first, caller>> /\ consumer.at = "close"
    BY <1>12 DEF CloseResults, poolVars
  <2>2. results'.q = results.q BY <1>12 DEF CloseResults, ResultTypes
  <2> QED BY <2>1, <2>2 DEF Calm, Queued
<1>13. ASSUME NEW o \in Objects, EndCheck(o) PROVE ErrorIsTold'
  <2>1. UNCHANGED <<expansion, cancelled, expired, consumer, results, caller>> BY <1>13 DEF EndCheck
  <2>2. consumer.at \notin Past BY <1>13 DEF EndCheck, WaitedFor, Running
  <2>3. \/ UNCHANGED <<stopped, first>>
        \/ \E err \in Errors : stopped' = TRUE /\ first' = IF first = "none" THEN err ELSE first
        \/ PoolDone /\ stopped' = TRUE /\ first' = IF first = "none" THEN "cancelled" ELSE first
    BY <1>13 DEF EndCheck, TaskFails, poolVars
  <2> QED BY <2>1, <2>2, <2>3 DEF Calm, Past, Errors, PoolDone
<1>14. ASSUME NEW o \in Objects, PutChecked(o) PROVE ErrorIsTold'
  <2>1. UNCHANGED <<expansion, cancelled, expired, stopped, first, consumer>> BY <1>14 DEF PutChecked, poolVars
  <2>2. consumer.at \notin Past BY <1>14 DEF PutChecked, WaitedFor, Running
  <2> QED BY <2>1, <2>2 DEF Calm, Past
<1>15. CASE Take
  <2>1. UNCHANGED <<expansion, cancelled, stopped, first, consumer>> BY <1>15 DEF Take, poolVars
  <2> DEFINE x == results.q[1]
  <2>2. Queued = Queued' \cup {x} BY <1>15, TakeFacts, TakenFacts
  <2>3. \/ x \in Objects /\ caller'.errs = caller.errs /\ caller'.at = caller.at /\ expired' = expired
        \/ caller'.errs = TRUE /\ caller'.at = caller.at /\ expired' = expired
        \/ expired' = TRUE /\ caller'.at # "ranging"
    <3>1. CASE x \in Objects /\ expired' = expired /\ caller' = [caller EXCEPT !.got = Append(@, x)]
      BY <3>1, AppendedGot
    <3>2. CASE expired' = expired /\ caller' = [caller EXCEPT !.errs = TRUE] BY <3>2 DEF CallerTypes
    <3>3. CASE expired' = TRUE /\ \E at \in {"hung up", "failed"} : caller' = [caller EXCEPT !.at = at]
      BY <3>3 DEF CallerTypes
    <3> QED BY <1>15, <3>1, <3>2, <3>3, TakeFacts
  <2>4. x \in Objects => x \notin Errors BY PipelineAssumption DEF Errors
  <2> HIDE DEF x
  <2> QED BY <2>1, <2>2, <2>3, <2>4 DEF Calm
<1>16. CASE Finish
  <2>1. expired' = TRUE /\ caller'.at # "ranging" BY <1>16 DEF Finish, Return, CallerTypes
  <2>2. UNCHANGED <<expansion, stopped, first>> BY <1>16 DEF Finish, poolVars
  <2> QED BY <2>1, <2>2 DEF Calm
<1>17. CASE Expire BY <1>17 DEF Expire, Queued, Calm, poolVars, PlainTypes
<1>18. CASE UNCHANGED vars BY <1>18 DEF vars, Calm, Queued
<1> QED BY <1>1, <1>2, <1>3, <1>4, <1>5, <1>6, <1>7, <1>8, <1>9, <1>10, <1>11, <1>12, <1>13,
           <1>14, <1>15, <1>16, <1>17, <1>18 DEF Next, Expansion, Consumer, Checks, Caller

LEMMA LoopStep == TInv /\ LoopIsDone /\ [Next]_vars => LoopIsDone'
<1> SUFFICES ASSUME TInv, LoopIsDone, [Next]_vars PROVE LoopIsDone'
  OBVIOUS
<1> USE DEF LoopIsDone, TInv, PipelineTypes
<1>1. ASSUME NEW o \in Objects, SendCandidate(o) PROVE LoopIsDone'
  <2>1. UNCHANGED <<cancelled, expired, consumer>> /\ expansion = "running" /\ o \in todo
    BY <1>1 DEF SendCandidate
  <2>2. candidates'.closed = candidates.closed BY <1>1 DEF SendCandidate, CandidateTypes
  <2> QED BY <2>1, <2>2 DEF Calm
<1>2. CASE CloseCandidates BY <1>2 DEF CloseCandidates, Calm, poolVars, CandidateTypes
<1>3. CASE ReturnExpansion BY <1>3 DEF ReturnExpansion, Calm, poolVars
<1>4. ASSUME NEW err \in {"hard", "condition", "cancelled"}, FailExpansion(err) PROVE LoopIsDone'
  BY <1>4 DEF FailExpansion, Calm, poolVars
<1>5. CASE LeaveLoop BY <1>5 DEF LeaveLoop, Calm, poolVars, ConsumerTypes, Past
<1>6. CASE Receive
  <2>1. UNCHANGED <<expansion, todo, expired>> /\ consumer.at = "loop" BY <1>6 DEF Receive
  <2>2. PICK o \in Objects : /\ candidates'.closed = candidates.closed
                             /\ \/ cancelled' = TRUE
                                \/ consumer' = [at |-> "count", obj |-> o]
                                \/ consumer' = [at |-> "start", obj |-> o]
    BY <1>6, ReceiveFacts DEF PlainTypes
  <2>3. cancelled' = TRUE \/ consumer'.at \in {"count", "start"} BY <2>2
  <2> QED BY <2>1, <2>2, <2>3 DEF Calm, Past
<1>7. CASE CountDirect BY <1>7 DEF CountDirect, Calm, poolVars, ConsumerTypes, Past
<1>8. CASE PutDirect BY <1>8 DEF PutDirect, Calm, poolVars, ConsumerTypes, Past
<1>9. CASE StartCheck BY <1>9 DEF StartCheck, Calm, poolVars, ConsumerTypes, Past
<1>10. CASE Wait BY <1>10 DEF Wait, Calm, poolVars, ConsumerTypes, Past
<1>11. CASE SendError BY <1>11 DEF SendError, Calm, poolVars, ConsumerTypes, Past
<1>12. CASE CloseResults BY <1>12 DEF CloseResults, Calm, poolVars, ConsumerTypes, Past
<1>13. ASSUME NEW o \in Objects, EndCheck(o) PROVE LoopIsDone'
  BY <1>13 DEF EndCheck, Calm, poolVars
<1>14. ASSUME NEW o \in Objects, PutChecked(o) PROVE LoopIsDone'
  BY <1>14 DEF PutChecked, Calm, poolVars
<1>15. CASE Take
  <2>1. UNCHANGED <<expansion, todo, candidates, consumer, cancelled>> BY <1>15 DEF Take
  <2>2. expired' = expired \/ expired' = TRUE BY <1>15, TakeFacts DEF PipelineTypes
  <2> QED BY <2>1, <2>2 DEF Calm
<1>16. CASE Finish BY <1>16 DEF Finish, Calm, poolVars, Return
<1>17. CASE Expire BY <1>17 DEF Expire, Calm, poolVars
<1>18. CASE UNCHANGED vars BY <1>18 DEF vars, Calm
<1> QED BY <1>1, <1>2, <1>3, <1>4, <1>5, <1>6, <1>7, <1>8, <1>9, <1>10, <1>11, <1>12, <1>13,
           <1>14, <1>15, <1>16, <1>17, <1>18 DEF Next, Expansion, Consumer, Checks, Caller

(* What has ended the work stays ended.                                    *)
LEMMA QuietStays == TInv /\ [Next]_vars => (Quiet' => Quiet)
<1> SUFFICES ASSUME TInv, [Next]_vars PROVE (Quiet' => Quiet)
  OBVIOUS
<1> USE DEF Quiet, poolVars, TInv, PipelineTypes
<1>1. ASSUME NEW o \in Objects, SendCandidate(o) PROVE (Quiet' => Quiet)
  BY <1>1 DEF SendCandidate
<1>2. CASE CloseCandidates BY <1>2 DEF CloseCandidates
<1>3. CASE ReturnExpansion BY <1>3 DEF ReturnExpansion, TaskFails
<1>4. ASSUME NEW err \in {"hard", "condition", "cancelled"}, FailExpansion(err) PROVE (Quiet' => Quiet)
  BY <1>4 DEF FailExpansion
<1>5. CASE LeaveLoop BY <1>5 DEF LeaveLoop
<1>6. CASE Receive
  BY <1>6, ReceiveFacts DEF Receive, PlainTypes
<1>7. CASE CountDirect BY <1>7 DEF CountDirect
<1>8. CASE PutDirect BY <1>8 DEF PutDirect
<1>9. CASE StartCheck BY <1>9 DEF StartCheck
<1>10. CASE Wait BY <1>10 DEF Wait
<1>11. CASE SendError BY <1>11 DEF SendError
<1>12. CASE CloseResults BY <1>12 DEF CloseResults
<1>13. ASSUME NEW o \in Objects, EndCheck(o) PROVE (Quiet' => Quiet)
  BY <1>13 DEF EndCheck, TaskFails
<1>14. ASSUME NEW o \in Objects, PutChecked(o) PROVE (Quiet' => Quiet)
  BY <1>14 DEF PutChecked
<1>15. CASE Take BY <1>15 DEF Take, Return
<1>16. CASE Finish BY <1>16 DEF Finish, Return
<1>17. CASE Expire BY <1>17 DEF Expire
<1>18. CASE UNCHANGED vars BY <1>18 DEF vars
<1> QED BY <1>1, <1>2, <1>3, <1>4, <1>5, <1>6, <1>7, <1>8, <1>9, <1>10, <1>11, <1>12, <1>13,
           <1>14, <1>15, <1>16, <1>17, <1>18 DEF Next, Expansion, Consumer, Checks, Caller

LEMMA LostStep == LInv /\ NoneIsLost /\ [Next]_vars => NoneIsLost'
<1> SUFFICES ASSUME LInv, NoneIsLost, [Next]_vars, Quiet', call'.max # 0
             PROVE  (/\ Related \subseteq Pending \cup Admitted \/ Cardinality(Admitted) >= call.max
                     /\ Cardinality(Admitted) >= found \/ Cardinality(Admitted) >= call.max)'
  BY DEF NoneIsLost
<1>1. TInv /\ Once BY DEF LInv
<1>2. call' = call /\ Related' = Related BY CallStays DEF Related
<1>3. Quiet BY <1>1, QuietStays
<1>4. call.max \in Nat /\ found \in Nat
  BY <1>1, PipelineAssumption DEF TInv, PipelineTypes, PlainTypes
<1>5. IsFiniteSet(Admitted) /\ Cardinality(Admitted) \in Nat BY <1>1, AdmittedFinite DEF CountedSets
<1>6. /\ Related \subseteq Pending \cup Admitted \/ Cardinality(Admitted) >= call.max
      /\ Cardinality(Admitted) >= found \/ Cardinality(Admitted) >= call.max
  BY <1>2, <1>3 DEF NoneIsLost
<1>7. CASE MovesOn
  <2>1. found' = found /\ Admitted' = Admitted /\ Related \cap Pending \subseteq Pending'
    BY <1>7 DEF MovesOn
  <2> QED BY <1>2, <1>6, <2>1
<1>8. CASE CountsOne
  <2>1. PICK o \in Pending : /\ found' = Counts /\ Pending' = Pending \ {o}
                             /\ Admitted' = IF Within THEN Admitted \cup {o} ELSE Admitted
    BY <1>8 DEF CountsOne
  <2>2. o \notin Admitted BY <1>1, PendingApart
  <2>3. found' = found + 1 BY <1>2, <2>1 DEF Counts
  <2>4. CASE Within
    <3>1. Admitted' = Admitted \cup {o} BY <2>1, <2>4
    <3>2. Cardinality(Admitted') = Cardinality(Admitted) + 1 BY <1>5, <2>2, <3>1, FS_AddElement
    <3>3. Pending \cup Admitted \subseteq Pending' \cup Admitted' BY <2>1, <3>1
    <3> QED BY <1>2, <1>4, <1>5, <1>6, <2>3, <3>2, <3>3
  <2>5. CASE ~Within
    <3>1. Admitted' = Admitted /\ found >= call.max BY <1>2, <1>4, <2>1, <2>5 DEF Within
    <3> QED BY <1>2, <1>4, <1>5, <1>6, <3>1
  <2> QED BY <2>4, <2>5
<1> QED BY <1>1, <1>7, <1>8, StepKinds

WInv == LInv /\ ErrorIsTold /\ LoopIsDone /\ NoneIsLost

LEMMA WInvInit == Init => WInv
<1> SUFFICES ASSUME Init PROVE WInv
  OBVIOUS
<1>1. LInv BY LInvInit
<1>2. ErrorIsTold BY DEF Init, ErrorIsTold
<1>3. LoopIsDone BY DEF Init, LoopIsDone, Past
<1>4. NoneIsLost
  <2>1. Related \subseteq Pending BY DEF Init, Related, Pending
  <2>2. found = 0 /\ Cardinality(Admitted) \in Nat
    BY <1>1, AdmittedFinite DEF Init, LInv, CountedSets
  <2> QED BY <2>1, <2>2 DEF NoneIsLost
<1> QED BY <1>1, <1>2, <1>3, <1>4 DEF WInv

LEMMA WInvAlways == Spec => []WInv
<1>1. WInv /\ [Next]_vars => WInv'
  BY LInvStep, ErrorStep, LoopStep, LostStep DEF WInv, LInv
<1> QED BY WInvInit, <1>1, PTL DEF Spec

(* Once the channel of results is closed and empty, nothing is pending and *)
(* all that was admitted has arrived.                                      *)
LEMMA ClosedFacts ==
    ASSUME WInv, results.closed, results.q = <<>>, Calm
    PROVE  Pending = {} /\ Admitted = Got
<1>1. /\ consumer.at = "ended" /\ Running = {} BY DEF WInv, LInv, TInv, WaitedFor, Past
<1>2. todo = {} /\ candidates.q = <<>> BY <1>1 DEF WInv, LoopIsDone, Past
<1>3. Candidate = {} /\ Queued = {} BY <1>2 DEF Candidate, Queued, Range
<1>4. InCheck("running") = {} /\ InCheck("put") = {} BY <1>1 DEF InCheck, Running
<1>5. InHand({"count", "start"}) = {} /\ InHand({"put"}) = {} BY <1>1 DEF InHand
<1> QED BY <1>2, <1>3, <1>4, <1>5 DEF Pending, Admitted

(* The caller returns without an error only when it has read the channel   *)
(* to its end.                                                             *)
LEMMA OnlyFinishReturns ==
    ASSUME PipelineTypes, [Next]_vars, caller.at = "ranging", caller'.at = "ok"
    PROVE  Finish
<1>1. ~Take
  <2> SUFFICES ASSUME Take PROVE FALSE
    OBVIOUS
  <2>1. CASE results.q[1] \in Objects /\ caller' = [caller EXCEPT !.got = Append(@, results.q[1])]
    BY <2>1, AppendedGot DEF PipelineTypes
  <2>2. CASE caller' = [caller EXCEPT !.errs = TRUE] BY <2>2 DEF PipelineTypes, CallerTypes
  <2>3. CASE \E at \in {"hung up", "failed"} : caller' = [caller EXCEPT !.at = at]
    BY <2>3 DEF PipelineTypes, CallerTypes
  <2> QED BY <2>1, <2>2, <2>3, TakeFacts
<1>2. caller' # caller OBVIOUS
<1> QED BY <1>1, <1>2
  DEF Next, Expansion, Consumer, Checks, Caller, vars, SendCandidate, CloseCandidates,
      ReturnExpansion, FailExpansion, LeaveLoop, Receive, CountDirect, PutDirect, StartCheck,
      Wait, SendError, CloseResults, EndCheck, PutChecked, Expire

(* What cancels the work of a call before its deadline: the limit, or a    *)
(* reverse expansion that failed and has told the pool or is about to.     *)
Full  == call.max # 0 /\ found >= call.max
Fails == {"hard", "condition", "cancelled"}
Caused ==
    /\ signal => expansion \in Fails \/ first # "none"
    /\ cancelled => expired \/ Full \/ expansion \in Fails \/ first # "none"

LEMMA CausedStep == TInv /\ Caused /\ [Next]_vars => Caused'
<1> SUFFICES ASSUME TInv, Caused, [Next]_vars PROVE Caused'
  OBVIOUS
<1> USE DEF Caused, Fails
<1>a. PlainTypes /\ CandidateTypes BY DEF TInv, PipelineTypes
<1>0. call' = call /\ call.max \in Nat /\ found \in Nat
  BY <1>a, CallStays, PipelineAssumption DEF PlainTypes
<1>b. ASSUME found' = found \/ found' = found + 1, UNCHANGED <<signal, cancelled, expired, expansion>>,
             first' = first \/ first' # "none"
      PROVE  Caused'
  <2>1. Full => Full' BY <1>0, <1>b DEF Full
  <2> QED BY <1>b, <2>1
<1>1. ASSUME NEW o \in Objects, SendCandidate(o) PROVE Caused' BY <1>1, <1>b DEF SendCandidate, poolVars
<1>2. CASE CloseCandidates BY <1>2, <1>0 DEF CloseCandidates, poolVars, Full
<1>3. CASE ReturnExpansion BY <1>3, <1>0 DEF ReturnExpansion, TaskFails, Full
<1>4. ASSUME NEW err \in {"hard", "condition", "cancelled"}, FailExpansion(err) PROVE Caused'
  BY <1>4 DEF FailExpansion
<1>5. CASE LeaveLoop BY <1>5, <1>0, <1>a DEF LeaveLoop, poolVars, Full, PlainTypes
<1>6. CASE Receive
  <2>1. UNCHANGED <<signal, expired, expansion, first, found>> BY <1>6 DEF Receive, poolVars
  <2>2. cancelled' = cancelled \/ Full BY <1>6, <1>a, ReceiveFacts DEF PlainTypes, Full
  <2>3. Full => Full' BY <1>0, <2>1 DEF Full
  <2> QED BY <2>1, <2>2, <2>3
<1>7. CASE CountDirect BY <1>7, <1>b DEF CountDirect, Counts, poolVars
<1>8. CASE PutDirect BY <1>8, <1>b DEF PutDirect, poolVars
<1>9. CASE StartCheck BY <1>9, <1>b DEF StartCheck, poolVars
<1>10. CASE Wait BY <1>10, <1>b DEF Wait, poolVars
<1>11. CASE SendError BY <1>11, <1>b DEF SendError, poolVars
<1>12. CASE CloseResults BY <1>12, <1>b DEF CloseResults, poolVars
<1>13. ASSUME NEW o \in Objects, EndCheck(o) PROVE Caused'
  <2>1. UNCHANGED <<signal, cancelled, expired, expansion>> BY <1>13 DEF EndCheck
  <2>2. found' = found \/ found' = found + 1 BY <1>13 DEF EndCheck, Counts
  <2>3. first' = first \/ first' # "none" BY <1>13 DEF EndCheck, TaskFails, poolVars, Errors
  <2> QED BY <1>b, <2>1, <2>2, <2>3
<1>14. ASSUME NEW o \in Objects, PutChecked(o) PROVE Caused' BY <1>14, <1>b DEF PutChecked, poolVars
<1>15. CASE Take
  <2>1. UNCHANGED <<signal, cancelled, expansion, first, found>> BY <1>15 DEF Take, poolVars
  <2>2. expired' = expired \/ expired' = TRUE BY <1>15 DEF Take, Return
  <2>3. Full => Full' BY <1>0, <2>1 DEF Full
  <2> QED BY <2>1, <2>2, <2>3
<1>16. CASE Finish
  <2>1. UNCHANGED <<signal, expansion, first>> /\ expired' = TRUE BY <1>16 DEF Finish, Return, poolVars
  <2> QED BY <2>1
<1>17. CASE Expire
  <2>1. UNCHANGED <<signal, expansion, first>> /\ expired' = TRUE BY <1>17 DEF Expire, poolVars
  <2> QED BY <2>1
<1>18. CASE UNCHANGED vars BY <1>18, <1>b DEF vars
<1> QED BY <1>1, <1>2, <1>3, <1>4, <1>5, <1>6, <1>7, <1>8, <1>9, <1>10, <1>11, <1>12, <1>13,
           <1>14, <1>15, <1>16, <1>17, <1>18 DEF Next, Expansion, Consumer, Checks, Caller

LEMMA CausedAlways == Spec => []Caused
<1>1. Init => Caused BY DEF Init, Caused
<1> QED BY <1>1, TInvAlways, CausedStep, PTL DEF Spec

(* A caller that reads the channel to its end after the pool had an error  *)
(* to report has read that error, and returns without one only when its    *)
(* list is as long as the limit.                                           *)
LEMMA ToldErrorsFail ==
    ASSUME WInv, Finish, caller'.at = "ok", first \in Errors
    PROVE  ~(Len(caller.got) < call.max)
<1>1. results.q = <<>> /\ results.closed /\ caller.at = "ranging" BY DEF Finish
<1>2. consumer.at = "ended" BY <1>1 DEF WInv, LInv, TInv, WaitedFor
<1>3. Queued = {} BY <1>1 DEF Queued, Range
<1>4. caller.errs BY <1>1, <1>2, <1>3 DEF WInv, ErrorIsTold
<1> QED BY <1>4 DEF Finish, Return, WInv, LInv, TInv, PipelineTypes, CallerTypes

(* A call of ListObjects that returns without an error before its deadline *)
(* has the whole list, or as much as the limit allows: no failure of a     *)
(* Check or of reverse expansion is taken for the end of the list. The two *)
(* cases left out are cancelled calls: the limit was reached, or a Check   *)
(* that was cancelled came to the pool before the error that cancelled it. *)
THEOREM ListsAreWhole == Spec => ListIsWhole
<1> DEFINE whole == Range(caller.got) = Related \/ Len(caller.got) = call.max
           cut == cancelled /\ (found >= call.max \/ first = "cancelled")
<1>1. ASSUME WInv, Caused, [Next]_vars, caller.at = "ranging", caller'.at = "ok", ~expired, call.max # 0,
             ~cut
      PROVE  whole
  <2>1. Finish BY <1>1, OnlyFinishReturns DEF WInv, LInv, TInv
  <2>2. results.q = <<>> /\ results.closed BY <2>1 DEF Finish
  <2>3. /\ call.max \in Nat /\ Len(caller.got) = Cardinality(Got)
        /\ Cardinality(Got) \in Nat /\ Cardinality(Got) <= call.max
    <3>1. Got \subseteq Admitted /\ Len(caller.got) = Cardinality(Got) BY <1>1, GotLength DEF WInv
    <3>2. /\ IsFiniteSet(Admitted) /\ Cardinality(Admitted) \in Nat /\ Cardinality(Admitted) <= call.max
          /\ call.max \in Nat
      BY <1>1, AdmittedFinite, PipelineAssumption
         DEF WInv, LInv, TInv, PipelineTypes, PlainTypes, CountedSets, Counted
    <3>3. Cardinality(Got) \in Nat /\ Cardinality(Got) <= Cardinality(Admitted)
      BY <3>1, <3>2, FS_Subset, FS_CardinalityType
    <3> QED BY <3>1, <3>2, <3>3
  <2>4. CASE ~cancelled /\ ~stopped
    <3>0. Pending = {} /\ Admitted = Got BY <1>1, <2>2, <2>4, ClosedFacts DEF Calm
    <3>1. Related \subseteq Got \/ Cardinality(Got) >= call.max
      BY <1>1, <2>4, <3>0 DEF WInv, NoneIsLost, Quiet
    <3>2. Got \subseteq Related BY <1>1 DEF WInv, LInv, SentAreRelated
    <3>3. CASE Related \subseteq Got BY <3>2, <3>3 DEF Got
    <3>4. CASE Cardinality(Got) >= call.max BY <2>3, <3>4
    <3> QED BY <3>1, <3>3, <3>4
  <2>5. CASE first \in Errors
    <3>1. ~(Len(caller.got) < call.max) BY <1>1, <2>1, <2>5, ToldErrorsFail
    <3> QED BY <2>3, <3>1
  <2>6. ~cancelled /\ stopped => first \in Errors BY <1>1 DEF WInv, ErrorIsTold, Calm
  <2>7. cancelled => first \in Errors
    <3>1. expansion = "ended" BY <1>1, <2>2 DEF WInv, LInv, TInv, WaitedFor, Past
    <3>2. cancelled => first # "none" /\ first # "cancelled" BY <1>1, <3>1 DEF Caused, Full, Fails
    <3> QED BY <1>1, <3>2 DEF WInv, LInv, TInv, PipelineTypes, PlainTypes, Errors
  <2>8. cancelled \in BOOLEAN /\ stopped \in BOOLEAN BY <1>1 DEF WInv, LInv, TInv, PipelineTypes, PlainTypes
  <2> QED BY <2>4, <2>5, <2>6, <2>7, <2>8
<1>2. WInv /\ Caused /\ [Next]_vars
        => [(caller.at = "ranging" /\ caller'.at = "ok" /\ ~expired /\ call.max # 0) =>
              \/ Range(caller.got) = Related \/ Len(caller.got) = call.max
              \/ cancelled /\ (found >= call.max \/ first = "cancelled")]_vars
  BY <1>1
<1> QED BY <1>2, WInvAlways, CausedAlways, PTL DEF Spec, ListIsWhole

-----------------------------------------------------------------------------
(* Types, with the places of the channel of results. *)

Fits == Len(results.q) <= call.cap

LEMMA FitsStep == TInv /\ Fits /\ [Next]_vars => Fits'
<1> SUFFICES ASSUME TInv, Fits, [Next]_vars PROVE Fits'
  OBVIOUS
<1> DEFINE S == Objects \cup Errors
<1>1. /\ results.q \in Seq(S) /\ results \in [q : Seq(S), closed : BOOLEAN]
      /\ call' = call /\ call.cap \in Nat
  BY CallStays, PipelineAssumption DEF TInv, PipelineTypes, ResultTypes, PlainTypes
<1>2. Len(results.q) \in Nat BY <1>1
<1>3. CASE results'.q = results.q BY <1>1, <1>3 DEF Fits
<1>4. ASSUME NEW x \in S, HasRoom, results' = [results EXCEPT !.q = Append(@, x)] PROVE Fits'
  <2>1. results'.q = Append(results.q, x) BY <1>1, <1>4
  <2>2. Len(results'.q) = Len(results.q) + 1 BY <1>1, <2>1
  <2> QED BY <1>1, <1>2, <1>4, <2>2 DEF Fits, HasRoom
<1>5. CASE results.q # <<>> /\ results' = [results EXCEPT !.q = Tail(@)]
  <2>1. results'.q = Tail(results.q) BY <1>1, <1>5
  <2>2. Len(results'.q) = Len(results.q) - 1 BY <1>1, <1>5, <2>1
  <2> QED BY <1>1, <1>2, <2>2 DEF Fits
<1>6. CASE UNCHANGED results BY <1>3, <1>6
<1>7. CASE PutDirect
  BY <1>4, <1>6, <1>7 DEF PutDirect, TInv, PipelineTypes, ConsumerTypes, Moving
<1>8. CASE SendError
  BY <1>4, <1>8 DEF SendError, TInv, PipelineTypes, ConsumerTypes
<1>9. CASE CloseResults BY <1>1, <1>3, <1>9 DEF CloseResults
<1>10. ASSUME NEW o \in Objects, PutChecked(o) PROVE Fits' BY <1>4, <1>6, <1>10 DEF PutChecked
<1>11. CASE Take BY <1>5, <1>11 DEF Take
<1>12. CASE Expansion \/ FailExpansion("hard") \/ FailExpansion("condition") \/ Expire \/ Finish
            \/ UNCHANGED vars
  BY <1>6, <1>12 DEF Expansion, FailExpansion, Expire, Finish, vars, SendCandidate, CloseCandidates,
     ReturnExpansion
<1>13. CASE LeaveLoop \/ Receive \/ CountDirect \/ StartCheck \/ Wait
  BY <1>6, <1>13 DEF LeaveLoop, Receive, CountDirect, StartCheck, Wait
<1>14. ASSUME NEW o \in Objects, EndCheck(o) PROVE Fits' BY <1>6, <1>14 DEF EndCheck
<1> QED BY <1>7, <1>8, <1>9, <1>10, <1>11, <1>12, <1>13, <1>14 DEF Next, Consumer, Caller, Checks

(* The variables of a call keep their types: objectsFound counts no object *)
(* twice, and the channel of results never holds more than it has places.  *)
THEOREM PipelineTypesHold == Spec => []TypeOK
<1>1. Init => Fits
  BY PipelineAssumption DEF Init, Fits
<1>2. LInv /\ Fits => TypeOK
  <2> SUFFICES ASSUME LInv, Fits PROVE TypeOK
    OBVIOUS
  <2>1. found \in 0..Cardinality(Objects)
    <3>1. IsFiniteSet(Objects) /\ Objects \ Pending \subseteq Objects BY PipelineAssumption
    <3>2. /\ Cardinality(Objects \ Pending) <= Cardinality(Objects)
          /\ Cardinality(Objects \ Pending) \in Nat /\ Cardinality(Objects) \in Nat
      BY <3>1, FS_Subset, FS_CardinalityType
    <3> QED BY <3>2 DEF LInv, TInv, PipelineTypes, PlainTypes, Counted
  <2>2. PlainTypes /\ CandidateTypes /\ ConsumerTypes /\ ResultTypes /\ CallerTypes
    BY DEF LInv, TInv, PipelineTypes
  <2>3. candidates.q \in {<<>>} \cup {<<o>> : o \in Objects} /\ candidates.closed \in BOOLEAN
    BY <2>2 DEF CandidateTypes
  <2>4. /\ consumer.at \in {"loop", "count", "put", "start", "wait", "error", "close", "ended"}
        /\ consumer.obj \in Objects \cup {NoObject}
    BY <2>2 DEF ConsumerTypes, Moving, Past
  <2>5. results.closed \in BOOLEAN /\ caller.errs \in BOOLEAN
        /\ caller.at \in {"ranging", "ok", "failed", "hung up"}
    BY <2>2 DEF ResultTypes, CallerTypes
  <2>6. \A b \in {cancelled, stopped, expired, caller.errs} : b \in BOOLEAN
    BY <2>2, <2>5 DEF PlainTypes
  <2> QED BY <2>1, <2>2, <2>3, <2>4, <2>5, <2>6 DEF TypeOK, PlainTypes, Fits
<1>3. LInv => TInv BY DEF LInv
<1> QED BY <1>1, <1>2, <1>3, FitsStep, LInvAlways, PTL DEF Spec


-----------------------------------------------------------------------------
(* Nobody is stuck. *)

(* What each goroutine needs to take its next step: a candidate to find or *)
(* a place to put it; something to receive, a place in the channel of      *)
(* results or in the pool; all tasks done; something to range over.        *)
ExpansionCanGoOn ==
    \/ expansion = "running" /\ (todo = {} \/ candidates.q = <<>> \/ PoolDone)
    \/ expansion \in {"hard", "condition", "cancelled"}

ConsumerCanGoOn ==
    \/ consumer.at = "loop" /\ (candidates.q # <<>> \/ candidates.closed \/ signal \/ expired)
    \/ consumer.at = "put" /\ (HasRoom \/ expired)
    \/ /\ consumer.at = "start"
       /\ Cardinality(Running) + (IF expansion = "ended" THEN 0 ELSE 1) < 1 + Breadth
    \/ consumer.at = "wait" /\ expansion = "ended" /\ Running = {}
    \/ consumer.at = "error" /\ HasRoom
    \/ consumer.at \in {"count", "close"}

CheckCanGoOn(o) ==
    \/ check[o] = "running" /\ (kind[o] \in {"allowed", "denied", "failing"} \/ PoolDone)
    \/ check[o] = "put" /\ (HasRoom \/ PoolDone)

CallerCanGoOn == caller.at = "ranging" /\ (results.q # <<>> \/ results.closed)

(* The call is over and the handler has ended, unless a client that hung   *)
(* up left it behind with an error to send.                                *)
Over ==
    /\ caller.at # "ranging"
    /\ consumer.at = "ended" \/ (caller.at = "hung up" /\ consumer.at = "error")

(* The goroutines of a call never all wait for each other's channels or    *)
(* for the pool. This is the part of CallEnds that is a matter of safety.  *)
NobodyIsStuck ==
    Over \/ ExpansionCanGoOn \/ ConsumerCanGoOn \/ CallerCanGoOn \/ \E o \in Objects : CheckCanGoOn(o)

(* The channel of results is closed when the handler ends; a caller that   *)
(* has returned has ended the context, and saw the end or an error.        *)
Ends ==
    /\ consumer.at = "ended" => results.closed
    /\ caller.at # "ranging" => expired
    /\ caller.at = "ok" => results.closed
    /\ caller.at = "failed" => consumer.at \in {"close", "ended"}

(* While the consumer is in its loop the end of reverse expansion is there *)
(* to be seen.                                                             *)
EndIsSeen ==
    expansion # "running" /\ consumer.at \in {"loop"} \cup Moving => candidates.closed \/ signal

(* Only objects that need one get a Check.                                 *)
ChecksAreDue ==
    /\ \A o \in Objects : check[o] # "none" => kind[o] # "direct"
    /\ consumer.at = "start" => kind[consumer.obj] # "direct"

LEMMA EndsStep == TInv /\ Once /\ Ends /\ [Next]_vars => Ends'
<1> SUFFICES ASSUME TInv, Once, Ends, [Next]_vars PROVE Ends'
  OBVIOUS
<1>a. ConsumerTypes /\ ResultTypes /\ CallerTypes /\ PipelineTypes /\ PlainTypes /\ CandidateTypes
  BY DEF TInv, PipelineTypes
<1>b. ASSUME UNCHANGED <<results, caller, expired>>, consumer.at \notin {"close", "ended"}, consumer'.at # "ended"
      PROVE  Ends'
  BY <1>b DEF Ends
<1>c. ASSUME UNCHANGED <<results, caller, expired, consumer>> PROVE Ends' BY <1>c DEF Ends
<1>1. ASSUME NEW o \in Objects, SendCandidate(o) PROVE Ends' BY <1>1, <1>c DEF SendCandidate
<1>2. CASE CloseCandidates BY <1>2, <1>c DEF CloseCandidates
<1>3. CASE ReturnExpansion BY <1>3, <1>c DEF ReturnExpansion
<1>4. ASSUME NEW err \in {"hard", "condition", "cancelled"}, FailExpansion(err) PROVE Ends'
  BY <1>4, <1>c DEF FailExpansion
<1>5. CASE LeaveLoop BY <1>5, <1>a, <1>b DEF LeaveLoop, ConsumerTypes
<1>6. CASE Receive
  <2>1. consumer'.at \in {"wait", "count", "start"}
    <3>1. \E o \in Objects : \/ consumer' = [at |-> "wait", obj |-> NoObject]
                             \/ consumer' = [at |-> "count", obj |-> o]
                             \/ consumer' = [at |-> "start", obj |-> o]
      BY <1>6, <1>a, ReceiveFacts DEF PlainTypes
    <3> QED BY <3>1
  <2> QED BY <1>6, <1>b, <2>1 DEF Receive
<1>7. CASE CountDirect BY <1>7, <1>a, <1>b DEF CountDirect, ConsumerTypes
<1>8. CASE PutDirect
  <2>1. /\ consumer.at = "put" /\ consumer'.at = "loop" /\ UNCHANGED <<caller, expired>>
        /\ results'.closed = results.closed
    BY <1>8, <1>a DEF PutDirect, ConsumerTypes, ResultTypes
  <2> QED BY <2>1 DEF Ends
<1>9. CASE StartCheck BY <1>9, <1>a, <1>b DEF StartCheck, ConsumerTypes
<1>10. CASE Wait BY <1>10, <1>a, <1>b DEF Wait, ConsumerTypes
<1>11. CASE SendError
  <2>1. /\ consumer.at = "error" /\ consumer'.at = "close" /\ UNCHANGED <<caller, expired>>
        /\ results'.closed = results.closed
    BY <1>11, <1>a DEF SendError, ConsumerTypes, ResultTypes
  <2> QED BY <2>1 DEF Ends
<1>12. CASE CloseResults
  <2>1. consumer'.at = "ended" /\ UNCHANGED <<caller, expired>> /\ results'.closed = TRUE
    BY <1>12, <1>a DEF CloseResults, ConsumerTypes, ResultTypes
  <2> QED BY <2>1 DEF Ends
<1>13. ASSUME NEW o \in Objects, EndCheck(o) PROVE Ends' BY <1>13, <1>c DEF EndCheck
<1>14. ASSUME NEW o \in Objects, PutChecked(o) PROVE Ends'
  <2>1. UNCHANGED <<consumer, caller, expired>> /\ results'.closed = results.closed
    BY <1>14, <1>a DEF PutChecked, ResultTypes
  <2> QED BY <2>1 DEF Ends
<1>15. CASE Take
  <2>1. consumer' = consumer /\ results'.closed = results.closed
    BY <1>15, <1>a, TakeFacts, TakenResult DEF Take
  <2>2. caller.at = "ranging" BY <1>15 DEF Take
  <2>3. \/ caller'.at = "ranging"
        \/ caller'.at = "hung up" /\ expired' = TRUE
        \/ caller'.at = "failed" /\ expired' = TRUE /\ results.q[1] \in Errors
    <3>1. results.q[1] \in Objects \cup Errors BY <1>15, <1>a, TakeFacts
    <3>2. CASE caller' = [caller EXCEPT !.got = Append(@, results.q[1])] BY <1>a, <2>2, <3>2 DEF CallerTypes
    <3>3. CASE caller' = [caller EXCEPT !.errs = TRUE] BY <1>a, <2>2, <3>3 DEF CallerTypes
    <3>4. CASE Return("hung up") BY <1>a, <3>4 DEF Return, CallerTypes
    <3>5. CASE results.q[1] \in Errors /\ Return("failed") BY <1>a, <3>5 DEF Return, CallerTypes
    <3> QED BY <1>15, <3>2, <3>3, <3>4, <3>5 DEF Take
  <2>4. results.q[1] \in Errors => consumer.at \in {"close", "ended"}
    <3>1. results.q[1] \in Queued BY <1>15, <1>a, TakeFacts, TakenFacts
    <3> QED BY <3>1 DEF Once
  <2>5. CASE caller'.at = "ranging" BY <2>1, <2>2, <2>5 DEF Ends
  <2>6. CASE caller'.at = "hung up" /\ expired' = TRUE BY <2>1, <2>6 DEF Ends
  <2>7. CASE caller'.at = "failed" /\ expired' = TRUE /\ results.q[1] \in Errors BY <2>1, <2>4, <2>7 DEF Ends
  <2> QED BY <2>3, <2>5, <2>6, <2>7
<1>16. CASE Finish
  <2>1. /\ results.closed /\ UNCHANGED <<results, consumer>> /\ expired' = TRUE
        /\ caller'.at \in {"ok", "failed"}
    BY <1>16, <1>a DEF Finish, Return, CallerTypes
  <2>2. consumer.at = "ended" BY <2>1 DEF TInv, WaitedFor
  <2> QED BY <2>1, <2>2 DEF Ends
<1>17. CASE Expire BY <1>17 DEF Expire, Ends
<1>18. CASE UNCHANGED vars BY <1>18, <1>c DEF vars
<1> QED BY <1>1, <1>2, <1>3, <1>4, <1>5, <1>6, <1>7, <1>8, <1>9, <1>10, <1>11, <1>12, <1>13,
           <1>14, <1>15, <1>16, <1>17, <1>18 DEF Next, Expansion, Consumer, Checks, Caller

LEMMA EndIsSeenStep == TInv /\ EndIsSeen /\ [Next]_vars => EndIsSeen'
<1> SUFFICES ASSUME TInv, EndIsSeen, [Next]_vars PROVE EndIsSeen'
  OBVIOUS
<1>a. ConsumerTypes /\ CandidateTypes /\ PlainTypes /\ PipelineTypes BY DEF TInv, PipelineTypes
<1>c. ASSUME UNCHANGED <<expansion, candidates, signal>>,
             consumer'.at \in {"loop"} \cup Moving => consumer.at \in {"loop"} \cup Moving
      PROVE  EndIsSeen'
  BY <1>c DEF EndIsSeen
<1>1. ASSUME NEW o \in Objects, SendCandidate(o) PROVE EndIsSeen' BY <1>1 DEF SendCandidate, EndIsSeen
<1>2. CASE CloseCandidates BY <1>2, <1>a DEF CloseCandidates, EndIsSeen, CandidateTypes
<1>3. CASE ReturnExpansion BY <1>3 DEF ReturnExpansion, EndIsSeen
<1>4. ASSUME NEW err \in {"hard", "condition", "cancelled"}, FailExpansion(err) PROVE EndIsSeen'
  BY <1>4 DEF FailExpansion, EndIsSeen
<1>5. CASE LeaveLoop
  <2>1. consumer'.at = "wait" BY <1>5, <1>a DEF LeaveLoop, ConsumerTypes
  <2> QED BY <2>1 DEF EndIsSeen, Moving
<1>6. CASE Receive
  <2>1. candidates'.closed = candidates.closed BY <1>6, <1>a, ReceiveFacts DEF PlainTypes
  <2>2. UNCHANGED <<expansion, signal>> /\ consumer.at = "loop" BY <1>6 DEF Receive
  <2> QED BY <2>1, <2>2 DEF EndIsSeen
<1>7. CASE CountDirect BY <1>7, <1>c DEF CountDirect, Moving
<1>8. CASE PutDirect BY <1>8, <1>c DEF PutDirect, Moving
<1>9. CASE StartCheck BY <1>9, <1>c DEF StartCheck, Moving
<1>10. CASE Wait
  <2>1. consumer'.at \in {"error", "close"} BY <1>10, <1>a DEF Wait, ConsumerTypes
  <2> QED BY <2>1 DEF EndIsSeen, Moving
<1>11. CASE SendError
  <2>1. consumer'.at = "close" BY <1>11, <1>a DEF SendError, ConsumerTypes
  <2> QED BY <2>1 DEF EndIsSeen, Moving
<1>12. CASE CloseResults
  <2>1. consumer'.at = "ended" BY <1>12, <1>a DEF CloseResults, ConsumerTypes
  <2> QED BY <2>1 DEF EndIsSeen, Moving
<1>13. ASSUME NEW o \in Objects, EndCheck(o) PROVE EndIsSeen' BY <1>13, <1>c DEF EndCheck
<1>14. ASSUME NEW o \in Objects, PutChecked(o) PROVE EndIsSeen' BY <1>14, <1>c DEF PutChecked
<1>15. CASE Take BY <1>15, <1>c DEF Take
<1>16. CASE Finish BY <1>16, <1>c DEF Finish
<1>17. CASE Expire BY <1>17, <1>c DEF Expire
<1>18. CASE UNCHANGED vars BY <1>18, <1>c DEF vars
<1> QED BY <1>1, <1>2, <1>3, <1>4, <1>5, <1>6, <1>7, <1>8, <1>9, <1>10, <1>11, <1>12, <1>13,
           <1>14, <1>15, <1>16, <1>17, <1>18 DEF Next, Expansion, Consumer, Checks, Caller

LEMMA DueStep == TInv /\ ChecksAreDue /\ [Next]_vars => ChecksAreDue'
<1> SUFFICES ASSUME TInv, ChecksAreDue, [Next]_vars PROVE ChecksAreDue'
  OBVIOUS
<1>a. ConsumerTypes /\ CandidateTypes /\ PlainTypes /\ check \in [Objects -> {"none", "running", "put", "ended"}]
  BY DEF TInv, PipelineTypes, PlainTypes
<1>0. kind' = kind BY CallStays
<1>b. ASSUME UNCHANGED check, consumer' = consumer \/ consumer'.at # "start" PROVE ChecksAreDue'
  BY <1>0, <1>b DEF ChecksAreDue
<1>c. ASSUME NEW o \in Objects, NEW s, check' = [check EXCEPT ![o] = s], kind[o] # "direct",
             consumer' = consumer \/ consumer'.at # "start"
      PROVE  ChecksAreDue'
  BY <1>0, <1>a, <1>c DEF ChecksAreDue
<1>1. ASSUME NEW o \in Objects, SendCandidate(o) PROVE ChecksAreDue' BY <1>1, <1>b DEF SendCandidate
<1>2. CASE CloseCandidates BY <1>2, <1>b DEF CloseCandidates
<1>3. CASE ReturnExpansion BY <1>3, <1>b DEF ReturnExpansion
<1>4. ASSUME NEW err \in {"hard", "condition", "cancelled"}, FailExpansion(err) PROVE ChecksAreDue'
  BY <1>4, <1>b DEF FailExpansion
<1>5. CASE LeaveLoop BY <1>5, <1>a, <1>b DEF LeaveLoop, ConsumerTypes
<1>6. CASE Receive
  <2>1. PICK o \in Objects : \/ consumer' = [at |-> "wait", obj |-> NoObject]
                             \/ consumer' = [at |-> "count", obj |-> o]
                             \/ kind[o] # "direct" /\ consumer' = [at |-> "start", obj |-> o]
    BY <1>6, <1>a, ReceiveFacts DEF PlainTypes
  <2>2. consumer'.at = "start" => kind[consumer'.obj] # "direct" BY <2>1
  <2>3. check' = check BY <1>6 DEF Receive
  <2> QED BY <1>0, <2>2, <2>3 DEF ChecksAreDue
<1>7. CASE CountDirect BY <1>7, <1>a, <1>b DEF CountDirect, ConsumerTypes
<1>8. CASE PutDirect BY <1>8, <1>a, <1>b DEF PutDirect, ConsumerTypes
<1>9. CASE StartCheck
  <2>1. consumer.obj \in Objects /\ kind[consumer.obj] # "direct"
    BY <1>9, <1>a DEF StartCheck, ConsumerTypes, Moving, ChecksAreDue
  <2>2. consumer'.at = "loop" /\ check' = [check EXCEPT ![consumer.obj] = "running"]
    BY <1>9, <1>a DEF StartCheck, ConsumerTypes
  <2> QED BY <1>c, <2>1, <2>2
<1>10. CASE Wait BY <1>10, <1>a, <1>b DEF Wait, ConsumerTypes
<1>11. CASE SendError BY <1>11, <1>a, <1>b DEF SendError, ConsumerTypes
<1>12. CASE CloseResults BY <1>12, <1>a, <1>b DEF CloseResults, ConsumerTypes
<1>13. ASSUME NEW o \in Objects, EndCheck(o) PROVE ChecksAreDue'
  <2>1. PICK s \in {"put", "ended"} : check' = [check EXCEPT ![o] = s] BY <1>13 DEF EndCheck
  <2>2. kind[o] # "direct" /\ consumer' = consumer BY <1>13 DEF EndCheck, ChecksAreDue
  <2> QED BY <1>c, <2>1, <2>2
<1>14. ASSUME NEW o \in Objects, PutChecked(o) PROVE ChecksAreDue'
  <2>1. kind[o] # "direct" /\ consumer' = consumer /\ check' = [check EXCEPT ![o] = "ended"]
    BY <1>14 DEF PutChecked, ChecksAreDue
  <2> QED BY <1>c, <2>1
<1>15. CASE Take BY <1>15, <1>b DEF Take
<1>16. CASE Finish BY <1>16, <1>b DEF Finish
<1>17. CASE Expire BY <1>17, <1>b DEF Expire
<1>18. CASE UNCHANGED vars BY <1>18, <1>b DEF vars
<1> QED BY <1>1, <1>2, <1>3, <1>4, <1>5, <1>6, <1>7, <1>8, <1>9, <1>10, <1>11, <1>12, <1>13,
           <1>14, <1>15, <1>16, <1>17, <1>18 DEF Next, Expansion, Consumer, Checks, Caller

(* A Check goes on when there is room for its object, or nobody waits for  *)
(* it any more.                                                            *)
LEMMA RunningChecksGoOn ==
    ASSUME TInv, ChecksAreDue, HasRoom \/ PoolDone, NEW o \in Running
    PROVE  CheckCanGoOn(o)
<1>1. o \in Objects /\ check[o] \in {"running", "put"} BY DEF Running
<1>2. kind[o] \in Kind BY <1>1, PipelineAssumption DEF TInv, PipelineTypes, PlainTypes
<1>3. check[o] = "running" => kind[o] \in {"allowed", "denied", "failing"}
  BY <1>1, <1>2 DEF ChecksAreDue, Kind
<1> QED BY <1>1, <1>3 DEF CheckCanGoOn

LEMMA SomebodyGoesOn ==
    WInv /\ Ends /\ EndIsSeen /\ ChecksAreDue => NobodyIsStuck
<1> SUFFICES ASSUME WInv, Ends, EndIsSeen, ChecksAreDue, ~Over, ~ExpansionCanGoOn, ~CallerCanGoOn,
                    \A o \in Objects : ~CheckCanGoOn(o)
             PROVE  ConsumerCanGoOn
  BY DEF NobodyIsStuck
<1>a. TInv /\ LoopIsDone BY DEF WInv, LInv
<1>b. ConsumerTypes /\ ResultTypes /\ PlainTypes /\ CallerTypes /\ CandidateTypes
  BY <1>a DEF TInv, PipelineTypes
(* The caller has emptied the channel, or it is gone and so is the context. *)
<1>1. expired \/ HasRoom
  <2>1. CASE caller.at = "ranging"
    <3>1. results.q = <<>> BY <2>1 DEF CallerCanGoOn
    <3>2. Len(results.q) = 0 /\ call.cap \in Nat \ {0}
      BY <1>b, <3>1, PipelineAssumption DEF PlainTypes
    <3> QED BY <3>2 DEF HasRoom
  <2>2. CASE caller.at # "ranging" BY <2>2 DEF Ends
  <2> QED BY <2>1, <2>2
<1>2. Running = {}
  <2>1. HasRoom \/ PoolDone BY <1>1 DEF PoolDone
  <2>2. \A o \in Running : o \in Objects /\ CheckCanGoOn(o) BY <1>a, <2>1, RunningChecksGoOn DEF Running
  <2> QED BY <2>2
<1>3. consumer.at \in {"loop", "wait"} \cup Moving \cup Past BY <1>b DEF ConsumerTypes
<1>4. CASE consumer.at \in {"count", "close"} BY <1>4 DEF ConsumerCanGoOn
<1>5. CASE consumer.at = "put" BY <1>1, <1>5 DEF ConsumerCanGoOn
<1>6. CASE consumer.at = "start"
  <2>1. Cardinality(Running) = 0 BY <1>2, FS_EmptySet
  <2>2. 0 + (IF expansion = "ended" THEN 0 ELSE 1) < 1 + Breadth BY PipelineAssumption
  <2> QED BY <1>6, <2>1, <2>2 DEF ConsumerCanGoOn
<1>7. CASE consumer.at = "loop"
  <2>1. CASE expansion = "running" BY <1>7, <2>1 DEF ExpansionCanGoOn, ConsumerCanGoOn
  <2>2. CASE expansion # "running" BY <1>7, <2>2 DEF EndIsSeen, ConsumerCanGoOn
  <2> QED BY <2>1, <2>2
<1>8. CASE consumer.at = "wait"
  <2>1. expansion # "running"
    <3> SUFFICES ASSUME expansion = "running" PROVE FALSE
      OBVIOUS
    <3>1. ~PoolDone BY DEF ExpansionCanGoOn
    <3>2. Calm BY <3>1 DEF PoolDone, Calm
    <3> QED BY <1>a, <1>8, <3>2 DEF LoopIsDone
  <2>2. expansion = "ended" BY <1>b, <2>1 DEF ExpansionCanGoOn, PlainTypes
  <2> QED BY <1>2, <1>8, <2>2 DEF ConsumerCanGoOn
<1>9. CASE consumer.at = "error"
  <2>1. caller.at \notin {"hung up", "ok", "failed"}
    <3>1. caller.at # "hung up" BY <1>9 DEF Over
    <3>2. caller.at # "ok" BY <1>a, <1>9 DEF Ends, TInv, WaitedFor
    <3>3. caller.at # "failed" BY <1>9 DEF Ends
    <3> QED BY <3>1, <3>2, <3>3
  <2>2. caller.at = "ranging" BY <1>b, <2>1 DEF CallerTypes
  <2>3. results.q = <<>> BY <2>2 DEF CallerCanGoOn
  <2>4. Len(results.q) = 0 /\ call.cap \in Nat \ {0} BY <1>b, <2>3, PipelineAssumption DEF PlainTypes
  <2>5. HasRoom BY <2>4 DEF HasRoom
  <2> QED BY <1>9, <2>5 DEF ConsumerCanGoOn
<1>10. CASE consumer.at = "ended" BY <1>10 DEF Ends, CallerCanGoOn, Over
<1> QED BY <1>3, <1>4, <1>5, <1>6, <1>7, <1>8, <1>9, <1>10 DEF Moving, Past

(* Whatever fails, expires, is cancelled or hung up, and however small the *)
(* channels, the pool and the limit are: until the call has returned and   *)
(* its handler has ended, one of its goroutines can go on. The one thing   *)
(* that can be left behind is the handler of a client that hung up, with   *)
(* an error to send.                                                       *)
THEOREM PipelineNeverJams == Spec => []NobodyIsStuck
<1>1. Init => Ends /\ EndIsSeen /\ ChecksAreDue BY DEF Init, Ends, EndIsSeen, ChecksAreDue
<1>2. WInv => TInv /\ Once BY DEF WInv, LInv
<1> QED BY <1>1, <1>2, WInvAlways, EndsStep, EndIsSeenStep, DueStep, SomebodyGoesOn, PTL DEF Spec
=============================================================================
