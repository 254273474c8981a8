--------------------------- MODULE PrivateIterators ---------------------------
(***************************************************************************)
(* What a request is promised of the iterator it opens                     *)
(* (storage.TupleIterator), whoever else asks the same query: its rows one *)
(* by one and in order from the first, none lost or repeated; the end only *)
(* after the last of them; and an end or an error that stays.  Wrappers    *)
(* that share iterators are shown to implement this specification, in      *)
(* which every request has one of its own.                                 *)
(***************************************************************************)
EXTENDS Naturals, Sequences

CONSTANTS Readers,  \* the requests
          Rows      \* the number of rows the query has

VARIABLES held,     \* the requests that have an iterator
          read,     \* the rows each has been given
          last      \* how it ended, if it has: "done" or "failed"

privateVars == <<held, read, last>>

PrivateInit ==
    /\ held = [r \in Readers |-> FALSE]
    /\ read = [r \in Readers |-> <<>>]
    /\ last = [r \in Readers |-> "none"]

OpenOwn(r) ==
    /\ ~held[r]
    /\ held' = [held EXCEPT ![r] = TRUE]
    /\ UNCHANGED <<read, last>>

(* Next gives the row after the ones it gave. (Head changes nothing.)      *)
Yield(r) ==
    /\ held[r] /\ last[r] = "none"
    /\ Len(read[r]) < Rows
    /\ read' = [read EXCEPT ![r] = Append(@, Len(@) + 1)]
    /\ UNCHANGED <<held, last>>

End(r) ==
    /\ held[r] /\ last[r] = "none"
    /\ \/ Len(read[r]) = Rows /\ last' = [last EXCEPT ![r] = "done"]
       \/ last' = [last EXCEPT ![r] = "failed"]
    /\ UNCHANGED <<held, read>>

StopOwn(r) ==
    /\ held[r]
    /\ held' = [held EXCEPT ![r] = FALSE]
    /\ read' = [read EXCEPT ![r] = <<>>]
    /\ last' = [last EXCEPT ![r] = "none"]

PrivateNext == \E r \in Readers : OpenOwn(r) \/ Yield(r) \/ End(r) \/ StopOwn(r)

PrivateSpec == PrivateInit /\ [][PrivateNext]_privateVars
=============================================================================
