---------------------------- MODULE ChangesReader ----------------------------
(***************************************************************************)
(* A client that follows the changelog with ReadChanges while SqlWrite's   *)
(* transactions run: it starts at the beginning or at a start time, asks   *)
(* for a page, and passes the continuation token it got to the next call.  *)
(***************************************************************************)
EXTENDS SqlWrite, SequencesExt, Sorting

CONSTANTS
    Watched,   \* the keys of the object type asked for (all of them: no filter)
    PageSize,  \* rows of a page
    Horizon    \* ReadChangesQuery.horizonOffset, in ticks

ASSUME ReaderAssumption ==
    /\ Watched \subseteq Keys
    /\ PageSize \in Nat \ {0}
    /\ Horizon \in Nat

VARIABLES
    token,     \* the ULID in the client's continuation token
    delivered  \* the changelog rows the client got, in the order it got them

readerVars == <<token, delivered>>

(* A ULID is a time and, within a Write, a place: rows of one Write are    *)
(* told apart by their key. ULID 0 is before every change of time 0.       *)
Ulid == Nat \X (Nat \cup {-1})
Before(a, b) == a[1] < b[1] \/ (a[1] = b[1] /\ a[2] < b[2])

(* Row i of key k, as the pair the client sees.                            *)
Entry == Keys \X (Nat \ {0})
UlidOf(e) == <<changelog[e[1]][e[2]].ulid, e[1]>>
Committed == {e \in Watched \X (1..MaxClock) : e[2] <= Len(changelog[e[1]])}

(* Mutant: rows from the token on instead of after it.                     *)
VisibleFromToken == {e \in Committed :
                         /\ changelog[e[1]][e[2]].insertedAt + Horizon <= clock
                         /\ ~Before(UlidOf(e), token)}

(* Mutant: rows just as old as the horizon are left out.                   *)
VisibleTooLate == {e \in Committed :
                       /\ changelog[e[1]][e[2]].insertedAt + Horizon < clock
                       /\ Before(token, UlidOf(e))}

(* The SELECT of ReadChanges: old enough, after the token, in ULID order,  *)
(* at most a page.                                                         *)
Visible == {e \in Committed :
                /\ changelog[e[1]][e[2]].insertedAt + Horizon <= clock
                /\ Before(token, UlidOf(e))}
InUlidOrder(S) == Sorted(S, {p \in S \X S : Before(UlidOf(p[1]), UlidOf(p[2]))})
Page == SubSeq(InUlidOrder(Visible), 1,
               IF Cardinality(Visible) < PageSize THEN Cardinality(Visible) ELSE PageSize)

(* No token, or one made of the request's start_time.                      *)
ReaderInit ==
    /\ Init
    /\ token \in {<<t, -1>> : t \in 0..MaxClock}
    /\ delivered = <<>>

(* An empty page (ErrNotFound) hands the request's token back.             *)
ReadChanges ==
    /\ Visible # {}
    /\ token' = UlidOf(Page[Len(Page)])
    /\ delivered' = delivered \o Page
    /\ UNCHANGED vars

Tick ==
    /\ clock < MaxClock
    /\ clock' = clock + 1
    /\ UNCHANGED <<tuples, changelog, lock, pc, req, now, logAt, existing, todo,
                   result, token, delivered>>

ReaderNext ==
    \/ Next /\ UNCHANGED readerVars
    \/ ReadChanges
    \/ Tick

(* The client keeps asking and time passes.                                *)
ReaderSpec ==
    /\ ReaderInit
    /\ [][ReaderNext]_<<vars, readerVars>>
    /\ WF_<<vars, readerVars>>(ReadChanges)
    /\ WF_<<vars, readerVars>>(Tick)

(* And the writers are scheduled, as in FairSpec.                          *)
FairReaderSpec == ReaderSpec /\ \A w \in Writers : WF_vars(Step(w))

-----------------------------------------------------------------------------

ReaderTypeOK ==
    /\ token \in Ulid
    /\ delivered \in Seq(Entry)

(* The continuation token never makes a client see a change twice, however *)
(* pages, late commits and start times fall, and it never moves back.      *)
DeliveredOnce ==
    /\ \A i, j \in 1..Len(delivered) :
        i < j => Before(UlidOf(delivered[i]), UlidOf(delivered[j]))
    /\ \A i \in 1..Len(delivered) : ~Before(token, UlidOf(delivered[i]))

(* What a client has passed it has seen: a change that was committed ahead *)
(* of the token when ReadChanges was called, and is not so after it, was   *)
(* in the page. This holds without a horizon, which is the default: with   *)
(* one, a row that was inserted late can be hidden while a younger ULID    *)
(* is delivered, and the token passes it.                                  *)
PagesSkipNothing ==
    [][\A e \in Committed :
        (Before(token, UlidOf(e)) /\ ~Before(token', UlidOf(e)))
            => e \in Range(delivered')]_<<vars, readerVars>>

(* A change that is ahead of the client's token reaches the client. (One   *)
(* that commits behind the token does not: the ULID is drawn when Write    *)
(* starts.)                                                                *)
AheadIsDelivered ==
    \A e \in Watched \X (1..MaxClock) :
        (e \in Committed /\ Before(token, UlidOf(e)))
            ~> (\E i \in 1..Len(delivered) : delivered[i] = e)

(* "ReadChanges returns the writes and deletes that have occurred for      *)
(* tuples within a store, in the order that they occurred" (storage.go):   *)
(* the changes of a tuple reach the client in the order of their commits,  *)
(* none left out.                                                          *)
DeliveredAsOccurred ==
    \A k \in Watched :
        LET mine == SelectSeq(delivered, LAMBDA e : e[1] = k) IN
        \A i \in 2..Len(mine) : mine[i][2] = mine[i - 1][2] + 1
=============================================================================
