---------------------------- MODULE ContainerStart ----------------------------
(***************************************************************************)
(* start.sh of the portal's container: it migrates the database, starts    *)
(* OpenFGA in the background, waits for it, finds or creates the store and *)
(* its authorization model, and replaces itself by the Functions host.     *)
(* One container runs at a time; the platform starts it again when it      *)
(* stops.  What OpenFGA keeps is in the database and survives.             *)
(*                                                                         *)
(* curl is called without -f, so an error status passes for an answer from *)
(* which jq extracts nothing, while a refused connection ends the script   *)
(* (set -e).                                                               *)
(***************************************************************************)
EXTENDS Naturals, Sequences, FiniteSets

CONSTANTS
    MaxEvents,  \* bound on the deaths of processes, the errors OpenFGA
                \* answers with, the edits and the grants, together
    OldTuples   \* the permissions in a store that an earlier container left

VARIABLES
    migrated,   \* the tables of OpenFGA exist
    stores,     \* the stores named menu-app, oldest first: [model, tuples]
    box,        \* the script: [at, store, misled]
    openfga,    \* the process: "none", "starting", "up", "dead"
    events,     \* how many of them have happened
    misreads    \* how often an error was taken for an empty list although
                \* there was a store (history)

startVars == <<migrated, stores, box, openfga, events, misreads>>

ASSUME StartAssumption == MaxEvents \in Nat

\* The store the script has is the string null after a failed create.
NoStore == 0

Spare == events < MaxEvents
Event == events' = events + 1
Calm  == UNCHANGED <<events, misreads>>

Script(at, store, misled) == [at |-> at, store |-> store, misled |-> misled]

\* A new database, one with the tables of OpenFGA, or one with the store of
\* an earlier container.
StartInit ==
    /\ \/ migrated \in BOOLEAN /\ stores = <<>>
       \/ migrated = TRUE /\ stores = <<[model |-> TRUE, tuples |-> OldTuples]>>
    /\ box = Script("stopped", NoStore, FALSE) /\ openfga = "none"
    /\ events = 0 /\ misreads = 0

\* The platform starts the container.  The status of the migration is that of
\* the tee behind it: it may fail unnoticed.
Start ==
    /\ box.at = "stopped"
    /\ box' = Script("migrating", NoStore, FALSE)
    /\ UNCHANGED <<migrated, stores, openfga, events, misreads>>

Migrate ==
    /\ box.at = "migrating"
    /\ migrated' \in {migrated, TRUE}
    /\ box' = [box EXCEPT !.at = "waiting"]
    /\ openfga' = "starting"
    /\ UNCHANGED <<stores, events, misreads>>

\* The Functions host or the script ends, and with it all of the container.
Exit == box' = Script("stopped", NoStore, FALSE) /\ openfga' = "none"

\* Mutant: only an answer ends the loop.
WaitForOpenFGAForever ==
    /\ box.at = "waiting" /\ openfga = "up"
    /\ box' = [box EXCEPT !.at = "listing"]
    /\ UNCHANGED <<migrated, stores, openfga, events, misreads>>

\* The loop ends when /healthz answers, whatever it says, when the process has
\* died, and after two minutes.  An image without model.json skips the store
\* and serves without one.
WaitForOpenFGA ==
    /\ box.at = "waiting"
    /\ \/ /\ openfga = "up" /\ UNCHANGED openfga
          /\ \E at \in {"listing", "serving"} : box' = [box EXCEPT !.at = at]
       \/ openfga \in {"starting", "dead"} /\ Exit
    /\ UNCHANGED <<migrated, stores, events, misreads>>

\* A request of the script: answered, answered with an error (which is all
\* that can happen without tables), or refused.  A process that accepts a
\* connection answers it: curl would wait for one that does not.
Answers == openfga = "up" /\ migrated
Errors  == openfga = "up" /\ (migrated => Spare)
Counted == IF migrated THEN Event ELSE UNCHANGED events
Failure == Counted /\ UNCHANGED misreads
Refused == openfga = "dead" /\ Exit

\* The oldest store of that name, if the answer shows one.  An error shows
\* none, whatever there is.
ListStores ==
    /\ box.at = "listing"
    /\ \/ /\ Answers /\ Calm
          /\ box' = IF stores = <<>> THEN [box EXCEPT !.at = "creating"]
                    ELSE [box EXCEPT !.at = "models", !.store = 1]
          /\ UNCHANGED openfga
       \/ /\ Errors /\ Counted
          /\ misreads' = IF stores = <<>> THEN misreads ELSE misreads + 1
          /\ box' = [box EXCEPT !.at = "creating", !.misled = stores # <<>>]
          /\ UNCHANGED openfga
       \/ Refused /\ Calm
    /\ UNCHANGED <<migrated, stores>>

NewStore == [model |-> FALSE, tuples |-> {}]

\* The store is created, perhaps without the script getting the answer.
CreateStore ==
    /\ box.at = "creating"
    /\ \/ /\ Answers /\ Calm
          /\ stores' = Append(stores, NewStore)
          /\ box' = [box EXCEPT !.at = "models", !.store = Len(stores')]
          /\ UNCHANGED openfga
       \/ /\ Errors /\ Failure
          /\ box' = [box EXCEPT !.at = "models"]
          /\ UNCHANGED <<stores, openfga>>
       \/ /\ Answers /\ Spare /\ Event
          /\ stores' = Append(stores, NewStore)
          /\ Exit /\ UNCHANGED misreads
       \/ Refused /\ Calm /\ UNCHANGED stores
    /\ UNCHANGED migrated

HasModel == box.store # NoStore /\ stores[box.store].model

ListModels ==
    /\ box.at = "models"
    /\ \/ /\ Answers /\ Calm
          /\ box' = [box EXCEPT !.at = IF HasModel THEN "serving" ELSE "uploading"]
          /\ UNCHANGED openfga
       \/ /\ Errors /\ Failure
          /\ box' = [box EXCEPT !.at = "uploading"]
          /\ UNCHANGED openfga
       \/ Refused /\ Calm
    /\ UNCHANGED <<migrated, stores>>

\* The model is stored, and the answer has its identifier or is an error.
UploadModel ==
    /\ box.at = "uploading"
    /\ \/ /\ Answers /\ box.store # NoStore
          /\ stores' = [stores EXCEPT ![box.store].model = TRUE]
          /\ \/ box' = [box EXCEPT !.at = "serving"] /\ Calm
             \/ Errors /\ Failure /\ box' = [box EXCEPT !.at = "retrying"]
          /\ UNCHANGED openfga
       \/ /\ IF box.store = NoStore THEN openfga = "up" /\ Calm ELSE Errors /\ Failure
          /\ box' = [box EXCEPT !.at = "retrying"]
          /\ UNCHANGED <<stores, openfga>>
       \/ Refused /\ Calm /\ UNCHANGED stores
    /\ UNCHANGED migrated

\* Models are listed again; the script goes on whether there is one or not.
RetryModel ==
    /\ box.at = "retrying"
    /\ \/ openfga = "up" /\ box' = [box EXCEPT !.at = "serving"] /\ UNCHANGED openfga
       \/ Refused
    /\ UNCHANGED <<migrated, stores, events, misreads>>

OpenFGAComesUp ==
    /\ openfga = "starting" /\ openfga' = "up"
    /\ UNCHANGED <<migrated, stores, box, events, misreads>>

\* Nothing notices it once the Functions host has replaced the script.
OpenFGADies ==
    /\ openfga \in {"starting", "up"} /\ Spare /\ Event
    /\ openfga' = "dead"
    /\ UNCHANGED <<migrated, stores, box, misreads>>

ContainerStops ==
    /\ box.at # "stopped" /\ Spare
    /\ Event /\ Exit
    /\ UNCHANGED <<migrated, stores, misreads>>

Step == \/ Start \/ Migrate \/ WaitForOpenFGA \/ ListStores \/ CreateStore
        \/ ListModels \/ UploadModel \/ RetryModel

StartTypeOK ==
    /\ migrated \in BOOLEAN /\ events \in 0..MaxEvents /\ misreads \in 0..events
    /\ \A i \in DOMAIN stores : stores[i].model \in BOOLEAN
    /\ box.at \in {"stopped", "migrating", "waiting", "listing", "creating", "models",
                   "uploading", "retrying", "serving"}
    /\ box.store \in 0..Len(stores) /\ box.misled \in BOOLEAN
    /\ openfga \in {"none", "starting", "up", "dead"}

\* The comment of start.sh:317, "Check if store already exists, otherwise
\* create it": whatever dies and is started again, and whatever OpenFGA
\* answers, a store that exists is found and no second one is created, in
\* which nobody has a permission.
StoreIsCreatedOnce == Len(stores) <= 1

\* What start.sh does ensure: however often the container dies and is started
\* again, also between a request and its answer, a second store needs a list
\* of stores that came back as an error while there was one, each of them
\* makes one store at most, and a container that met none serves with the
\* first store, where the permissions are.
StoresAreReused ==
    /\ Len(stores) <= 1 + misreads
    /\ box.store > 1 => box.misled

\* A container that was started serves or stops: the script does not hang
\* when OpenFGA is slow, dies, refuses connections or answers with errors.
StartEnds == (box.at = "migrating") ~> (box.at \in {"serving", "stopped"})
=============================================================================
