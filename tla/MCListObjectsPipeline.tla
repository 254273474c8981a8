------------------------ MODULE MCListObjectsPipeline ------------------------
(* Instances of ListObjectsPipeline for TLC.                               *)
EXTENDS ListObjectsPipeline

(* One object of each of three kinds, two that need a Check.               *)
MCKinds == {k \in [Objects -> Kind] : k["o1"] = "allowed" /\ k["o2"] \in {"direct", "allowed"}
                                      /\ k["o3"] \in {"denied", "failing", "allowed"}}

MCCalls == {[max |-> 2, cap |-> 2, streamed |-> FALSE], [max |-> 1, cap |-> 1, streamed |-> FALSE],
            [max |-> 0, cap |-> 1, streamed |-> FALSE], [max |-> 4, cap |-> 1, streamed |-> TRUE]}
=============================================================================
