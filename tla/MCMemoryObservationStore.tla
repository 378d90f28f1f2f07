---------------------- MODULE MCMemoryObservationStore ----------------------
(* Seven Observations, of sizes one and two and one that is too big.       *)
EXTENDS MemoryObservationStore

CONSTANTS o1, o2, o3, o4, o5, o6, o7

MCObs == {o1, o2, o3, o4, o5, o6, o7}
MCObsSize == [o \in MCObs |-> CASE o \in {o1, o7} -> 1 [] o = o2 -> 3 [] OTHER -> 2]
=============================================================================
