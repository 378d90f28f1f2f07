----------------------- MODULE MCFileObservationStore -----------------------
(* Three Observations, two of them with the same metadata and one that      *)
(* takes two units, for TLC.                                                *)
EXTENDS FileObservationStore

CONSTANTS o1, o2, o3, m1, m2

MCMeta == [o \in Obs |-> IF o = o3 THEN m2 ELSE m1]
MCObsSize == [o \in Obs |-> IF o = o2 THEN 2 ELSE 1]
=============================================================================
