-------------------------- MODULE ObservationStore --------------------------
(***************************************************************************)
(* What an Observation store promises the rest of the client, from the     *)
(* interface in src/src/observation_store/observation_store.h: an accepted *)
(* Observation is pending until it is taken in an Envelope; a taken        *)
(* Envelope is out of the store until it is returned, whole, or destroyed. *)
(***************************************************************************)
CONSTANT Obs

VARIABLES pending, inflight

Init == pending \in SUBSET Obs /\ inflight = {}

StoreObservation ==
  /\ \E o \in Obs \ (pending \cup inflight) : pending' = pending \cup {o}
  /\ UNCHANGED inflight

TakeNextEnvelopeHolder ==
  /\ inflight = {}
  /\ inflight' \in (SUBSET pending) \ {{}}
  /\ pending' = pending \ inflight'

ReturnEnvelopeHolder ==
  /\ pending' = pending \cup inflight
  /\ inflight' = {}

DestroyEnvelopeHolder ==
  /\ inflight' = {}
  /\ UNCHANGED pending

DeleteData ==
  /\ pending' = {}
  /\ UNCHANGED inflight

Next == \/ StoreObservation \/ TakeNextEnvelopeHolder \/ ReturnEnvelopeHolder
        \/ DestroyEnvelopeHolder \/ DeleteData

Spec == Init /\ [][Next]_<<pending, inflight>>
=============================================================================
