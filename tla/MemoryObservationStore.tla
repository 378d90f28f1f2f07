----------------------- MODULE MemoryObservationStore -----------------------
(***************************************************************************)
(* src/src/observation_store/memory_observation_store.cc and the           *)
(* EnvelopeMaker it is built from: Observations gather in the current      *)
(* Envelope, full Envelopes queue up as finalized ones, and as many of them*)
(* as fit are merged into the Envelope that is taken.  Every operation     *)
(* holds envelope_mutex_ from start to end, so it is one action.           *)
(***************************************************************************)
EXTENDS Integers, Sequences, FiniteSetsExt

CONSTANTS Obs,
          ObsSize,          \* size of each Observation
          max_bytes_per_observation, max_bytes_per_envelope, max_bytes_total,
          NoHolder

ASSUME MemoryStoreAssumption ==
  /\ ObsSize \in [Obs -> Nat \ {0}]
  /\ max_bytes_per_observation \in Nat
  /\ max_bytes_per_envelope \in Nat
  /\ max_bytes_total \in Nat
  /\ max_bytes_per_observation <= max_bytes_per_envelope
  /\ max_bytes_per_envelope <= max_bytes_total

(* An EnvelopeMaker: the Observations in its batches and num_bytes_.        *)
Envelopes == [obs : SUBSET Obs, num_bytes : Nat]

ASSUME NoHolderAssumption == NoHolder \notin Envelopes

VARIABLES
  current,                  \* current_envelope_
  finalized,                \* finalized_envelopes_, oldest first
  finalized_size,           \* finalized_envelopes_size_
  holder,                   \* the Envelope that is out, or NoHolder
  is_disabled,
  fresh,                    \* history: Observations not yet passed in
  owed                      \* history: stored, neither uploaded nor deleted

store == <<current, finalized, finalized_size>>
vars == <<store, holder, is_disabled, fresh, owed>>
-----------------------------------------------------------------------------
NewEnvelopeMaker == [obs |-> {}, num_bytes |-> 0]

SizeLocked == current.num_bytes + finalized_size

(* The bytes and the Observations of the n oldest finalized Envelopes.      *)
OldestBytes(n) == MapThenSumSet(LAMBDA i : finalized[i].num_bytes, 1 .. n)
OldestObs(n) == UNION {finalized[i].obs : i \in 1 .. n}

(* What MergeWith leaves in an Envelope: batches with the same metadata are *)
(* joined, and the sizes added.                                             *)
MergeWith(this, other) ==
  [obs |-> this.obs \cup other.obs, num_bytes |-> this.num_bytes + other.num_bytes]

CanAddObservation(envelope, o) ==
  IF ObsSize[o] > max_bytes_per_observation THEN "kObservationTooBig"
  ELSE IF envelope.num_bytes + ObsSize[o] > max_bytes_per_envelope THEN "kStoreFull"
  ELSE "kOk"

(* Mutant: the front of the queue (used below).                             *)
AddEnvelopeToFront(envelope) ==
  /\ finalized_size' = finalized_size + envelope.num_bytes
  /\ finalized' = <<envelope>> \o finalized

(* AddEnvelopeToSend with its default, the back of the queue.               *)
AddEnvelopeToSend(envelope) ==
  /\ finalized_size' = finalized_size + envelope.num_bytes
  /\ finalized' = Append(finalized, envelope)
-----------------------------------------------------------------------------
Init ==
  /\ current = NewEnvelopeMaker /\ finalized = << >> /\ finalized_size = 0
  /\ holder = NoHolder /\ is_disabled = FALSE
  /\ fresh = Obs /\ owed = {}

Full == SizeLocked > max_bytes_total

(* StoreObservation: kOk without storing when disabled, kStoreFull, or      *)
(* kObservationTooBig.                                                      *)
StoreRefused(o) ==
  /\ o \in fresh /\ fresh' = fresh \ {o}
  /\ \/ is_disabled
     \/ Full
     \/ CanAddObservation(current, o) = "kObservationTooBig"
  /\ UNCHANGED <<store, holder, is_disabled, owed>>

StoreObservation(o) ==
  /\ o \in fresh /\ fresh' = fresh \ {o}
  /\ ~is_disabled /\ ~Full
  /\ LET with(e) == [obs |-> e.obs \cup {o}, num_bytes |-> e.num_bytes + ObsSize[o]]
     IN  \/ /\ CanAddObservation(current, o) = "kOk"
            /\ current' = with(current)
            /\ UNCHANGED <<finalized, finalized_size>>
         \/ /\ CanAddObservation(current, o) = "kStoreFull"
            /\ AddEnvelopeToSend(current)
            /\ current' = with(NewEnvelopeMaker)
  /\ owed' = owed \cup {o}
  /\ UNCHANGED <<holder, is_disabled>>

(* How many finalized Envelopes TakeNextEnvelopeHolder merges: the oldest,  *)
(* then as long as the next one fits.                                       *)
Merges(n) ==
  /\ n = 0 => finalized = << >>
  /\ \A k \in 2 .. n : OldestBytes(k) <= max_bytes_per_envelope
  /\ 0 < n /\ n < Len(finalized) => OldestBytes(n + 1) > max_bytes_per_envelope

Clamped(x) == IF x < 0 THEN 0 ELSE x

Fits(merged) == merged.num_bytes + current.num_bytes <= max_bytes_per_envelope

(* Mutant: the merged current Envelope is not replaced.                     *)
CurrentKept(merged) == current

CurrentAfter(merged) == IF Fits(merged) THEN NewEnvelopeMaker ELSE current

(* The merged Envelopes; their size is a natural number.                    *)
Merged(n, bytes) ==
  IF n = 0 THEN NewEnvelopeMaker ELSE [obs |-> OldestObs(n), num_bytes |-> bytes]

TakeNextEnvelopeHolder ==
  /\ holder = NoHolder
  /\ \E n \in 0 .. Len(finalized) : \E bytes \in {OldestBytes(n)} \cap Nat :
       LET merged == Merged(n, bytes)
           retval == IF Fits(merged) THEN MergeWith(merged, current) ELSE merged
       IN  /\ Merges(n)
           /\ retval.num_bytes # 0
           /\ holder' = retval
           /\ current' = CurrentAfter(merged)
           /\ finalized' = SubSeq(finalized, n + 1, Len(finalized))
           /\ finalized_size' = Clamped(finalized_size - bytes)
  /\ UNCHANGED <<is_disabled, fresh, owed>>

(* Mutant: a returned Envelope goes first.                                  *)
ReturnEnvelopeHolderToFront ==
  /\ holder # NoHolder /\ holder' = NoHolder
  /\ AddEnvelopeToFront(holder)
  /\ UNCHANGED <<current, is_disabled, fresh, owed>>

ReturnEnvelopeHolder ==
  /\ holder # NoHolder /\ holder' = NoHolder
  /\ AddEnvelopeToSend(holder)
  /\ UNCHANGED <<current, is_disabled, fresh, owed>>

(* The Envelope was uploaded, or given up, and is destroyed.                *)
DestroyHolder ==
  /\ holder # NoHolder /\ holder' = NoHolder
  /\ owed' = owed \ holder.obs
  /\ UNCHANGED <<store, is_disabled, fresh>>

Held == IF holder = NoHolder THEN {} ELSE holder.obs

(* Mutant: the size is not reset.                                           *)
DeleteDataKeepingSize ==
  /\ current' = NewEnvelopeMaker /\ finalized' = << >>
  /\ owed' = Held
  /\ UNCHANGED <<finalized_size, holder, is_disabled, fresh>>

(* An Envelope that is out keeps its Observations, and may be returned.     *)
DeleteData ==
  /\ current' = NewEnvelopeMaker /\ finalized' = << >> /\ finalized_size' = 0
  /\ owed' = Held
  /\ UNCHANGED <<holder, is_disabled, fresh>>

Disable(b) ==
  /\ is_disabled # b /\ is_disabled' = b
  /\ UNCHANGED <<store, holder, fresh, owed>>

Next ==
  \/ \E o \in Obs : StoreRefused(o) \/ StoreObservation(o)
  \/ TakeNextEnvelopeHolder \/ ReturnEnvelopeHolder \/ DestroyHolder
  \/ DeleteData
  \/ \E b \in BOOLEAN : Disable(b)

Spec == Init /\ [][Next]_vars

(* The shipping manager's worker keeps taking Envelopes while there are any,*)
(* and does something with each.                                            *)
FairSpec == Spec /\ WF_vars(TakeNextEnvelopeHolder)
                 /\ WF_vars(ReturnEnvelopeHolder \/ DestroyHolder)
-----------------------------------------------------------------------------
TypeOK ==
  /\ current \in Envelopes /\ finalized \in Seq(Envelopes) /\ finalized_size \in Nat
  /\ holder \in Envelopes \cup {NoHolder}
  /\ is_disabled \in BOOLEAN
  /\ fresh \subseteq Obs /\ owed \subseteq Obs

Pending == current.obs \cup UNION {finalized[i].obs : i \in DOMAIN finalized}

(* An Observation is in at most one Envelope, and the Envelopes of the store*)
(* and the one that is out hold exactly the Observations that StoreObserva- *)
(* tion accepted and that were neither uploaded nor deleted: merging,       *)
(* returning and swapping Envelopes loses none and duplicates none.  No     *)
(* empty Envelope is queued or handed out.                                  *)
InOnePlace ==
  /\ TypeOK
  /\ owed = Pending \cup Held
  /\ fresh \cap owed = {}
  /\ Held \cap Pending = {}
  /\ \A i \in DOMAIN finalized : finalized[i].obs \cap current.obs = {}
  /\ \A i, j \in DOMAIN finalized : i # j => finalized[i].obs \cap finalized[j].obs = {}
  /\ current.num_bytes # 0 => current.obs # {}
  /\ \A i \in DOMAIN finalized : finalized[i].obs # {}
  /\ holder # NoHolder => holder.obs # {}

BytesOf(S) == MapThenSumSet(LAMBDA o : ObsSize[o], S)

(* Size() is the size of the Observations in the store, so TakeOldestEnve-  *)
(* lopeHolderLocked's clamp at zero is never needed.                        *)
SizeIsExact ==
  /\ current.num_bytes = BytesOf(current.obs)
  /\ \A i \in DOMAIN finalized : finalized[i].num_bytes = BytesOf(finalized[i].obs)
  /\ finalized_size = OldestBytes(Len(finalized))
  /\ holder # NoHolder => holder.num_bytes = BytesOf(holder.obs)

(* No Envelope is larger than max_bytes_per_envelope, however it was merged *)
(* and returned.                                                            *)
EnvelopesFit ==
  /\ current.num_bytes <= max_bytes_per_envelope
  /\ \A i \in DOMAIN finalized : finalized[i].num_bytes <= max_bytes_per_envelope
  /\ holder # NoHolder => holder.num_bytes <= max_bytes_per_envelope

(* StoreObservation stops once Size() is above max_bytes_total; the Envelope*)
(* that is out is not counted, and may come back on top.                    *)
SizeIsBounded ==
  SizeLocked + (IF holder = NoHolder THEN 0 ELSE holder.num_bytes)
    <= max_bytes_total + max_bytes_per_observation + max_bytes_per_envelope

(* The sizes the store keeps are the sizes of what it holds, and within the *)
(* limits.                                                                  *)
SizesAreTrue == SizeIsExact /\ EnvelopesFit /\ SizeIsBounded

Queued == UNION {finalized[i].obs : i \in DOMAIN finalized}

(* Every Observation in the queue gets its turn to be uploaded, even if     *)
(* every upload fails: a returned Envelope goes behind the ones that wait.  *)
(* (The current Envelope may have to wait for as long as the others fail.)  *)
EveryoneGetsATurn ==
  \A o \in Obs : (o \in Queued) ~> (o \notin Queued)

(* The store keeps the promises of the interface.                           *)
Store == INSTANCE ObservationStore WITH pending <- Pending, inflight <- Held
StoreSpec == Store!Spec
=============================================================================
