-------------------- MODULE MemoryObservationStoreProofs --------------------
(***************************************************************************)
(* The in-memory Observation store loses no Observation and keeps none in  *)
(* two places, and implements the interface of ObservationStore.           *)
(***************************************************************************)
EXTENDS MemoryObservationStore, SequenceTheorems, TLAPS

InQueue(s) == UNION {s[i].obs : i \in DOMAIN s}

LEMMA InQueueIff ==
  ASSUME NEW s, NEW x
  PROVE  x \in InQueue(s) <=> \E i \in DOMAIN s : x \in s[i].obs
BY DEF InQueue

(* The queue with an Envelope at its back.                                  *)
LEMMA AppendFacts ==
  ASSUME NEW s \in Seq(Envelopes), NEW e \in Envelopes
  PROVE  /\ Append(s, e) \in Seq(Envelopes)
         /\ DOMAIN s = 1 .. Len(s) /\ Len(s) \in Nat
         /\ DOMAIN Append(s, e) = 1 .. Len(s) + 1
         /\ \A i \in 1 .. Len(s) : Append(s, e)[i] = s[i]
         /\ Append(s, e)[Len(s) + 1] = e
         /\ InQueue(Append(s, e)) = InQueue(s) \cup e.obs
<1>1. /\ Append(s, e) \in Seq(Envelopes)
      /\ DOMAIN s = 1 .. Len(s) /\ Len(s) \in Nat
      /\ DOMAIN Append(s, e) = 1 .. Len(s) + 1
      /\ \A i \in 1 .. Len(s) : Append(s, e)[i] = s[i]
      /\ Append(s, e)[Len(s) + 1] = e
  OBVIOUS
<1> DEFINE t == Append(s, e)
<1> HIDE DEF t
<1>2. /\ DOMAIN t = (DOMAIN s) \cup {Len(s) + 1}
      /\ \A i \in DOMAIN s : t[i] = s[i]
      /\ t[Len(s) + 1] = e
  BY <1>1 DEF t
<1>3. InQueue(t) = InQueue(s) \cup e.obs
  <2>1. \A x : x \in InQueue(t) <=> x \in InQueue(s) \/ x \in e.obs
    BY <1>2, InQueueIff, Zenon
  <2>2. QED
    BY <2>1
<1>4. QED
  BY <1>1, <1>3 DEF t

(* The queue without its n oldest Envelopes.                                *)
LEMMA DropFacts ==
  ASSUME NEW s \in Seq(Envelopes), NEW n \in 0 .. Len(s)
  PROVE  /\ SubSeq(s, n + 1, Len(s)) \in Seq(Envelopes)
         /\ DOMAIN SubSeq(s, n + 1, Len(s)) = 1 .. Len(s) - n
         /\ \A i \in 1 .. Len(s) - n : SubSeq(s, n + 1, Len(s))[i] = s[n + i]
         /\ DOMAIN s = 1 .. Len(s) /\ Len(s) \in Nat
<1>1. \A i \in n + 1 .. Len(s) : s[i] \in Envelopes
  OBVIOUS
<1>2. QED
  BY <1>1

LEMMA DropObs ==
  ASSUME NEW s \in Seq(Envelopes), NEW n \in 0 .. Len(s)
  PROVE  InQueue(s) = (UNION {s[i].obs : i \in 1 .. n}) \cup InQueue(SubSeq(s, n + 1, Len(s)))
<1> DEFINE t == SubSeq(s, n + 1, Len(s))
           u == UNION {s[i].obs : i \in 1 .. n}
<1>0. \A x : x \in u <=> \E i \in 1 .. n : x \in s[i].obs
  OBVIOUS
<1>1. /\ DOMAIN t = 1 .. Len(s) - n
      /\ \A i \in 1 .. Len(s) - n : t[i] = s[n + i]
      /\ DOMAIN s = 1 .. Len(s) /\ Len(s) \in Nat
  BY DropFacts
<1> HIDE DEF t, u
<1>2. ASSUME NEW x \in InQueue(s)
      PROVE  x \in u \/ x \in InQueue(t)
  <2>1. PICK i \in DOMAIN s : x \in s[i].obs
    BY <1>2 DEF InQueue
  <2>2. CASE i \in 1 .. n
    BY <1>0, <2>1, <2>2
  <2>3. CASE i \notin 1 .. n
    <3>1. i - n \in 1 .. Len(s) - n /\ n + (i - n) = i
      BY <1>1, <2>1, <2>3
    <3>2. t[i - n] = s[i] /\ i - n \in DOMAIN t
      BY <1>1, <3>1
    <3>3. \E j \in DOMAIN t : x \in t[j].obs
      BY <2>1, <3>2, Zenon
    <3>4. QED
      BY <3>3, InQueueIff
  <2>4. QED
    BY <2>2, <2>3
<1>3. ASSUME NEW x \in InQueue(t)
      PROVE  x \in InQueue(s)
  <2>1. PICK i \in 1 .. Len(s) - n : x \in t[i].obs
    BY <1>1, <1>3 DEF InQueue
  <2>2. n + i \in DOMAIN s /\ x \in s[n + i].obs
    BY <1>1, <2>1
  <2>3. QED
    BY <2>2 DEF InQueue
<1>4. ASSUME NEW x \in u
      PROVE  x \in InQueue(s)
  <2>1. PICK i \in 1 .. n : x \in s[i].obs
    BY <1>0, <1>4
  <2>2. i \in DOMAIN s
    BY <1>1
  <2>3. QED
    BY <2>1, <2>2 DEF InQueue
<1>5. InQueue(s) = u \cup InQueue(t)
  <2>1. \A x : x \in InQueue(s) => x \in u \/ x \in InQueue(t)
    BY <1>2
  <2>2. \A x : x \in InQueue(t) => x \in InQueue(s)
    BY <1>3
  <2>3. \A x : x \in u => x \in InQueue(s)
    BY <1>4
  <2>4. QED
    BY <2>1, <2>2, <2>3
<1>6. QED
  BY <1>5 DEF t, u

LEMMA PendingIs == Pending = current.obs \cup InQueue(finalized)
BY DEF Pending, InQueue
-----------------------------------------------------------------------------
LEMMA InitPlace == Init => InOnePlace
<1> SUFFICES ASSUME Init PROVE InOnePlace
  OBVIOUS
<1>0. NewEnvelopeMaker \in Envelopes /\ << >> \in Seq(Envelopes)
  BY DEF NewEnvelopeMaker, Envelopes
<1>1. TypeOK
  BY <1>0 DEF Init, TypeOK
<1>2. DOMAIN finalized = {}
  BY DEF Init
<1>3. Pending = {} /\ Held = {}
  BY <1>2 DEF Init, Pending, Held, NewEnvelopeMaker
<1>4. QED
  BY <1>1, <1>2, <1>3 DEF Init, InOnePlace, NewEnvelopeMaker

(* Putting a nonempty Envelope, none of whose Observations is queued, at    *)
(* the back of the queue.                                                   *)
LEMMA AddedToQueue ==
  ASSUME InOnePlace, NEW e \in Envelopes, AddEnvelopeToSend(e),
         e.obs # {}, e.obs \cap InQueue(finalized) = {}
  PROVE  /\ finalized' \in Seq(Envelopes) /\ finalized_size' \in Nat
         /\ InQueue(finalized') = InQueue(finalized) \cup e.obs
         /\ \A i, j \in DOMAIN finalized' :
              i # j => finalized'[i].obs \cap finalized'[j].obs = {}
         /\ \A i \in DOMAIN finalized' : finalized'[i].obs # {}
<1>1. finalized \in Seq(Envelopes) /\ finalized_size \in Nat /\ e.num_bytes \in Nat
  BY DEF InOnePlace, TypeOK, Envelopes
<1>2. finalized' = Append(finalized, e)
  BY DEF AddEnvelopeToSend
<1>3. /\ finalized' \in Seq(Envelopes)
      /\ DOMAIN finalized = 1 .. Len(finalized) /\ Len(finalized) \in Nat
      /\ DOMAIN finalized' = 1 .. Len(finalized) + 1
      /\ \A i \in 1 .. Len(finalized) : finalized'[i] = finalized[i]
      /\ finalized'[Len(finalized) + 1] = e
      /\ InQueue(finalized') = InQueue(finalized) \cup e.obs
  BY <1>1, <1>2, AppendFacts
<1>4. finalized_size' \in Nat
  BY <1>1 DEF AddEnvelopeToSend
<1>5. \A i \in DOMAIN finalized : finalized[i].obs \cap e.obs = {}
  BY InQueueIff
<1>6. DOMAIN finalized' = DOMAIN finalized \cup {Len(finalized) + 1}
  BY <1>3
<1>7. \A i \in DOMAIN finalized : finalized'[i] = finalized[i]
  BY <1>3
<1>8. \A i, j \in DOMAIN finalized' : i # j => finalized'[i].obs \cap finalized'[j].obs = {}
  <2> SUFFICES ASSUME NEW i \in DOMAIN finalized', NEW j \in DOMAIN finalized', i # j
               PROVE  finalized'[i].obs \cap finalized'[j].obs = {}
    OBVIOUS
  <2>1. CASE i \in DOMAIN finalized /\ j \in DOMAIN finalized
    BY <1>7, <2>1 DEF InOnePlace
  <2>2. CASE i \in DOMAIN finalized /\ j = Len(finalized) + 1
    BY <1>3, <1>5, <1>7, <2>2
  <2>3. CASE i = Len(finalized) + 1 /\ j \in DOMAIN finalized
    BY <1>3, <1>5, <1>7, <2>3
  <2>4. QED
    BY <1>6, <2>1, <2>2, <2>3
<1>9. \A i \in DOMAIN finalized' : finalized'[i].obs # {}
  BY <1>3, <1>6, <1>7 DEF InOnePlace
<1>10. QED
  BY <1>3, <1>4, <1>8, <1>9

(* What an action has to show of the new state.                             *)
LEMMA PlaceFrom ==
  ASSUME TypeOK',
         owed' = (current.obs \cup InQueue(finalized) \cup Held)',
         (fresh \cap owed = {})',
         (Held \cap (current.obs \cup InQueue(finalized)) = {})',
         (InQueue(finalized) \cap current.obs = {})',
         (\A i, j \in DOMAIN finalized : i # j => finalized[i].obs \cap finalized[j].obs = {})',
         (current.num_bytes # 0 => current.obs # {})',
         (\A i \in DOMAIN finalized : finalized[i].obs # {})',
         (holder # NoHolder => holder.obs # {})'
  PROVE  InOnePlace'
<1>1. Pending' = (current.obs \cup InQueue(finalized))'
  BY DEF Pending, InQueue
<1>2. (\A i \in DOMAIN finalized : finalized[i].obs \cap current.obs = {})'
  BY InQueueIff
<1>3. QED
  BY <1>1, <1>2 DEF InOnePlace

LEMMA PlaceGives ==
  ASSUME InOnePlace
  PROVE  /\ owed = current.obs \cup InQueue(finalized) \cup Held
         /\ Held \cap (current.obs \cup InQueue(finalized)) = {}
         /\ InQueue(finalized) \cap current.obs = {}
<1>1. Pending = current.obs \cup InQueue(finalized)
  BY PendingIs
<1>2. InQueue(finalized) \cap current.obs = {}
  <2>1. \A x : x \in InQueue(finalized) => x \notin current.obs
    BY InQueueIff DEF InOnePlace
  <2>2. QED
    BY <2>1
<1>3. QED
  BY <1>1, <1>2 DEF InOnePlace

LEMMA StorePlace ==
  ASSUME InOnePlace, NEW o \in Obs, StoreRefused(o) \/ StoreObservation(o)
  PROVE  InOnePlace'
<1> DEFINE with(e) == [obs |-> e.obs \cup {o}, num_bytes |-> e.num_bytes + ObsSize[o]]
<1>0. /\ owed = current.obs \cup InQueue(finalized) \cup Held
      /\ Held \cap (current.obs \cup InQueue(finalized)) = {}
      /\ InQueue(finalized) \cap current.obs = {}
  BY PlaceGives
<1>1. /\ current \in Envelopes /\ finalized \in Seq(Envelopes) /\ finalized_size \in Nat
      /\ current.num_bytes \in Nat /\ current.obs \subseteq Obs
      /\ ObsSize[o] \in Nat \ {0}
  BY MemoryStoreAssumption DEF InOnePlace, TypeOK, Envelopes
<1>2. CASE StoreRefused(o)
  <2>1. TypeOK'
    BY <1>2 DEF StoreRefused, store, InOnePlace, TypeOK
  <2>2. fresh' \subseteq fresh /\ UNCHANGED <<current, finalized, finalized_size, holder, owed>>
    BY <1>2 DEF StoreRefused, store
  <2>3. Held' = Held /\ Pending' = Pending
    BY <2>2 DEF Held, Pending
  <2>4. QED
    BY <2>1, <2>2, <2>3 DEF InOnePlace
<1>3. CASE StoreObservation(o)
  <2>1. /\ o \in fresh /\ fresh' = fresh \ {o} /\ owed' = owed \cup {o}
        /\ holder' = holder /\ is_disabled' = is_disabled /\ Held' = Held
    BY <1>3 DEF StoreObservation, Held
  <2>2. o \notin owed /\ fresh \cap owed = {}
    BY <2>1 DEF InOnePlace
  <2>3. (fresh \cap owed = {})'
    BY <2>1, <2>2
  <2>4. (holder # NoHolder => holder.obs # {})'
    BY <2>1 DEF InOnePlace
  <2>5. /\ holder' \in Envelopes \cup {NoHolder} /\ is_disabled' \in BOOLEAN
        /\ fresh' \subseteq Obs /\ owed' \subseteq Obs
    BY <2>1 DEF InOnePlace, TypeOK
  <2>6. CASE current' = with(current) /\ UNCHANGED <<finalized, finalized_size>>
    <3>1. current' \in Envelopes /\ current'.obs = current.obs \cup {o}
      BY <1>1, <2>6 DEF Envelopes
    <3>2. TypeOK'
      BY <1>1, <2>5, <2>6, <3>1 DEF TypeOK
    <3>3. InQueue(finalized') = InQueue(finalized)
      BY <2>6
    <3>4. /\ owed' = (current.obs \cup InQueue(finalized) \cup Held)'
          /\ (Held \cap (current.obs \cup InQueue(finalized)) = {})'
          /\ (InQueue(finalized) \cap current.obs = {})'
      BY <1>0, <2>1, <2>2, <3>1, <3>3
    <3>5. /\ (\A i, j \in DOMAIN finalized : i # j => finalized[i].obs \cap finalized[j].obs = {})'
          /\ (\A i \in DOMAIN finalized : finalized[i].obs # {})'
      BY <2>6 DEF InOnePlace
    <3>6. (current.num_bytes # 0 => current.obs # {})'
      BY <3>1
    <3>7. QED
      BY <2>3, <2>4, <3>2, <3>4, <3>5, <3>6, PlaceFrom
  <2>7. CASE /\ CanAddObservation(current, o) = "kStoreFull"
             /\ AddEnvelopeToSend(current) /\ current' = with(NewEnvelopeMaker)
    <3>1. current.num_bytes # 0
      BY <1>1, <2>7, MemoryStoreAssumption DEF CanAddObservation
    <3>2. current.obs # {}
      BY <3>1 DEF InOnePlace
    <3>3. /\ finalized' \in Seq(Envelopes) /\ finalized_size' \in Nat
          /\ InQueue(finalized') = InQueue(finalized) \cup current.obs
          /\ \A i, j \in DOMAIN finalized' :
               i # j => finalized'[i].obs \cap finalized'[j].obs = {}
          /\ \A i \in DOMAIN finalized' : finalized'[i].obs # {}
      BY <1>0, <1>1, <2>7, <3>2, AddedToQueue
    <3>4. current' \in Envelopes /\ current'.obs = {o}
      BY <1>1, <2>7 DEF Envelopes, NewEnvelopeMaker
    <3>5. TypeOK'
      BY <2>5, <3>3, <3>4 DEF TypeOK
    <3>6. /\ owed' = (current.obs \cup InQueue(finalized) \cup Held)'
          /\ (Held \cap (current.obs \cup InQueue(finalized)) = {})'
          /\ (InQueue(finalized) \cap current.obs = {})'
      BY <1>0, <2>1, <2>2, <3>3, <3>4
    <3>7. (current.num_bytes # 0 => current.obs # {})'
      BY <3>4
    <3>8. QED
      BY <2>3, <2>4, <3>3, <3>5, <3>6, <3>7, PlaceFrom
  <2>8. QED
    BY <1>3, <2>6, <2>7 DEF StoreObservation
<1>4. QED
  BY <1>2, <1>3

(* What TakeNextEnvelopeHolder takes: the n oldest queued Envelopes, and    *)
(* perhaps the current one; together they are not empty.                    *)
LEMMA Taken ==
  ASSUME InOnePlace, TakeNextEnvelopeHolder
  PROVE  \E n \in 0 .. Len(finalized), all \in BOOLEAN :
           /\ holder' \in Envelopes /\ holder' # NoHolder
           /\ holder'.obs = OldestObs(n) \cup (IF all THEN current.obs ELSE {})
           /\ holder'.obs # {}
           /\ current' = IF all THEN NewEnvelopeMaker ELSE current
           /\ finalized' = SubSeq(finalized, n + 1, Len(finalized))
           /\ finalized_size' \in Nat
<1>1. PICK n \in 0 .. Len(finalized), bytes \in Nat :
        LET merged == Merged(n, bytes)
            retval == IF Fits(merged) THEN MergeWith(merged, current) ELSE merged
        IN  /\ retval.num_bytes # 0
            /\ holder' = retval
            /\ current' = CurrentAfter(merged)
            /\ finalized' = SubSeq(finalized, n + 1, Len(finalized))
            /\ finalized_size' = Clamped(finalized_size - bytes)
  BY DEF TakeNextEnvelopeHolder
<1> DEFINE merged == Merged(n, bytes)
           all == Fits(merged)
<1>2. /\ current \in Envelopes /\ finalized \in Seq(Envelopes) /\ finalized_size \in Nat
      /\ current.obs \subseteq Obs /\ current.num_bytes \in Nat
  BY DEF InOnePlace, TypeOK, Envelopes
<1>3. DOMAIN finalized = 1 .. Len(finalized) /\ Len(finalized) \in Nat
  BY <1>2
<1>4. OldestObs(n) \subseteq Obs
  <2>0. \A i \in 1 .. n : finalized[i] \in Envelopes
    BY <1>2, <1>3
  <2>1. \A i \in 1 .. n : finalized[i].obs \subseteq Obs
    BY <2>0 DEF Envelopes
  <2>2. QED
    BY <2>1 DEF OldestObs
<1>5. merged \in Envelopes /\ merged.obs = OldestObs(n) /\ (n = 0 => merged.num_bytes = 0)
  <2>1. CASE n = 0
    <3>1. 1 .. n = {}
      BY <2>1
    <3>2. OldestObs(n) = {}
      BY <3>1 DEF OldestObs
    <3>3. QED
      BY <2>1, <3>2 DEF Merged, NewEnvelopeMaker, Envelopes
  <2>2. CASE n # 0
    BY <1>4, <2>2 DEF Merged, Envelopes
  <2>3. QED
    BY <2>1, <2>2
<1> HIDE DEF merged
<1>6. holder' = (IF all THEN MergeWith(merged, current) ELSE merged) /\ holder'.num_bytes # 0
  BY <1>1 DEF merged, all
<1> HIDE DEF all
<1>7. all \in BOOLEAN
  BY DEF all, Fits
<1>8. /\ holder' \in Envelopes
      /\ holder'.obs = OldestObs(n) \cup (IF all THEN current.obs ELSE {})
  BY <1>2, <1>5, <1>6, <1>7 DEF MergeWith, Envelopes
<1>9. holder'.obs # {}
  <2>1. CASE n = 0
    <3>1. all /\ current.num_bytes # 0
      BY <1>2, <1>5, <1>6, <1>7, <2>1 DEF MergeWith, Envelopes
    <3>2. QED
      BY <1>8, <3>1 DEF InOnePlace
  <2>2. CASE n # 0
    <3>1. 1 \in DOMAIN finalized /\ 1 \in 1 .. n
      BY <1>3, <2>2
    <3>2. finalized[1].obs # {} /\ finalized[1].obs \subseteq OldestObs(n)
      BY <3>1 DEF InOnePlace, OldestObs
    <3>3. QED
      BY <1>8, <3>2
  <2>3. QED
    BY <2>1, <2>2
<1>10. finalized_size' \in Nat
  BY <1>1, <1>2 DEF Clamped
<1>11. current' = IF all THEN NewEnvelopeMaker ELSE current
  BY <1>1 DEF CurrentAfter, all, merged
<1>12. holder' # NoHolder
  BY <1>8, NoHolderAssumption
<1>13. QED
  BY <1>1, <1>7, <1>8, <1>9, <1>10, <1>11, <1>12

LEMMA TakePlace ==
  ASSUME InOnePlace, TakeNextEnvelopeHolder
  PROVE  /\ InOnePlace'
         /\ Held = {} /\ Held' # {} /\ Held' \subseteq Pending /\ Pending' = Pending \ Held'
<1>0. /\ owed = current.obs \cup InQueue(finalized) \cup Held
      /\ Held \cap (current.obs \cup InQueue(finalized)) = {}
      /\ InQueue(finalized) \cap current.obs = {}
  BY PlaceGives
<1>1. PICK n \in 0 .. Len(finalized), all \in BOOLEAN :
        /\ holder' \in Envelopes /\ holder' # NoHolder
        /\ holder'.obs = OldestObs(n) \cup (IF all THEN current.obs ELSE {})
        /\ holder'.obs # {}
        /\ current' = IF all THEN NewEnvelopeMaker ELSE current
        /\ finalized' = SubSeq(finalized, n + 1, Len(finalized))
        /\ finalized_size' \in Nat
  BY Taken
<1>2. /\ current \in Envelopes /\ finalized \in Seq(Envelopes)
      /\ NewEnvelopeMaker \in Envelopes /\ NewEnvelopeMaker.obs = {}
      /\ NewEnvelopeMaker.num_bytes = 0
  BY DEF InOnePlace, TypeOK, NewEnvelopeMaker, Envelopes
<1>3. /\ finalized' \in Seq(Envelopes)
      /\ DOMAIN finalized' = 1 .. Len(finalized) - n
      /\ \A i \in 1 .. Len(finalized) - n : finalized'[i] = finalized[n + i]
      /\ DOMAIN finalized = 1 .. Len(finalized) /\ Len(finalized) \in Nat
  BY <1>1, <1>2, DropFacts
<1>4. InQueue(finalized) = OldestObs(n) \cup InQueue(finalized')
  BY <1>1, <1>2, DropObs DEF OldestObs
<1>5. OldestObs(n) \cap InQueue(finalized') = {}
  <2> SUFFICES ASSUME NEW x, x \in OldestObs(n), x \in InQueue(finalized')
               PROVE  FALSE
    OBVIOUS
  <2>1. PICK i \in 1 .. n : x \in finalized[i].obs
    BY DEF OldestObs
  <2>2. PICK j \in DOMAIN finalized' : x \in finalized'[j].obs
    BY InQueueIff
  <2>3. /\ i \in DOMAIN finalized /\ n + j \in DOMAIN finalized /\ i # n + j
        /\ finalized'[j] = finalized[n + j]
    BY <1>3, <2>1, <2>2
  <2>4. finalized[i].obs \cap finalized[n + j].obs = {}
    BY <2>3 DEF InOnePlace
  <2>5. QED
    BY <2>1, <2>2, <2>3, <2>4
<1>6. holder = NoHolder /\ Held = {} /\ Held' = holder'.obs
  BY <1>1 DEF TakeNextEnvelopeHolder, Held
<1>7. UNCHANGED <<is_disabled, fresh, owed>>
  BY DEF TakeNextEnvelopeHolder
<1>8. TypeOK'
  BY <1>1, <1>2, <1>3, <1>7 DEF TypeOK, InOnePlace
<1>9. current'.obs = IF all THEN {} ELSE current.obs
  BY <1>1, <1>2
<1>10. /\ owed' = (current.obs \cup InQueue(finalized) \cup Held)'
       /\ (Held \cap (current.obs \cup InQueue(finalized)) = {})'
       /\ (InQueue(finalized) \cap current.obs = {})'
  <2>1. CASE all
    BY <1>0, <1>1, <1>4, <1>5, <1>6, <1>7, <1>9, <2>1
  <2>2. CASE ~all
    BY <1>0, <1>1, <1>4, <1>5, <1>6, <1>7, <1>9, <2>2
  <2>3. QED
    BY <2>1, <2>2
<1>11. (\A i, j \in DOMAIN finalized : i # j => finalized[i].obs \cap finalized[j].obs = {})'
  <2> SUFFICES ASSUME NEW i \in DOMAIN finalized', NEW j \in DOMAIN finalized', i # j
               PROVE  finalized'[i].obs \cap finalized'[j].obs = {}
    OBVIOUS
  <2>1. /\ n + i \in DOMAIN finalized /\ n + j \in DOMAIN finalized /\ n + i # n + j
        /\ finalized'[i] = finalized[n + i] /\ finalized'[j] = finalized[n + j]
    BY <1>3
  <2>2. QED
    BY <2>1 DEF InOnePlace
<1>12. (\A i \in DOMAIN finalized : finalized[i].obs # {})'
  <2> SUFFICES ASSUME NEW i \in DOMAIN finalized'
               PROVE  finalized'[i].obs # {}
    OBVIOUS
  <2>1. n + i \in DOMAIN finalized /\ finalized'[i] = finalized[n + i]
    BY <1>3
  <2>2. QED
    BY <2>1 DEF InOnePlace
<1>13. (current.num_bytes # 0 => current.obs # {})'
  BY <1>1, <1>2 DEF InOnePlace
<1>14. (fresh \cap owed = {})' /\ (holder # NoHolder => holder.obs # {})'
  BY <1>1, <1>7 DEF InOnePlace
<1>15. InOnePlace'
  BY <1>8, <1>10, <1>11, <1>12, <1>13, <1>14, PlaceFrom
<1>16. Pending = current.obs \cup InQueue(finalized)
  BY PendingIs
<1>17. Pending' = current'.obs \cup InQueue(finalized')
  BY DEF Pending, InQueue
<1>18. Held' \subseteq Pending
  BY <1>1, <1>4, <1>6, <1>16
<1>19. Pending' = Pending \ Held'
  <2>1. CASE all
    BY <1>0, <1>1, <1>4, <1>5, <1>6, <1>9, <1>16, <1>17, <2>1
  <2>2. CASE ~all
    BY <1>0, <1>1, <1>4, <1>5, <1>6, <1>9, <1>16, <1>17, <2>2
  <2>3. QED
    BY <2>1, <2>2
<1>20. QED
  BY <1>1, <1>6, <1>15, <1>18, <1>19

LEMMA ReturnPlace ==
  ASSUME InOnePlace, ReturnEnvelopeHolder
  PROVE  InOnePlace' /\ Held' = {} /\ Pending' = Pending \cup Held
<1>0. /\ owed = current.obs \cup InQueue(finalized) \cup Held
      /\ Held \cap (current.obs \cup InQueue(finalized)) = {}
      /\ InQueue(finalized) \cap current.obs = {}
  BY PlaceGives
<1>1. holder # NoHolder /\ holder' = NoHolder /\ UNCHANGED <<current, is_disabled, fresh, owed>>
  BY DEF ReturnEnvelopeHolder
<1>2. holder \in Envelopes /\ holder.obs # {} /\ Held = holder.obs
  BY <1>1 DEF InOnePlace, TypeOK, Held
<1>3. /\ finalized' \in Seq(Envelopes) /\ finalized_size' \in Nat
      /\ InQueue(finalized') = InQueue(finalized) \cup holder.obs
      /\ \A i, j \in DOMAIN finalized' :
           i # j => finalized'[i].obs \cap finalized'[j].obs = {}
      /\ \A i \in DOMAIN finalized' : finalized'[i].obs # {}
  BY <1>0, <1>2, AddedToQueue DEF ReturnEnvelopeHolder
<1>4. Held' = {}
  BY <1>1 DEF Held
<1>5. TypeOK'
  BY <1>1, <1>3 DEF TypeOK, InOnePlace
<1>6. /\ owed' = (current.obs \cup InQueue(finalized) \cup Held)'
      /\ (Held \cap (current.obs \cup InQueue(finalized)) = {})'
      /\ (InQueue(finalized) \cap current.obs = {})'
  BY <1>0, <1>1, <1>2, <1>3, <1>4
<1>7. /\ (fresh \cap owed = {})' /\ (current.num_bytes # 0 => current.obs # {})'
      /\ (holder # NoHolder => holder.obs # {})'
  BY <1>1 DEF InOnePlace
<1>8. InOnePlace'
  BY <1>3, <1>5, <1>6, <1>7, PlaceFrom
<1>9. Pending = current.obs \cup InQueue(finalized)
  BY PendingIs
<1>10. Pending' = current'.obs \cup InQueue(finalized')
  BY DEF Pending, InQueue
<1>11. QED
  BY <1>1, <1>2, <1>3, <1>4, <1>8, <1>9, <1>10

LEMMA DestroyPlace ==
  ASSUME InOnePlace, DestroyHolder
  PROVE  InOnePlace' /\ Held' = {} /\ Pending' = Pending
<1>1. /\ holder # NoHolder /\ holder' = NoHolder /\ owed' = owed \ holder.obs
      /\ UNCHANGED <<current, finalized, finalized_size, is_disabled, fresh>>
  BY DEF DestroyHolder, store
<1>2. Held = holder.obs /\ Held' = {} /\ Pending' = Pending
  BY <1>1 DEF Held, Pending
<1>3. TypeOK'
  BY <1>1 DEF InOnePlace, TypeOK
<1>4. owed' = Pending' \cup Held' /\ fresh' \cap owed' = {} /\ Held' \cap Pending' = {}
  BY <1>1, <1>2 DEF InOnePlace
<1>5. InOnePlace'
  BY <1>1, <1>3, <1>4 DEF InOnePlace
<1>6. QED
  BY <1>2, <1>5

LEMMA DeletePlace ==
  ASSUME InOnePlace, DeleteData
  PROVE  InOnePlace' /\ Held' = Held /\ Pending' = {}
<1>1. /\ current' = NewEnvelopeMaker /\ finalized' = << >> /\ finalized_size' = 0
      /\ owed' = Held /\ UNCHANGED <<holder, is_disabled, fresh>>
  BY DEF DeleteData
<1>2. NewEnvelopeMaker \in Envelopes /\ << >> \in Seq(Envelopes)
  BY DEF NewEnvelopeMaker, Envelopes
<1>3. current'.obs = {} /\ DOMAIN finalized' = {} /\ current'.num_bytes = 0
  BY <1>1 DEF NewEnvelopeMaker
<1>4. Held' = Held
  BY <1>1 DEF Held
<1>5. Pending' = {}
  BY <1>3 DEF Pending
<1>6. Held \subseteq owed /\ owed \subseteq Obs /\ fresh \cap owed = {}
  BY DEF InOnePlace, TypeOK
<1>7. TypeOK'
  BY <1>1, <1>2, <1>6 DEF InOnePlace, TypeOK
<1>8. owed' = Pending' \cup Held' /\ fresh' \cap owed' = {} /\ Held' \cap Pending' = {}
  BY <1>1, <1>4, <1>5, <1>6
<1>9. InOnePlace'
  BY <1>1, <1>3, <1>7, <1>8 DEF InOnePlace
<1>10. QED
  BY <1>4, <1>5, <1>9

LEMMA DisablePlace ==
  ASSUME InOnePlace, (\E b \in BOOLEAN : Disable(b)) \/ UNCHANGED vars
  PROVE  InOnePlace' /\ Held' = Held /\ Pending' = Pending
<1>1. /\ UNCHANGED <<current, finalized, finalized_size, holder, fresh, owed>>
      /\ is_disabled' \in BOOLEAN
  BY DEF Disable, vars, store, InOnePlace, TypeOK
<1>2. Held' = Held /\ Pending' = Pending
  BY <1>1 DEF Held, Pending
<1>3. TypeOK'
  BY <1>1 DEF InOnePlace, TypeOK
<1>4. QED
  BY <1>1, <1>2, <1>3 DEF InOnePlace

(* No Observation that StoreObservation accepted is lost or kept twice, for *)
(* any Observations, sizes and limits.                                      *)
THEOREM NoneLostNoneTwice == Spec => []InOnePlace
<1>1. Init => InOnePlace
  BY InitPlace
<1>2. InOnePlace /\ [Next]_vars => InOnePlace'
  <2> SUFFICES ASSUME InOnePlace, [Next]_vars PROVE InOnePlace'
    OBVIOUS
  <2>1. ASSUME NEW o \in Obs, StoreRefused(o) \/ StoreObservation(o) PROVE InOnePlace'
    BY <2>1, StorePlace
  <2>2. CASE TakeNextEnvelopeHolder
    BY <2>2, TakePlace
  <2>3. CASE ReturnEnvelopeHolder
    BY <2>3, ReturnPlace
  <2>4. CASE DestroyHolder
    BY <2>4, DestroyPlace
  <2>5. CASE DeleteData
    BY <2>5, DeletePlace
  <2>6. CASE (\E b \in BOOLEAN : Disable(b)) \/ UNCHANGED vars
    BY <2>6, DisablePlace
  <2>7. QED
    BY <2>1, <2>2, <2>3, <2>4, <2>5, <2>6 DEF Next
<1>3. QED
  BY <1>1, <1>2, PTL DEF Spec
-----------------------------------------------------------------------------
LEMMA StoreAdds ==
  ASSUME InOnePlace, NEW o \in Obs, StoreRefused(o) \/ StoreObservation(o)
  PROVE  Held' = Held /\ (Pending' = Pending \/ (o \notin Pending \cup Held /\ Pending' = Pending \cup {o}))
<1>1. Held' = Held
  BY DEF StoreRefused, StoreObservation, Held
<1>2. CASE StoreRefused(o)
  BY <1>1, <1>2 DEF StoreRefused, store, Pending
<1>3. CASE StoreObservation(o)
  <2>1. InOnePlace'
    BY StorePlace
  <2>2. owed' = owed \cup {o} /\ o \in fresh
    BY <1>3 DEF StoreObservation
  <2>3. o \notin owed /\ owed = Pending \cup Held /\ Held \cap Pending = {}
    BY <2>2 DEF InOnePlace
  <2>4. owed' = Pending' \cup Held' /\ Held' \cap Pending' = {}
    BY <2>1 DEF InOnePlace
  <2>5. Pending' = Pending \cup {o}
    BY <1>1, <2>2, <2>3, <2>4
  <2>6. QED
    BY <1>1, <2>3, <2>5
<1>4. QED
  BY <1>2, <1>3

(* Every step is a step of the interface, or changes nothing that it shows. *)
LEMMA StoreSimulation ==
  ASSUME InOnePlace, [Next]_vars
  PROVE  [Store!Next]_<<Pending, Held>>
<1>0. Pending \subseteq Obs
  BY DEF InOnePlace, TypeOK
<1>1. ASSUME NEW o \in Obs, StoreRefused(o) \/ StoreObservation(o)
      PROVE  [Store!Next]_<<Pending, Held>>
  BY <1>1, StoreAdds DEF Store!Next, Store!StoreObservation
<1>2. CASE TakeNextEnvelopeHolder
  BY <1>2, TakePlace DEF Store!Next, Store!TakeNextEnvelopeHolder
<1>3. CASE ReturnEnvelopeHolder
  BY <1>3, ReturnPlace DEF Store!Next, Store!ReturnEnvelopeHolder
<1>4. CASE DestroyHolder
  BY <1>4, DestroyPlace DEF Store!Next, Store!DestroyEnvelopeHolder
<1>5. CASE DeleteData
  BY <1>5, DeletePlace DEF Store!Next, Store!DeleteData
<1>6. CASE (\E b \in BOOLEAN : Disable(b)) \/ UNCHANGED vars
  BY <1>6, DisablePlace
<1>7. QED
  BY <1>1, <1>2, <1>3, <1>4, <1>5, <1>6 DEF Next

(* The in-memory store implements the store interface: what the shipping    *)
(* manager sees of it is a set of pending Observations and one in flight.   *)
THEOREM Implements == Spec => StoreSpec
<1>1. Init => Store!Init
  <2> SUFFICES ASSUME Init PROVE Store!Init
    OBVIOUS
  <2>1. DOMAIN finalized = {} /\ current.obs = {}
    BY DEF Init, NewEnvelopeMaker
  <2>2. Pending = {} /\ Held = {}
    BY <2>1 DEF Init, Pending, Held
  <2>3. QED
    BY <2>2 DEF Store!Init
<1>2. InOnePlace /\ [Next]_vars => [Store!Next]_<<Pending, Held>>
  BY StoreSimulation
<1>3. QED
  BY <1>1, <1>2, NoneLostNoneTwice, PTL DEF Spec, StoreSpec, Store!Spec
=============================================================================
