------------------------ MODULE ShippingManagerProofs ------------------------
(***************************************************************************)
(* The safety properties of the ShippingManager, for any Observations,     *)
(* SendCallbacks, send outcomes and intervals.                             *)
(***************************************************************************)
EXTENDS ShippingManager, TLAPS

(* Interval() stays between 0 and the target.                               *)
LEMMA NextIntervalType ==
  ASSUME NEW i \in 0 .. TargetInterval
  PROVE  NextInterval(i, TargetInterval) \in 0 .. TargetInterval
BY ShippingAssumption DEF NextInterval

(* UploadScheduler: from a positive interval each call of Interval() moves  *)
(* on, and never past the target; from 0 it never moves, though the         *)
(* constructor accepts an initial interval of 0.                            *)
THEOREM IntervalGrows ==
  ASSUME NEW target \in Nat, NEW i \in 0 .. target
  PROVE  /\ 0 < i /\ i < target => i < NextInterval(i, target) /\ NextInterval(i, target) <= target
         /\ i = target => NextInterval(i, target) = target
         /\ i = 0 /\ 0 < target => NextInterval(i, target) = 0
BY DEF NextInterval

LEMMA InitInv == Init => Inv
<1> SUFFICES ASSUME Init PROVE Inv
  OBVIOUS
<1>1. InitialInterval \in 0 .. TargetInterval
  BY ShippingAssumption DEF SchedulerConfig
<1>2. interval \in 0 .. TargetInterval
  BY <1>1, NextIntervalType DEF Init
<1>3. TypeOK
  <2>1. until_send \in 0 .. TargetInterval /\ sleeping \in 0 .. MinInterval
        /\ since_send \in 0 .. MinInterval /\ failures_without_success \in 0 .. 3
    BY <1>1, ShippingAssumption DEF Init
  <2> QED
    BY <1>2, <2>1
       DEF Init, TypeOK, WorkerSteps, kMaxFailuresWithoutSuccess
<1>4. WorkerInv
  BY <1>3 DEF Init, WorkerInv
<1>5. CallbackInv
  BY DEF Init, CallbackInv
<1> QED
  BY <1>4, <1>5 DEF Init, Inv, NothingInFlightWhenIdle, IdleMeansSent, NoLostWakeup,
     MinIntervalRespected, TrueMeansSent

(* Each step keeps the types.                                               *)
LEMMA TypeStep == WorkerInv /\ [Next]_vars => TypeOK'
<1> SUFFICES ASSUME WorkerInv, TypeOK, [Next]_vars PROVE TypeOK'
  BY DEF WorkerInv
<1> USE ShippingAssumption DEF TypeOK, WorkerSteps, store, fields, pass, timers, history, vars
<1>1. CASE RunTop
  <2>1. sleeping' \in 0 .. MinInterval
    BY <1>1 DEF RunTop
  <2> QED
    BY <1>1, <2>1 DEF RunTop
<1>2. CASE WakeFromSleep
  BY <1>2 DEF WakeFromSleep, InvokeSendCallbacks
<1>3. CASE WakeFromIdle
  BY <1>3 DEF WakeFromIdle
<1>4. CASE WakeFromSchedule
  BY <1>4 DEF WakeFromSchedule
<1>5. CASE SendAllEnvelopes
  BY <1>5 DEF SendAllEnvelopes, kMaxFailuresWithoutSuccess
<1>6. CASE TakeNextEnvelopeHolder
  BY <1>6 DEF TakeNextEnvelopeHolder
<1>7. CASE SendSucceeds
  BY <1>7 DEF SendSucceeds, kMaxFailuresWithoutSuccess
<1>8. CASE EnvelopeDropped
  BY <1>8 DEF EnvelopeDropped, kMaxFailuresWithoutSuccess
<1>9. CASE SendFails
  <2>1. failures_without_success < kMaxFailuresWithoutSuccess
    BY <1>9 DEF SendFails, WorkerInv
  <2>2. failures_without_success' \in 0 .. kMaxFailuresWithoutSuccess
    BY <1>9, <2>1 DEF SendFails, kMaxFailuresWithoutSuccess
  <2> QED
    BY <1>9, <2>2 DEF SendFails
<1>10. CASE ReturnEnvelopeHolder
  BY <1>10 DEF ReturnEnvelopeHolder
<1>11. CASE SendCallbacksAfterPass
  BY <1>11 DEF SendCallbacksAfterPass, InvokeSendCallbacks
<1>12. CASE ScheduleNextSend
  BY <1>12, NextIntervalType DEF ScheduleNextSend
<1>13. CASE Start
  BY <1>13 DEF Start
<1>14. ASSUME NEW o \in Obs, AddObservation(o) PROVE TypeOK'
  BY <1>14 DEF AddObservation
<1>15. ASSUME NEW o \in Obs, NotifyObservationsAdded(o) PROVE TypeOK'
  BY <1>15 DEF NotifyObservationsAdded, IsAlmostFull, Empty
<1>16. CASE RequestSendSoon
  BY <1>16 DEF RequestSendSoon, RequestSendSoonLockHeld, Notify
<1>17. ASSUME NEW c \in Callbacks, RequestSendSoonWithCallback(c) PROVE TypeOK'
  BY <1>17 DEF RequestSendSoonWithCallback, Notify
<1>18. ASSUME NEW disable \in BOOLEAN, Disable(disable) PROVE TypeOK'
  BY <1>18 DEF Disable, Notify
<1>19. CASE ShutDown
  BY <1>19 DEF ShutDown
<1>20. CASE SpuriousWakeup
  BY <1>20 DEF SpuriousWakeup
<1>21. CASE Tick
  BY <1>21 DEF Tick
<1>22. CASE UNCHANGED vars
  BY <1>22
<1> QED
  BY <1>1, <1>2, <1>3, <1>4, <1>5, <1>6, <1>7, <1>8, <1>9, <1>10, <1>11, <1>12, <1>13,
     <1>14, <1>15, <1>16, <1>17, <1>18, <1>19, <1>20, <1>21, <1>22 DEF Next, Worker, Client

(* Each step keeps the worker's own bookkeeping.                            *)
LEMMA WorkerStep == WorkerInv /\ NothingInFlightWhenIdle /\ [Next]_vars => WorkerInv'
<1> SUFFICES ASSUME WorkerInv, TypeOK, TypeOK', NothingInFlightWhenIdle, [Next]_vars
             PROVE  WorkerInv'
  BY TypeStep DEF WorkerInv
<1> USE ShippingAssumption DEF WorkerInv, store, fields, pass, timers, history, vars
<1>1. CASE RunTop
  <2>1. MinInterval \in Nat /\ since_send \in Nat
    BY DEF TypeOK
  <2> QED
    BY <1>1, <2>1 DEF RunTop
<1>2. CASE WakeFromSleep
  BY <1>2 DEF WakeFromSleep, InvokeSendCallbacks, ObservationsAvailable, Empty
<1>3. CASE WakeFromIdle
  BY <1>3 DEF WakeFromIdle, ObservationsAvailable, Empty
<1>4. CASE WakeFromSchedule
  BY <1>4 DEF WakeFromSchedule
<1>5. CASE SendAllEnvelopes
  BY <1>5 DEF SendAllEnvelopes, kMaxFailuresWithoutSuccess
<1>6. CASE TakeNextEnvelopeHolder
  <2>1. CASE Empty /\ pc' = "callbacks" /\ UNCHANGED <<pending, inflight>>
    BY <1>6, <2>1 DEF TakeNextEnvelopeHolder
  <2>2. ASSUME NEW envelope \in (SUBSET pending) \ {{}}, inflight' = envelope,
               pending' = pending \ envelope, pc' = "sending"
        PROVE  WorkerInv'
    <3>1. pending' \cap inflight' = {} /\ inflight' # {}
      BY <2>2
    <3> QED
      BY <1>6, <2>2, <3>1 DEF TakeNextEnvelopeHolder
  <2> QED
    BY <1>6, <2>1, <2>2 DEF TakeNextEnvelopeHolder
<1>7. CASE SendSucceeds
  BY <1>7 DEF SendSucceeds, kMaxFailuresWithoutSuccess
<1>8. CASE EnvelopeDropped
  BY <1>8 DEF EnvelopeDropped, kMaxFailuresWithoutSuccess
<1>9. CASE SendFails
  BY <1>9 DEF SendFails
<1>10. CASE ReturnEnvelopeHolder
  <2>1. failures_without_success \in Int
    BY DEF TypeOK, kMaxFailuresWithoutSuccess
  <2>2. pc' = "take" => failures_without_success' < kMaxFailuresWithoutSuccess
    BY <1>10, <2>1 DEF ReturnEnvelopeHolder, kMaxFailuresWithoutSuccess
  <2>3. pending' \cap inflight' = {} /\ inflight' = {} /\ pc' \in {"callbacks", "take"}
    BY <1>10 DEF ReturnEnvelopeHolder
  <2> QED
    BY <1>10, <2>2, <2>3 DEF ReturnEnvelopeHolder
<1>11. CASE SendCallbacksAfterPass
  BY <1>11 DEF SendCallbacksAfterPass, InvokeSendCallbacks
<1>12. CASE ScheduleNextSend
  BY <1>12 DEF ScheduleNextSend
<1>13. CASE Start
  BY <1>13 DEF Start
<1>14. ASSUME NEW o \in Obs, AddObservation(o) PROVE WorkerInv'
  BY <1>14 DEF AddObservation
<1>15. ASSUME NEW o \in Obs, NotifyObservationsAdded(o) PROVE WorkerInv'
  BY <1>15 DEF NotifyObservationsAdded, Empty
<1>16. CASE RequestSendSoon
  BY <1>16 DEF RequestSendSoon, RequestSendSoonLockHeld, Notify
<1>17. ASSUME NEW c \in Callbacks, RequestSendSoonWithCallback(c) PROVE WorkerInv'
  BY <1>17 DEF RequestSendSoonWithCallback, Notify, Empty
<1>18. ASSUME NEW disable \in BOOLEAN, Disable(disable) PROVE WorkerInv'
  BY <1>18 DEF Disable, Notify
<1>19. CASE ShutDown
  BY <1>19 DEF ShutDown
<1>20. CASE SpuriousWakeup
  BY <1>20 DEF SpuriousWakeup
<1>21. CASE Tick
  <2>1. MinInterval \in Nat /\ since_send \in Nat /\ sleeping \in Nat
    BY DEF TypeOK
  <2>2. sleeping + since_send >= MinInterval => sleeping' + since_send' >= MinInterval
    BY <1>21, <2>1 DEF Tick
  <2> QED
    BY <1>21, <2>2 DEF Tick
<1>22. CASE UNCHANGED vars
  BY <1>22
<1> QED
  BY <1>1, <1>2, <1>3, <1>4, <1>5, <1>6, <1>7, <1>8, <1>9, <1>10, <1>11, <1>12, <1>13,
     <1>14, <1>15, <1>16, <1>17, <1>18, <1>19, <1>20, <1>21, <1>22 DEF Next, Worker, Client

(* Each step keeps what clients and the worker tell each other.             *)
LEMMA WakeupStep ==
  Inv /\ [Next]_vars =>
    (NothingInFlightWhenIdle /\ IdleMeansSent /\ NoLostWakeup /\ MinIntervalRespected)'
<1> DEFINE Signals ==
      NothingInFlightWhenIdle /\ IdleMeansSent /\ NoLostWakeup /\ MinIntervalRespected
<1> SUFFICES ASSUME Signals, WorkerInv, TypeOK, [Next]_vars PROVE Signals'
  BY DEF Inv, WorkerInv
<1> USE ShippingAssumption DEF WorkerInv, NothingInFlightWhenIdle, IdleMeansSent, NoLostWakeup,
        MinIntervalRespected, store, fields, pass, timers, history, vars
<1>1. CASE RunTop
  BY <1>1 DEF RunTop
<1>2. CASE WakeFromSleep
  <2>1. sleeping = 0 => since_send >= MinInterval
    BY <1>2 DEF WakeFromSleep, TypeOK
  <2> QED
    BY <1>2, <2>1 DEF WakeFromSleep, InvokeSendCallbacks, ObservationsAvailable, Empty
<1>3. CASE WakeFromIdle
  BY <1>3 DEF WakeFromIdle, ObservationsAvailable, Empty
<1>4. CASE WakeFromSchedule
  BY <1>4 DEF WakeFromSchedule
<1>5. CASE SendAllEnvelopes
  BY <1>5 DEF SendAllEnvelopes, kMaxFailuresWithoutSuccess
<1>6. CASE TakeNextEnvelopeHolder
  BY <1>6 DEF TakeNextEnvelopeHolder, Empty
<1>7. CASE SendSucceeds
  BY <1>7 DEF SendSucceeds, kMaxFailuresWithoutSuccess
<1>8. CASE EnvelopeDropped
  BY <1>8 DEF EnvelopeDropped, kMaxFailuresWithoutSuccess
<1>9. CASE SendFails
  BY <1>9 DEF SendFails
<1>10. CASE ReturnEnvelopeHolder
  BY <1>10 DEF ReturnEnvelopeHolder, kMaxFailuresWithoutSuccess
<1>11. CASE SendCallbacksAfterPass
  BY <1>11 DEF SendCallbacksAfterPass, InvokeSendCallbacks
<1>12. CASE ScheduleNextSend
  BY <1>12 DEF ScheduleNextSend
<1>13. CASE Start
  BY <1>13 DEF Start
<1>14. ASSUME NEW o \in Obs, AddObservation(o) PROVE Signals'
  BY <1>14 DEF AddObservation
<1>15. ASSUME NEW o \in Obs, NotifyObservationsAdded(o) PROVE Signals'
  BY <1>15 DEF NotifyObservationsAdded, Empty
<1>16. CASE RequestSendSoon
  BY <1>16 DEF RequestSendSoon, RequestSendSoonLockHeld, Notify
<1>17. ASSUME NEW c \in Callbacks, RequestSendSoonWithCallback(c) PROVE Signals'
  BY <1>17 DEF RequestSendSoonWithCallback, Notify, Empty
<1>18. ASSUME NEW disable \in BOOLEAN, Disable(disable) PROVE Signals'
  <2>1. CASE disable
    BY <1>18, <2>1 DEF Disable
  <2>2. CASE ~disable
    BY <1>18, <2>2 DEF Disable, Notify
  <2> QED
    BY <2>1, <2>2
<1>19. CASE ShutDown
  BY <1>19 DEF ShutDown
<1>20. CASE SpuriousWakeup
  BY <1>20 DEF SpuriousWakeup
<1>21. CASE Tick
  <2>1. since_send >= MinInterval => since_send' >= MinInterval
    BY <1>21 DEF Tick, TypeOK
  <2> QED
    BY <1>21, <2>1 DEF Tick
<1>22. CASE UNCHANGED vars
  BY <1>22
<1> QED
  BY <1>1, <1>2, <1>3, <1>4, <1>5, <1>6, <1>7, <1>8, <1>9, <1>10, <1>11, <1>12, <1>13,
     <1>14, <1>15, <1>16, <1>17, <1>18, <1>19, <1>20, <1>21, <1>22 DEF Next, Worker, Client

(* Each step keeps what is owed to the SendCallbacks.                       *)
LEMMA CallbackStep == Inv /\ [Next]_vars => (CallbackInv /\ TrueMeansSent)'
<1> SUFFICES ASSUME CallbackInv, TrueMeansSent, NothingInFlightWhenIdle, WorkerInv, TypeOK,
                    [Next]_vars
             PROVE  (CallbackInv /\ TrueMeansSent)'
  BY DEF Inv, WorkerInv
<1> USE DEF CallbackInv, TrueMeansSent, store, fields, pass, timers, history, vars
<1>1. CASE RunTop
  BY <1>1 DEF RunTop
<1>2. CASE WakeFromSleep
  <2>1. inflight = {}
    BY <1>2 DEF WakeFromSleep, WorkerInv
  <2>2. CASE /\ ~ObservationsAvailable
             /\ InvokeSendCallbacks(TRUE)
             /\ excused' = IF is_disabled THEN excused \cup send_callback_queue ELSE excused
             /\ pc' = "idle_wait"
             /\ UNCHANGED owed
    <3>1. \A d \in Callbacks \ excused' : owed[d] # {} => d \notin send_callback_queue
      BY <2>1, <2>2 DEF ObservationsAvailable, Empty
    <3>2. \A d \in Callbacks : d \notin excused' => d \notin excused
      BY <2>2
    <3>3. CallbackInv'
      BY <1>2, <2>2, <3>2 DEF WakeFromSleep, InvokeSendCallbacks
    <3>4. TrueMeansSent'
      BY <2>2, <3>1, <3>2 DEF InvokeSendCallbacks
    <3> QED
      BY <3>3, <3>4
  <2>3. CASE pc' # "callbacks" /\ UNCHANGED <<send_callback_queue, history>>
    BY <1>2, <2>3 DEF WakeFromSleep
  <2> QED
    BY <1>2, <2>2, <2>3 DEF WakeFromSleep
<1>3. CASE WakeFromIdle
  BY <1>3 DEF WakeFromIdle, ObservationsAvailable, Empty
<1>4. CASE WakeFromSchedule
  BY <1>4 DEF WakeFromSchedule
<1>5. CASE SendAllEnvelopes
  BY <1>5 DEF SendAllEnvelopes, kMaxFailuresWithoutSuccess
<1>6. CASE TakeNextEnvelopeHolder
  <2>1. inflight = {}
    BY <1>6 DEF TakeNextEnvelopeHolder, WorkerInv
  <2>2. pending' \cup inflight' = pending \cup inflight
    BY <1>6, <2>1 DEF TakeNextEnvelopeHolder
  <2>3. pc' = "callbacks" => pending = {}
    BY <1>6 DEF TakeNextEnvelopeHolder, Empty
  <2>4. UNCHANGED <<send_callback_queue, history>>
    BY <1>6 DEF TakeNextEnvelopeHolder
  <2>5. send_callback_queue \subseteq Callbacks
    BY DEF TypeOK
  <2> QED
    BY <2>1, <2>2, <2>3, <2>4, <2>5
<1>7. CASE SendSucceeds
  BY <1>7 DEF SendSucceeds, kMaxFailuresWithoutSuccess
<1>8. CASE EnvelopeDropped
  BY <1>8 DEF EnvelopeDropped, kMaxFailuresWithoutSuccess
<1>9. CASE SendFails
  BY <1>9 DEF SendFails
<1>10. CASE ReturnEnvelopeHolder
  <2>1. pending' \cup inflight' = pending \cup inflight /\ ~success'
    BY <1>10 DEF ReturnEnvelopeHolder, WorkerInv
  <2>2. UNCHANGED <<send_callback_queue, history>>
    BY <1>10 DEF ReturnEnvelopeHolder
  <2> QED
    BY <2>1, <2>2
<1>11. CASE SendCallbacksAfterPass
  BY <1>11 DEF SendCallbacksAfterPass, InvokeSendCallbacks
<1>12. CASE ScheduleNextSend
  BY <1>12 DEF ScheduleNextSend
<1>13. CASE Start
  BY <1>13 DEF Start
<1>14. ASSUME NEW o \in Obs, AddObservation(o) PROVE (CallbackInv /\ TrueMeansSent)'
  BY <1>14 DEF AddObservation
<1>15. ASSUME NEW o \in Obs, NotifyObservationsAdded(o) PROVE (CallbackInv /\ TrueMeansSent)'
  BY <1>15 DEF NotifyObservationsAdded, Empty
<1>16. CASE RequestSendSoon
  BY <1>16 DEF RequestSendSoon, RequestSendSoonLockHeld, Notify
<1>17. ASSUME NEW c \in Callbacks, RequestSendSoonWithCallback(c) PROVE (CallbackInv /\ TrueMeansSent)'
  <2>1. owed'[c] = pending \cup inflight /\ \A d \in Callbacks \ {c} : owed'[d] = owed[d]
    BY <1>17 DEF RequestSendSoonWithCallback, TypeOK
  <2>2. answer \in [Callbacks -> {"none", "queued", "true", "false"}]
    BY DEF TypeOK
  <2>3. pc' = pc /\ success' = success /\ pending' = pending /\ inflight' = inflight
    BY <1>17 DEF RequestSendSoonWithCallback
  <2>4. /\ \A d \in Callbacks \ {c} : d \in excused' <=> d \in excused
        /\ pc = "callbacks" => c \in excused'
    BY <1>17 DEF RequestSendSoonWithCallback
  <2>5. CASE Empty /\ idle
    <3>1. owed'[c] = {}
      BY <2>1, <2>5 DEF Empty, NothingInFlightWhenIdle
    <3>2. /\ answer'[c] = "true" /\ \A d \in Callbacks \ {c} : answer'[d] = answer[d]
          /\ send_callback_queue' = send_callback_queue /\ c \notin send_callback_queue
      BY <1>17, <2>2, <2>5 DEF RequestSendSoonWithCallback
    <3>3. CallbackInv'
      <4>1. \A d \in Callbacks : d \in send_callback_queue' <=> answer'[d] = "queued"
        BY <3>2
      <4>2. \A d \in Callbacks \ excused' : owed'[d] \subseteq pending' \cup inflight'
        BY <2>1, <2>3, <2>4
      <4>3. pc' = "callbacks" /\ success' =>
              \A d \in send_callback_queue' \ excused' : owed'[d] = {}
        <5>1. send_callback_queue \subseteq Callbacks
          BY DEF TypeOK
        <5> QED
          BY <2>1, <2>3, <2>4, <3>2, <5>1
      <4> QED
        BY <4>1, <4>2, <4>3
    <3>4. TrueMeansSent'
      BY <2>1, <2>4, <3>1, <3>2
    <3> QED
      BY <3>3, <3>4
  <2>6. CASE ~(Empty /\ idle)
    <3>1. /\ answer'[c] = "queued" /\ \A d \in Callbacks \ {c} : answer'[d] = answer[d]
          /\ send_callback_queue' = send_callback_queue \cup {c}
      BY <1>17, <2>2, <2>6 DEF RequestSendSoonWithCallback
    <3>2. CallbackInv'
      <4>1. \A d \in Callbacks : d \in send_callback_queue' <=> answer'[d] = "queued"
        BY <3>1
      <4>2. \A d \in Callbacks \ excused' : owed'[d] \subseteq pending' \cup inflight'
        BY <2>1, <2>3, <2>4
      <4>3. pc' = "callbacks" /\ success' =>
              \A d \in send_callback_queue' \ excused' : owed'[d] = {}
        <5>1. send_callback_queue \subseteq Callbacks
          BY DEF TypeOK
        <5> QED
          BY <2>1, <2>3, <2>4, <3>1, <5>1
      <4> QED
        BY <4>1, <4>2, <4>3
    <3>3. TrueMeansSent'
      BY <2>1, <2>4, <3>1
    <3> QED
      BY <3>2, <3>3
  <2> QED
    BY <2>5, <2>6
<1>18. ASSUME NEW disable \in BOOLEAN, Disable(disable) PROVE (CallbackInv /\ TrueMeansSent)'
  BY <1>18 DEF Disable, Notify
<1>19. CASE ShutDown
  BY <1>19 DEF ShutDown
<1>20. CASE SpuriousWakeup
  BY <1>20 DEF SpuriousWakeup
<1>21. CASE Tick
  BY <1>21 DEF Tick
<1>22. CASE UNCHANGED vars
  BY <1>22
<1> QED
  BY <1>1, <1>2, <1>3, <1>4, <1>5, <1>6, <1>7, <1>8, <1>9, <1>10, <1>11, <1>12, <1>13,
     <1>14, <1>15, <1>16, <1>17, <1>18, <1>19, <1>20, <1>21, <1>22 DEF Next, Worker, Client

(* The conjunction of the ShippingManager's safety properties is inductive. *)
THEOREM ShippingInvariant == Spec => []Inv
<1>1. Inv /\ [Next]_vars => Inv'
  BY WorkerStep, WakeupStep, CallbackStep DEF Inv
<1> QED
  BY InitInv, <1>1, PTL DEF Spec

(* A SendCallback told true has had all its Observations sent, unless it    *)
(* was registered too late in a pass, told while uploading was disabled, or *)
(* had Observations that were dropped.                                      *)
THEOREM CallbackHonesty == Spec => []TrueMeansSent
<1>1. Inv => TrueMeansSent
  BY DEF Inv
<1> QED
  BY <1>1, ShippingInvariant, PTL

(* No pass of SendAllEnvelopes() begins within MinInterval() of the end of  *)
(* the one before.                                                          *)
THEOREM SendDistance == Spec => []MinIntervalRespected
<1>1. Inv => MinIntervalRespected
  BY DEF Inv
<1> QED
  BY <1>1, ShippingInvariant, PTL

(* What WaitUntilIdle() relies on: idle means that the worker is parked or  *)
(* not started, that no Envelope is outside the store, and, with uploading  *)
(* enabled, that every Observation whose NotifyObservationsAdded() is over  *)
(* is sent, also those that came in while it was disabled.                  *)
THEOREM IdleIsIdle == Spec => []IdleIsDone
<1>1. Inv => IdleIsDone
  BY DEF Inv, IdleIsDone
<1> QED
  BY <1>1, ShippingInvariant, PTL

(* A worker waiting in Run() that has been given a reason to go on has also *)
(* been notified.                                                           *)
THEOREM WakeupsKept == Spec => []NoLostWakeup
<1>1. Inv => NoLostWakeup
  BY DEF Inv
<1> QED
  BY <1>1, ShippingInvariant, PTL

(* The worker and its clients respect the interface of the ObservationStore: *)
(* every step of theirs is one of its operations or leaves it alone.         *)
THEOREM UsesTheStoreAsPromised == Spec => StoreProtocol
<1>1. Init => Store!Init
  BY DEF Init, Store!Init
<1>2. ASSUME Inv, [Next]_vars PROVE [Store!Next]_<<pending, inflight>>
  <2> USE <1>2 DEF store, vars
  <2>1. inflight = {} <=> pc \notin {"sending", "return"}
    BY DEF Inv, WorkerInv
  <2>2. CASE \E o \in Obs : AddObservation(o)
    BY <2>2 DEF AddObservation, Store!Next, Store!StoreObservation
  <2>3. CASE TakeNextEnvelopeHolder
    BY <2>1, <2>3 DEF TakeNextEnvelopeHolder, Store!Next, Store!TakeNextEnvelopeHolder
  <2>4. CASE SendSucceeds \/ EnvelopeDropped
    BY <2>4 DEF SendSucceeds, EnvelopeDropped, Store!Next, Store!DestroyEnvelopeHolder
  <2>5. CASE ReturnEnvelopeHolder
    BY <2>5 DEF ReturnEnvelopeHolder, Store!Next, Store!ReturnEnvelopeHolder
  <2>6. CASE \E o \in Obs : NotifyObservationsAdded(o)
    BY <2>6 DEF NotifyObservationsAdded
  <2>7. CASE Start \/ RequestSendSoon \/ ShutDown \/ SpuriousWakeup \/ Tick
    BY <2>7 DEF Start, RequestSendSoon, ShutDown, SpuriousWakeup, Tick
  <2>8. CASE \/ \E c \in Callbacks : RequestSendSoonWithCallback(c)
             \/ \E disable \in BOOLEAN : Disable(disable)
    BY <2>8 DEF RequestSendSoonWithCallback, Disable
  <2>9. CASE RunTop \/ WakeFromSleep \/ WakeFromIdle \/ WakeFromSchedule
    BY <2>9 DEF RunTop, WakeFromSleep, WakeFromIdle, WakeFromSchedule
  <2>10. CASE \/ SendAllEnvelopes \/ SendFails \/ SendCallbacksAfterPass \/ ScheduleNextSend
    BY <2>10 DEF SendAllEnvelopes, SendFails, SendCallbacksAfterPass, ScheduleNextSend
  <2>11. CASE UNCHANGED vars
    BY <2>11
  <2> QED
    BY <2>2, <2>3, <2>4, <2>5, <2>6, <2>7, <2>8, <2>9, <2>10, <2>11
       DEF Next, Worker, Client
<1> QED
  BY <1>1, <1>2, ShippingInvariant, PTL DEF Spec, StoreProtocol, Store!Spec
=============================================================================
