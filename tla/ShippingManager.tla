--------------------------- MODULE ShippingManager ---------------------------
(***************************************************************************)
(* src/src/uploader/shipping_manager.cc: the worker thread that sends the  *)
(* Observations of the ObservationStore to the backend, and the clients    *)
(* that add Observations, ask for an expedited send, disable uploading and *)
(* destroy the object.                                                     *)
(*                                                                         *)
(* One action is what a thread does while it holds the lock of             *)
(* protected_fields_, or one unlocked step.  The store is abstract: it     *)
(* holds a set of Observations, and TakeNextEnvelopeHolder takes any       *)
(* non-empty part of it as an Envelope.  Clients write to the store        *)
(* without the manager's lock and notify the manager afterwards.           *)
(*                                                                         *)
(* Time is kept in timers that Tick moves: how long the worker still       *)
(* sleeps, how long until next_scheduled_send_time_, and how long ago the  *)
(* last SendAllEnvelopes ended.                                            *)
(***************************************************************************)
EXTENDS UploadScheduler, FiniteSets

CONSTANTS Obs,              \* Observations
          Callbacks,        \* SendCallbacks
          Outcomes,         \* how SendEnvelopeToBackend may end
          MayDisable,       \* may clients call Disable?
          AlmostFull,       \* IsAlmostFull() from this many Observations on
          TargetInterval, MinInterval, InitialInterval

kMaxFailuresWithoutSuccess == 3

ASSUME ShippingAssumption ==
  /\ Outcomes \subseteq {"sent", "failed", "dropped"}
  /\ MayDisable \in BOOLEAN
  /\ TargetInterval \in Nat /\ MinInterval \in Nat /\ InitialInterval \in Nat
  /\ SchedulerConfig(TargetInterval, MinInterval, InitialInterval)

VARIABLES
  pending,                    \* the store: Observations not taken
  inflight,                   \* the Envelope the worker has taken
  unnotified,                 \* stored, NotifyObservationsAdded not yet called
  expedited_send_requested,
  send_callback_queue,        \* as a set: all of it is invoked at once
  shut_down, idle, waiting_for_schedule, is_disabled,
  pc,                         \* where the worker is
  signalled,                  \* the worker's condition variable was notified
  success, failures_without_success,
  interval,                   \* current_interval_ of the UploadScheduler
  until_send, sleeping, since_send,      \* timers
  answer,                     \* history: what each SendCallback was told
  owed,                       \* history: unsent Observations that were there
                              \* when the SendCallback was registered
  excused                     \* history: SendCallbacks whose answer may be
                              \* wrong, see TrueMeansSent

store == <<pending, inflight, unnotified>>
fields == <<expedited_send_requested, send_callback_queue, shut_down, idle,
            waiting_for_schedule, is_disabled>>
pass == <<success, failures_without_success>>
timers == <<interval, until_send, sleeping, since_send>>
history == <<answer, owed, excused>>
vars == <<store, fields, pc, signalled, pass, timers, history>>

WorkerSteps == {"unstarted", "top", "min_sleep", "idle_wait", "schedule_wait",
                "send_start", "take", "sending", "return", "callbacks", "send_end",
                "exited"}

TypeOK ==
  /\ pending \subseteq Obs /\ inflight \subseteq Obs /\ unnotified \subseteq Obs
  /\ expedited_send_requested \in BOOLEAN
  /\ send_callback_queue \subseteq Callbacks
  /\ shut_down \in BOOLEAN /\ idle \in BOOLEAN
  /\ waiting_for_schedule \in BOOLEAN /\ is_disabled \in BOOLEAN
  /\ pc \in WorkerSteps
  /\ signalled \in BOOLEAN
  /\ success \in BOOLEAN
  /\ failures_without_success \in 0 .. kMaxFailuresWithoutSuccess
  /\ interval \in 0 .. TargetInterval /\ until_send \in 0 .. TargetInterval
  /\ sleeping \in 0 .. MinInterval /\ since_send \in 0 .. MinInterval
  /\ answer \in [Callbacks -> {"none", "queued", "true", "false"}]
  /\ owed \in [Callbacks -> SUBSET Obs]
  /\ excused \subseteq Callbacks
-----------------------------------------------------------------------------
(* ObservationStore::Empty().  FileObservationStore also counts what is     *)
(* taken; NothingInFlightWhenIdle makes this the same for every use here.   *)
Empty == pending = {}

IsAlmostFull == Cardinality(pending \cup inflight) >= AlmostFull

ObservationsAvailable == ~Empty /\ ~is_disabled

(* notify_all() reaches the worker only while it waits on that variable.    *)
Notify(wait) == signalled' = (signalled \/ pc = wait)

(* Every queued SendCallback is told `told`; the queue is emptied and the   *)
(* request for an expedited send forgotten.                                 *)
InvokeSendCallbacks(told) ==
  /\ expedited_send_requested' = FALSE
  /\ send_callback_queue' = {}
  /\ answer' = [c \in Callbacks |-> IF c \in send_callback_queue
                                    THEN (IF told THEN "true" ELSE "false")
                                    ELSE answer[c]]

(* The part of NotifyObservationsAdded and RequestSendSoon they share.      *)
RequestSendSoonLockHeld ==
  /\ expedited_send_requested' = TRUE
  /\ waiting_for_schedule' = FALSE
  /\ Notify("schedule_wait")
-----------------------------------------------------------------------------
Init ==
  /\ pending \in SUBSET Obs      \* left in the store by an earlier process
  /\ inflight = {} /\ unnotified = {}
  /\ expedited_send_requested = FALSE
  /\ send_callback_queue = {}
  /\ shut_down = FALSE /\ is_disabled = FALSE
  /\ idle = TRUE /\ waiting_for_schedule = TRUE
  /\ pc = "unstarted"
  /\ signalled = FALSE
  /\ success = TRUE /\ failures_without_success = 0
  /\ until_send = InitialInterval
  /\ interval = NextInterval(InitialInterval, TargetInterval)
  /\ sleeping = 0
  /\ since_send = MinInterval    \* no send yet
  /\ answer = [c \in Callbacks |-> "none"]
  /\ owed = [c \in Callbacks |-> {}]
  /\ excused = {}

Start ==
  /\ pc = "unstarted" /\ ~shut_down
  /\ pc' = "top"
  /\ idle' = FALSE /\ waiting_for_schedule' = FALSE
  /\ UNCHANGED <<store, expedited_send_requested, send_callback_queue, shut_down,
                 is_disabled, signalled, pass, timers, history>>

(* A client of the store: ObservationWriter stores the Observation, then    *)
(* calls NotifyObservationsAdded.                                           *)
AddObservation(o) ==
  /\ ~shut_down
  /\ o \notin pending \cup inflight \cup unnotified
  /\ pending' = pending \cup {o}
  /\ unnotified' = unnotified \cup {o}
  /\ UNCHANGED <<inflight, fields, pc, signalled, pass, timers, history>>

(* Mutant: the worker is not notified.                                      *)
NotifyObservationsAddedSilently(o) ==
  /\ o \in unnotified
  /\ unnotified' = unnotified \ {o}
  /\ idle' = (idle /\ Empty)
  /\ UNCHANGED <<pending, inflight, expedited_send_requested, send_callback_queue,
                 shut_down, waiting_for_schedule, is_disabled, pc, signalled, pass,
                 timers, history>>

NotifyObservationsAdded(o) ==
  /\ o \in unnotified
  /\ unnotified' = unnotified \ {o}
  /\ IF IsAlmostFull
     THEN expedited_send_requested' = TRUE /\ waiting_for_schedule' = FALSE
     ELSE UNCHANGED <<expedited_send_requested, waiting_for_schedule>>
  /\ idle' = (idle /\ Empty)
  /\ signalled' = \/ signalled
                  \/ pc = "schedule_wait" /\ IsAlmostFull
                  \/ pc = "idle_wait" /\ ~Empty
  /\ UNCHANGED <<pending, inflight, send_callback_queue, shut_down, is_disabled,
                 pc, pass, timers, history>>

(* RequestSendSoon() without a SendCallback.                                *)
RequestSendSoon ==
  /\ ~shut_down
  /\ RequestSendSoonLockHeld
  /\ UNCHANGED <<store, send_callback_queue, shut_down, idle, is_disabled, pc, pass,
                 timers, history>>

RequestSendSoonWithCallback(c) ==
  /\ ~shut_down
  /\ c \notin send_callback_queue
  /\ waiting_for_schedule' = FALSE
  /\ Notify("schedule_wait")
  /\ IF Empty /\ idle
     THEN /\ expedited_send_requested' = FALSE
          /\ answer' = [answer EXCEPT ![c] = "true"]
          /\ UNCHANGED send_callback_queue
     ELSE /\ expedited_send_requested' = TRUE
          /\ answer' = [answer EXCEPT ![c] = "queued"]
          /\ send_callback_queue' = send_callback_queue \cup {c}
  /\ owed' = [owed EXCEPT ![c] = pending \cup inflight]
  /\ excused' = IF pc = "callbacks" THEN excused \cup {c} ELSE excused \ {c}
  /\ UNCHANGED <<store, shut_down, idle, is_disabled, pc, pass, timers>>

(* Mutant: enabling does not wake the worker.                               *)
DisableSilently(disable) ==
  /\ MayDisable /\ ~shut_down
  /\ is_disabled' = disable
  /\ UNCHANGED <<store, expedited_send_requested, send_callback_queue, shut_down, idle,
                 waiting_for_schedule, pc, signalled, pass, timers, history>>

Disable(disable) ==
  /\ MayDisable /\ ~shut_down
  /\ is_disabled' = disable
  /\ IF disable
     THEN UNCHANGED <<idle, signalled>>
     ELSE idle' = FALSE /\ Notify("idle_wait")
  /\ UNCHANGED <<store, expedited_send_requested, send_callback_queue, shut_down,
                 waiting_for_schedule, pc, pass, timers, history>>

(* The destructor: no client calls the object any more.                     *)
ShutDown ==
  /\ ~shut_down /\ pc # "unstarted"
  /\ unnotified = {}
  /\ shut_down' = TRUE
  /\ signalled' = TRUE
  /\ UNCHANGED <<store, expedited_send_requested, send_callback_queue, idle,
                 waiting_for_schedule, is_disabled, pc, pass, timers, history>>
-----------------------------------------------------------------------------
(* Mutant: the worker does not sleep first.                                 *)
RunTopWithoutSleep ==
  /\ pc = "top"
  /\ pc' = IF shut_down THEN "exited" ELSE "min_sleep"
  /\ signalled' = FALSE
  /\ UNCHANGED <<store, fields, pass, timers, history>>

(* The worker, Run(): the top of the loop.                                  *)
RunTop ==
  /\ pc = "top"
  /\ IF shut_down
     THEN pc' = "exited" /\ UNCHANGED sleeping
     ELSE pc' = "min_sleep" /\ sleeping' = MinInterval
  /\ signalled' = FALSE
  /\ UNCHANGED <<store, fields, pass, interval, until_send, since_send, history>>

(* The sleep of MinInterval() ends, and what the worker does with the lock  *)
(* it then holds.  wait() first looks at its predicate, so a wait begins    *)
(* with the worker signalled.                                               *)
WakeFromSleep ==
  /\ pc = "min_sleep"
  /\ sleeping = 0 \/ shut_down
  /\ \/ /\ shut_down
        /\ pc' = "exited"
        /\ UNCHANGED <<fields, signalled, history>>
     \/ /\ ~shut_down /\ ~ObservationsAvailable
        /\ InvokeSendCallbacks(TRUE)
        /\ excused' = IF is_disabled THEN excused \cup send_callback_queue ELSE excused
        /\ idle' = TRUE
        /\ pc' = "idle_wait"
        /\ signalled' = TRUE
        /\ UNCHANGED <<shut_down, waiting_for_schedule, is_disabled, owed>>
     \/ /\ ~shut_down /\ ObservationsAvailable
        /\ until_send = 0 \/ expedited_send_requested
        /\ expedited_send_requested' = FALSE
        /\ pc' = "send_start"
        /\ UNCHANGED <<send_callback_queue, shut_down, idle, waiting_for_schedule,
                       is_disabled, signalled, history>>
     \/ /\ ~shut_down /\ ObservationsAvailable
        /\ until_send > 0 /\ ~expedited_send_requested
        /\ waiting_for_schedule' = TRUE
        /\ pc' = "schedule_wait"
        /\ signalled' = TRUE
        /\ UNCHANGED <<expedited_send_requested, send_callback_queue, shut_down, idle,
                       is_disabled, history>>
  /\ UNCHANGED <<store, pass, timers>>

WakeFromIdle ==
  /\ pc = "idle_wait" /\ signalled
  /\ signalled' = FALSE
  /\ IF shut_down \/ ObservationsAvailable \/ ~idle
     THEN pc' = "top" /\ idle' = FALSE
     ELSE UNCHANGED <<pc, idle>>
  /\ UNCHANGED <<store, expedited_send_requested, send_callback_queue, shut_down,
                 waiting_for_schedule, is_disabled, pass, timers, history>>

WakeFromSchedule ==
  /\ pc = "schedule_wait"
  /\ signalled \/ until_send = 0
  /\ signalled' = FALSE
  /\ IF shut_down \/ expedited_send_requested \/ until_send = 0
     THEN pc' = "top" /\ waiting_for_schedule' = FALSE
     ELSE UNCHANGED <<pc, waiting_for_schedule>>
  /\ UNCHANGED <<store, expedited_send_requested, send_callback_queue, shut_down, idle,
                 is_disabled, pass, timers, history>>

(* A condition variable may wake its waiter for no reason.                  *)
SpuriousWakeup ==
  /\ pc \in {"idle_wait", "schedule_wait"}
  /\ signalled' = TRUE
  /\ UNCHANGED <<store, fields, pc, pass, timers, history>>

(* SendAllEnvelopes(): a disabled manager returns at once.                  *)
SendAllEnvelopes ==
  /\ pc = "send_start"
  /\ pc' = IF is_disabled THEN "send_end" ELSE "take"
  /\ success' = TRUE /\ failures_without_success' = 0
  /\ UNCHANGED <<store, fields, signalled, timers, history>>

(* Mutant: the Envelope is handed out and stays in the store.               *)
TakeNextEnvelopeHolderCopying ==
  /\ pc = "take"
  /\ \/ Empty /\ pc' = "callbacks" /\ UNCHANGED inflight
     \/ inflight' \in (SUBSET pending) \ {{}} /\ pc' = "sending"
  /\ UNCHANGED <<pending, unnotified, fields, signalled, pass, timers, history>>

TakeNextEnvelopeHolder ==
  /\ pc = "take"
  /\ \/ /\ Empty
        /\ pc' = "callbacks"
        /\ UNCHANGED <<pending, inflight>>
     \/ \E envelope \in (SUBSET pending) \ {{}} :
          /\ inflight' = envelope
          /\ pending' = pending \ envelope
          /\ pc' = "sending"
  /\ UNCHANGED <<unnotified, fields, signalled, pass, timers, history>>

(* SendEnvelopeToBackend() returned nullptr: the backend has the Envelope,  *)
(* or it was dropped because it could not be encrypted, or because the      *)
(* LocalShippingManager could not write it.                                 *)
SendSucceeds ==
  /\ pc = "sending"
  /\ "sent" \in Outcomes
  /\ inflight' = {}
  /\ failures_without_success' = 0
  /\ owed' = [c \in Callbacks |-> owed[c] \ inflight]
  /\ pc' = "take"
  /\ UNCHANGED <<pending, unnotified, fields, signalled, success, timers, answer, excused>>

EnvelopeDropped ==
  /\ pc = "sending"
  /\ "dropped" \in Outcomes
  /\ inflight' = {}
  /\ failures_without_success' = 0
  /\ excused' = excused \cup {c \in Callbacks : owed[c] \cap inflight # {}}
  /\ pc' = "take"
  /\ UNCHANGED <<pending, unnotified, fields, signalled, success, timers, answer, owed>>

(* Mutant: the failure is counted, but not reported to the SendCallbacks.   *)
SendFailsUnreported ==
  /\ pc = "sending"
  /\ "failed" \in Outcomes
  /\ failures_without_success' = failures_without_success + 1
  /\ pc' = "return"
  /\ UNCHANGED <<store, fields, signalled, success, timers, history>>

SendFails ==
  /\ pc = "sending"
  /\ "failed" \in Outcomes
  /\ success' = FALSE
  /\ failures_without_success' = failures_without_success + 1
  /\ pc' = "return"
  /\ UNCHANGED <<store, fields, signalled, timers, history>>

(* Mutant: failures never end the pass.                                     *)
ReturnEnvelopeHolderUnbounded ==
  /\ pc = "return"
  /\ pending' = pending \cup inflight
  /\ inflight' = {}
  /\ failures_without_success' = 0
  /\ pc' = "take"
  /\ UNCHANGED <<unnotified, fields, signalled, success, timers, history>>

ReturnEnvelopeHolder ==
  /\ pc = "return"
  /\ pending' = pending \cup inflight
  /\ inflight' = {}
  /\ pc' = IF failures_without_success >= kMaxFailuresWithoutSuccess
           THEN "callbacks" ELSE "take"
  /\ UNCHANGED <<unnotified, fields, signalled, pass, timers, history>>

SendCallbacksAfterPass ==
  /\ pc = "callbacks"
  /\ InvokeSendCallbacks(success)
  /\ pc' = "send_end"
  /\ UNCHANGED <<store, shut_down, idle, waiting_for_schedule, is_disabled, signalled,
                 pass, timers, owed, excused>>

(* Back in Run(): the next send is scheduled.                               *)
ScheduleNextSend ==
  /\ pc = "send_end"
  /\ until_send' = interval
  /\ interval' = NextInterval(interval, TargetInterval)
  /\ since_send' = 0
  /\ pc' = "top"
  /\ UNCHANGED <<store, fields, signalled, pass, sleeping, history>>

Tick ==
  /\ until_send' = IF until_send > 0 THEN until_send - 1 ELSE 0
  /\ sleeping' = IF sleeping > 0 THEN sleeping - 1 ELSE 0
  /\ since_send' = IF since_send < MinInterval THEN since_send + 1 ELSE since_send
  /\ UNCHANGED <<store, fields, pc, signalled, pass, interval, history>>
-----------------------------------------------------------------------------
Worker ==
  \/ RunTop
  \/ WakeFromSleep
  \/ WakeFromIdle
  \/ WakeFromSchedule
  \/ SendAllEnvelopes
  \/ TakeNextEnvelopeHolder
  \/ SendSucceeds
  \/ EnvelopeDropped
  \/ SendFails
  \/ ReturnEnvelopeHolder
  \/ SendCallbacksAfterPass
  \/ ScheduleNextSend

Client ==
  \/ Start
  \/ \E o \in Obs : AddObservation(o) \/ NotifyObservationsAdded(o)
  \/ RequestSendSoon
  \/ \E c \in Callbacks : RequestSendSoonWithCallback(c)
  \/ \E disable \in BOOLEAN : Disable(disable)
  \/ ShutDown

Next == Worker \/ Client \/ SpuriousWakeup \/ Tick

Spec == Init /\ [][Next]_vars

(* The worker thread runs, time passes, and a client that has stored an     *)
(* Observation goes on to notify.  Nothing makes clients call.              *)
FairSpec ==
  /\ Spec
  /\ WF_vars(Worker)
  /\ WF_vars(Tick)
  /\ \A o \in Obs : WF_vars(NotifyObservationsAdded(o))
-----------------------------------------------------------------------------
(* WaitUntilIdle() trusts `idle`: whenever it is true the worker holds no   *)
(* Envelope outside the store and is parked, or was never started.          *)
NothingInFlightWhenIdle ==
  idle => inflight = {} /\ pc \in {"unstarted", "idle_wait"}

(* And with uploading enabled, a parked worker has sent everything whose    *)
(* NotifyObservationsAdded() call is over.                                  *)
IdleMeansSent ==
  idle /\ pc = "idle_wait" /\ ~is_disabled => pending \subseteq unnotified

(* So WaitUntilIdle() returns when there is nothing left to wait for.       *)
IdleIsDone == NothingInFlightWhenIdle /\ IdleMeansSent

(* No lost wakeup: a waiting worker that some client gave a reason to go on *)
(* has been notified, whatever the order of the clients' lock sections and  *)
(* their unlocked writes to the store.                                      *)
NoLostWakeup ==
  /\ pc = "idle_wait" /\ (shut_down \/ ~idle) => signalled
  /\ pc = "schedule_wait" /\ (shut_down \/ expedited_send_requested) => signalled

(* UploadScheduler: the manager "will never perform two sends within a      *)
(* single period of min_interval seconds", however the expedited requests   *)
(* and the schedule fall.                                                   *)
MinIntervalRespected == pc = "send_start" => since_send >= MinInterval

(* A SendCallback told true: all Observations that were in the store when   *)
(* it was registered have been sent.  Excused are SendCallbacks registered  *)
(* after a pass has seen the store empty and before it invokes the queue,   *)
(* those told while uploading is disabled, and those whose Observations     *)
(* were dropped.                                                            *)
TrueMeansSent ==
  \A c \in Callbacks \ excused : answer[c] = "true" => owed[c] = {}

(* What holds the above together: no Observation is both in the store and   *)
(* with the worker, which has an Envelope just while it sends and gives up  *)
(* after three failures; since the last pass the worker has slept for       *)
(* MinInterval or is still going to.                                        *)
WorkerInv ==
  /\ TypeOK
  /\ pending \cap inflight = {}
  /\ inflight = {} <=> pc \notin {"sending", "return"}
  /\ pc \in {"sending", "take"} => failures_without_success < kMaxFailuresWithoutSuccess
  /\ pc = "return" => ~success
  /\ pc = "min_sleep" => sleeping + since_send >= MinInterval
  /\ pc # "unstarted" /\ waiting_for_schedule => pc = "schedule_wait"
  /\ shut_down => pc # "unstarted"

(* The SendCallbacks in the queue are those not yet told, what is owed to   *)
(* them is still unsent, and nothing is once a pass has ended well.         *)
CallbackInv ==
  /\ \A c \in Callbacks : c \in send_callback_queue <=> answer[c] = "queued"
  /\ \A c \in Callbacks \ excused : owed[c] \subseteq pending \cup inflight
  /\ pc = "callbacks" /\ success =>
       \A c \in send_callback_queue \ excused : owed[c] = {}

Inv ==
  /\ WorkerInv
  /\ CallbackInv
  /\ NothingInFlightWhenIdle
  /\ IdleMeansSent
  /\ NoLostWakeup
  /\ MinIntervalRespected
  /\ TrueMeansSent

(* RequestSendSoon in the header: the SendCallback "will be invoked with    *)
(* true if all such Observations were succesfully sent".                    *)
TrueMeansAllSent == \A c \in Callbacks : answer[c] = "true" => owed[c] = {}

(* From some time on no client adds Observations.                           *)
AddingStops == <>[][\A o \in Obs : ~AddObservation(o)]_vars

(* Once clients pause adding, each queued SendCallback is invoked, even if  *)
(* every send fails, unless uploading is disabled or the manager destroyed. *)
CallbacksAnswered ==
  AddingStops =>
    \A c \in Callbacks :
      c \in send_callback_queue /\ pc # "unstarted" ~>
        c \notin send_callback_queue \/ is_disabled \/ shut_down

(* The destructor's join() returns: the worker always sees the shut-down.   *)
WorkerExits == shut_down ~> pc = "exited"

(* The backend does not refuse every Envelope for ever.                     *)
BackendRecovers == []<><<SendSucceeds>>_vars \/ <>[](pc # "sending")

(* Every Observation is sent in the end and the worker then parks, provided *)
(* that clients pause, uploading stays enabled and the backend recovers.    *)
EverythingSent ==
  /\ AddingStops
  /\ BackendRecovers
  /\ <>[](pc # "unstarted" /\ ~is_disabled /\ ~shut_down)
  => []<>(pending = {} /\ idle)
-----------------------------------------------------------------------------
Store == INSTANCE ObservationStore

(* The worker and its clients use the store as its interface says: one      *)
(* Envelope is out at a time, it is returned whole or destroyed, and what   *)
(* is out is not in the store.                                              *)
StoreProtocol == Store!Spec
=============================================================================
