-------------------- MODULE EventAggregatorManagerProofs --------------------
(***************************************************************************)
(* Proofs about EventAggregatorManager: for any reports, events and days,  *)
(* whatever fails and whenever the process restarts, what DeleteData       *)
(* deleted leaves the disk too, and a store that was disabled and deleted  *)
(* stays empty.                                                            *)
(***************************************************************************)
EXTENDS EventAggregatorManager, TLAPS

StoreFields == {"version", "by_report_key", "epoch"}
HistoryFields == {"last", "epoch"}
Pcs == {"none", "new", "wait", "copy", "write", "wake", "tasks", "gen", "gc", "exited"}
Workers == [pc : Pcs, what : {"agg", "hist"}, ret : Pcs, ok : SUBSET {"agg", "hist"}, day : Int]
Fields == IF worker.what = "agg" THEN StoreFields ELSE HistoryFields

ShapeInv ==
  /\ DOMAIN store = StoreFields /\ DOMAIN obs_history = HistoryFields
  /\ disk = [agg |-> disk.agg, hist |-> disk.hist]
  /\ disk.agg # NotFound => DOMAIN disk.agg = StoreFields
  /\ disk.hist # NotFound => DOMAIN disk.hist = HistoryFields
  /\ worker \in Workers /\ today \in Int
  /\ ctl \in [shut_down : BOOLEAN, back_up_now : BOOLEAN]
  /\ worker.pc = "write" => DOMAIN buffer = Fields

(* The worker writes what is there now, unless it was just deleted: then   *)
(* TriggerBackups, which waits for the worker, is still to come, or asks   *)
(* for the next round of backups.                                          *)
Copied == IF worker.what = "agg" THEN store.epoch ELSE obs_history.epoch
BackingUp(what) == worker.pc \in {"copy", "write"} /\ worker.what = what

EpochInv ==
  /\ BackingUp("agg") => worker.ret \in {"wake", "exited", "wait"}
  /\ BackingUp("hist") => worker.ret \in {"exited", "tasks", "gc"}
  /\ deleter = "idle" =>
       /\ worker.pc = "write" => buffer.epoch = Copied
       /\ "agg" \in worker.ok /\ (~ctl.back_up_now \/ worker.pc = "wake") => disk.agg.epoch = store.epoch
       /\ "hist" \in worker.ok /\ ~ctl.back_up_now /\ ~BackingUp("hist") => disk.hist.epoch = obs_history.epoch

DiskInv == ShapeInv /\ EpochInv

EmptyInv == quiet =>
  /\ is_disabled /\ pending = NotFound
  /\ \A r \in DOMAIN store.by_report_key :
       "log" \in DOMAIN store.by_report_key[r] /\ store.by_report_key[r].log = << >>
-----------------------------------------------------------------------------
LEMMA UpgradeShape ==
  ASSUME NEW s, DOMAIN s = StoreFields
  PROVE  DOMAIN MaybeUpgradeLocalAggregateStore(s) = StoreFields
<1>1. CASE s.version = kCurrentLocalAggregateStoreVersion
  BY <1>1 DEF MaybeUpgradeLocalAggregateStore
<1>2. CASE s.version # kCurrentLocalAggregateStoreVersion /\ s.version = 0
  <2> DEFINE up == [r \in DOMAIN s.by_report_key |-> UpgradedFromVersion0(s.by_report_key[r])]
             v == [s EXCEPT !.version = kCurrentLocalAggregateStoreVersion]
             w == [v EXCEPT !.by_report_key = up]
  <2>1. MaybeUpgradeLocalAggregateStore(s) = w
    BY <1>2 DEF MaybeUpgradeLocalAggregateStore, kCurrentLocalAggregateStoreVersion
  <2>2. DOMAIN v = StoreFields
    OBVIOUS
  <2> HIDE DEF v, up
  <2>3. DOMAIN w = StoreFields
    BY <2>2
  <2> QED BY <2>1, <2>3
<1>3. CASE s.version # kCurrentLocalAggregateStoreVersion /\ s.version # 0
  BY <1>3 DEF MaybeUpgradeLocalAggregateStore, MakeNewLocalAggregateStore, StoreFields
<1> QED BY <1>1, <1>2, <1>3

LEMMA InitShape == Init => ShapeInv
<1> SUFFICES ASSUME Init PROVE ShapeInv
  OBVIOUS
<1>1. DOMAIN OldStore = StoreFields
  BY DEF OldStore, StoreFields
<1>2. disk = [agg |-> IF budget.old THEN OldStore ELSE NotFound, hist |-> NotFound]
  BY DEF Init
<1>3. disk.agg # NotFound => DOMAIN disk.agg = StoreFields
  BY <1>1, <1>2
<1>4. DOMAIN store = StoreFields
  BY <1>3, UpgradeShape DEF Init, MakeNewLocalAggregateStore, StoreFields
<1>5. DOMAIN obs_history = HistoryFields
  BY DEF Init, MakeNewObservationHistoryStore, HistoryFields
<1>6. worker \in Workers /\ worker.pc = "none" /\ ctl \in [shut_down : BOOLEAN, back_up_now : BOOLEAN]
  BY DEF Init, Workers, Pcs, NoWorker, NoController
<1> QED BY <1>2, <1>3, <1>4, <1>5, <1>6, FirstDayAssumption DEF Init, ShapeInv
-----------------------------------------------------------------------------
(* What the steps do to the worker's fields.                               *)
LEMMA GoToFacts ==
  ASSUME worker \in Workers, NEW pc \in Pcs, GoTo(pc)
  PROVE  /\ worker' \in Workers /\ worker'.pc = pc
         /\ worker'.what = worker.what /\ worker'.ret = worker.ret /\ worker'.ok = worker.ok
BY DEF GoTo, Workers

LEMMA BackUpFacts ==
  ASSUME worker \in Workers, NEW what \in {"agg", "hist"}, NEW ret \in Pcs, BackUp(what, ret)
  PROVE  /\ worker' \in Workers /\ worker'.pc = "copy"
         /\ worker'.what = what /\ worker'.ret = ret /\ worker'.ok = worker.ok
<1> DEFINE p == [worker EXCEPT !.pc = "copy"]
           w == [p EXCEPT !.what = what]
<1>1. worker' = [w EXCEPT !.ret = ret]
  BY DEF BackUp
<1>2. p \in Workers /\ p.pc = "copy" /\ p.ok = worker.ok
  BY DEF Workers, Pcs
<1> HIDE DEF p
<1>3. w \in Workers /\ w.pc = "copy" /\ w.what = what /\ w.ok = worker.ok
  BY <1>2 DEF Workers
<1> HIDE DEF w
<1> QED BY <1>1, <1>3 DEF Workers

LEMMA WrittenFacts ==
  ASSUME worker \in Workers, NEW ok \in SUBSET {"agg", "hist"}
  PROVE  /\ [NoWorker EXCEPT !.pc = worker.ret, !.ok = ok, !.day = worker.day] \in Workers
         /\ [NoWorker EXCEPT !.pc = worker.ret, !.ok = ok, !.day = worker.day].pc = worker.ret
         /\ [NoWorker EXCEPT !.pc = worker.ret, !.ok = ok, !.day = worker.day].ok = ok
         /\ [NoWorker EXCEPT !.pc = worker.ret, !.ok = ok, !.day = worker.day].what = "agg"
<1> DEFINE p == [NoWorker EXCEPT !.pc = worker.ret]
           w == [p EXCEPT !.ok = ok]
           x == [w EXCEPT !.day = worker.day]
<1>0. worker.ret \in Pcs /\ worker.day \in Int
  BY DEF Workers
<1>1. p \in Workers /\ p.pc = worker.ret /\ p.what = "agg"
  BY <1>0 DEF NoWorker, Workers, Pcs
<1>2. x = [NoWorker EXCEPT !.pc = worker.ret, !.ok = ok, !.day = worker.day]
  OBVIOUS
<1> HIDE DEF p
<1>3. w \in Workers /\ w.pc = worker.ret /\ w.what = "agg" /\ w.ok = ok
  BY <1>1 DEF Workers
<1> HIDE DEF w
<1>4. x \in Workers /\ x.pc = worker.ret /\ x.what = "agg" /\ x.ok = ok
  BY <1>0, <1>3 DEF Workers
<1> HIDE DEF x
<1> QED BY <1>2, <1>4

(* Logging, collecting garbage and recording what was generated keep the   *)
(* shape and the epoch of the stores.                                      *)
LEMMA RecordedFacts ==
  ASSUME DOMAIN obs_history = HistoryFields, Recorded
  PROVE  DOMAIN obs_history' = HistoryFields /\ obs_history'.epoch = obs_history.epoch
BY DEF Recorded, SetLastGeneratedDayIndex, HistoryFields

LEMMA StepFacts ==
  ASSUME DOMAIN obs_history = HistoryFields, NextUnit \/ WriteObservation \/ WriteObservationFails
  PROVE  /\ DOMAIN obs_history' = HistoryFields /\ obs_history'.epoch = obs_history.epoch
         /\ UNCHANGED <<store, empty, is_disabled, disk>>
BY RecordedFacts DEF NextUnit, WriteObservation, WriteObservationFails

LEMMA LoggedFacts ==
  ASSUME DOMAIN store = StoreFields, LogEventLocked
  PROVE  DOMAIN store' = StoreFields /\ store'.epoch = store.epoch
BY DEF LogEventLocked, UpdateAggregate, StoreFields

LEMMA CollectedFacts ==
  ASSUME DOMAIN store = StoreFields, NEW u, NEW l, GarbageCollect(u, l)
  PROVE  DOMAIN store' = StoreFields /\ store'.epoch = store.epoch
BY DEF GarbageCollect, StoreFields

LEMMA NewLoggerFacts ==
  ASSUME DOMAIN store = StoreFields, NewLogger
  PROVE  DOMAIN store' = StoreFields /\ store'.epoch = store.epoch
BY DEF NewLogger, UpdateAggregationConfigs, StoreFields
-----------------------------------------------------------------------------
(* The steps that touch neither the disk nor the worker.                   *)
LEMMA ClientStep ==
  ASSUME DiskInv, UNCHANGED <<disk, worker, buffer>>,
         DOMAIN store' = StoreFields, DOMAIN obs_history' = HistoryFields,
         today' \in Int, ctl' \in [shut_down : BOOLEAN, back_up_now : BOOLEAN],
         deleter' = "idle" =>
           \/ deleter' = deleter /\ ctl'.back_up_now = ctl.back_up_now
              /\ store'.epoch = store.epoch /\ obs_history'.epoch = obs_history.epoch
           \/ ctl'.back_up_now /\ LockFree
  PROVE  DiskInv'
<1>1. ShapeInv'
  BY DEF DiskInv, ShapeInv, Fields
<1>2. EpochInv'
  BY DEF DiskInv, ShapeInv, EpochInv, Copied, BackingUp, LockFree
<1> QED BY <1>1, <1>2 DEF DiskInv

(* The steps of the worker that touch neither the disk nor the stores'     *)
(* epochs, and end neither a backup nor the wait for one.                  *)
LEMMA WorkerGoesOn ==
  ASSUME DiskInv, UNCHANGED <<disk, deleter, today, ctl>>,
         worker.pc \notin {"copy", "write", "wake"},
         DOMAIN store' = StoreFields, DOMAIN obs_history' = HistoryFields,
         store'.epoch = store.epoch, obs_history'.epoch = obs_history.epoch,
         worker' \in Workers, worker'.ok = worker.ok, worker'.pc \notin {"write", "wake"},
         BackingUp("agg")' => worker'.ret \in {"wake", "exited", "wait"},
         BackingUp("hist")' => worker'.ret \in {"exited", "tasks", "gc"}
  PROVE  DiskInv'
<1>1. ShapeInv'
  BY DEF DiskInv, ShapeInv, Fields
<1>2. EpochInv'
  BY DEF DiskInv, ShapeInv, EpochInv, Copied, BackingUp
<1> QED BY <1>1, <1>2 DEF DiskInv

LEMMA CopyStep ==
  ASSUME DiskInv, CopyForBackUp
  PROVE  DiskInv'
<1>1. /\ worker \in Workers /\ worker.pc = "copy" /\ "write" \in Pcs
      /\ buffer' = (IF worker.what = "agg" THEN store ELSE obs_history)
      /\ UNCHANGED <<disk, store, obs_history, ctl, deleter, today>>
  BY DEF CopyForBackUp, svars, Others, DiskInv, ShapeInv, Pcs
<1>2. /\ worker' \in Workers /\ worker'.pc = "write"
      /\ worker'.what = worker.what /\ worker'.ret = worker.ret /\ worker'.ok = worker.ok
  BY <1>1, GoToFacts DEF CopyForBackUp
<1>3. ShapeInv'
  BY <1>1, <1>2 DEF DiskInv, ShapeInv, Fields
<1>4. EpochInv'
  BY <1>1, <1>2 DEF DiskInv, ShapeInv, EpochInv, Copied, BackingUp
<1> QED BY <1>3, <1>4 DEF DiskInv

LEMMA WriteStep ==
  ASSUME DiskInv, WriteBackUp
  PROVE  DiskInv'
<1>0. /\ worker \in Workers /\ worker.pc = "write" /\ DOMAIN buffer = Fields
      /\ worker.what \in {"agg", "hist"} /\ worker.ok \in SUBSET {"agg", "hist"}
      /\ disk = [agg |-> disk.agg, hist |-> disk.hist]
      /\ UNCHANGED <<store, obs_history, ctl, deleter, today>>
  BY DEF WriteBackUp, Others, DiskInv, ShapeInv, Workers
<1>1. CASE /\ disk' = [disk EXCEPT ![worker.what] = buffer]
           /\ worker' = [NoWorker EXCEPT !.pc = worker.ret, !.ok = worker.ok \cup {worker.what}, !.day = worker.day]
  <2>1. worker' \in Workers /\ worker'.pc = worker.ret /\ worker'.ok = worker.ok \cup {worker.what} /\ worker'.what = "agg"
    BY <1>0, <1>1, WrittenFacts
  <2>2. CASE worker.what = "agg"
    <3>1. disk' = [agg |-> buffer, hist |-> disk.hist]
      BY <1>0, <1>1, <2>2
    <3>2. disk'.agg = buffer /\ disk'.hist = disk.hist /\ disk' = [agg |-> disk'.agg, hist |-> disk'.hist]
      BY <3>1
    <3>3. worker.ret \in {"wake", "exited", "wait"}
      BY <1>0, <2>2 DEF DiskInv, EpochInv, BackingUp
    <3>4. ShapeInv'
      BY <1>0, <2>1, <2>2, <3>2, <3>3 DEF DiskInv, ShapeInv, Fields
    <3>5. deleter = "idle" => buffer.epoch = store.epoch
      BY <1>0, <2>2 DEF DiskInv, EpochInv, Copied
    <3>6. ~BackingUp("hist") /\ worker'.pc \notin {"copy", "write"}
      BY <2>1, <2>2, <3>3 DEF BackingUp
    <3>7. EpochInv'
      BY <1>0, <2>1, <3>2, <3>5, <3>6 DEF DiskInv, EpochInv, BackingUp
    <3> QED BY <3>4, <3>7 DEF DiskInv
  <2>3. CASE worker.what = "hist"
    <3>1. disk' = [agg |-> disk.agg, hist |-> buffer]
      BY <1>0, <1>1, <2>3
    <3>2. disk'.hist = buffer /\ disk'.agg = disk.agg /\ disk' = [agg |-> disk'.agg, hist |-> disk'.hist]
      BY <3>1
    <3>3. worker.ret \in {"exited", "tasks", "gc"}
      BY <1>0, <2>3 DEF DiskInv, EpochInv, BackingUp
    <3>4. ShapeInv'
      BY <1>0, <2>1, <2>3, <3>2, <3>3 DEF DiskInv, ShapeInv, Fields
    <3>5. EpochInv'
      BY <1>0, <2>1, <2>3, <3>2, <3>3 DEF DiskInv, ShapeInv, EpochInv, Copied, BackingUp
    <3> QED BY <3>4, <3>5 DEF DiskInv
  <2> QED BY <1>0, <2>2, <2>3
<1>2. CASE /\ UNCHANGED disk
           /\ worker' = [NoWorker EXCEPT !.pc = worker.ret, !.ok = worker.ok \ {worker.what}, !.day = worker.day]
  <2>1. worker' \in Workers /\ worker'.pc = worker.ret /\ worker'.ok = worker.ok \ {worker.what} /\ worker'.what = "agg"
    BY <1>0, <1>2, WrittenFacts
  <2>2. worker'.pc \notin {"copy", "write"} /\ (worker'.pc = "wake" => worker.what = "agg")
    BY <1>0, <2>1 DEF DiskInv, EpochInv, BackingUp
  <2>3. ShapeInv'
    BY <1>0, <1>2, <2>1, <2>2 DEF DiskInv, ShapeInv, Fields
  <2>4. EpochInv'
    BY <1>0, <1>2, <2>1, <2>2 DEF DiskInv, EpochInv, BackingUp
  <2> QED BY <2>3, <2>4 DEF DiskInv
<1> QED BY <1>1, <1>2 DEF WriteBackUp

LEMMA AfterWakeStep ==
  ASSUME DiskInv, AfterWake
  PROVE  DiskInv'
<1>0. /\ worker \in Workers /\ worker.pc = "wake" /\ AfterBackUp \in {"exited", "tasks"} /\ AfterBackUp \in Pcs
      /\ ctl \in [shut_down : BOOLEAN, back_up_now : BOOLEAN] /\ ctl' = [ctl EXCEPT !.back_up_now = FALSE]
      /\ UNCHANGED <<store, obs_history, disk, deleter, today>>
  BY DEF AfterWake, AfterBackUp, svars, Others, DiskInv, ShapeInv, Pcs
<1>1. ctl' \in [shut_down : BOOLEAN, back_up_now : BOOLEAN] /\ ctl'.back_up_now = FALSE
  BY <1>0
<1>2. /\ worker' \in Workers /\ worker'.ok = worker.ok
      /\ \/ ctl.back_up_now /\ worker'.pc = "copy" /\ worker'.what = "hist" /\ worker'.ret = AfterBackUp
         \/ ~ctl.back_up_now /\ worker'.pc = AfterBackUp
  BY <1>0, GoToFacts, BackUpFacts DEF AfterWake
<1>3. ShapeInv'
  BY <1>0, <1>1, <1>2 DEF DiskInv, ShapeInv, Fields
<1>4. EpochInv'
  BY <1>0, <1>1, <1>2 DEF DiskInv, ShapeInv, EpochInv, Copied, BackingUp
<1> QED BY <1>3, <1>4 DEF DiskInv

LEMMA RestartStep ==
  ASSUME DiskInv, Restart
  PROVE  DiskInv'
<1>1. /\ worker' = NoWorker /\ ctl' = NoController /\ UNCHANGED <<today, disk>>
      /\ \/ store' = MaybeUpgradeLocalAggregateStore(disk.agg) /\ disk.agg # NotFound
         \/ store' = MakeNewLocalAggregateStore
      /\ \/ obs_history' = disk.hist /\ disk.hist # NotFound
         \/ obs_history' = MakeNewObservationHistoryStore
  BY DEF Restart, Construct
<1>2. DOMAIN store' = StoreFields
  BY <1>1, UpgradeShape DEF DiskInv, ShapeInv, MakeNewLocalAggregateStore, StoreFields
<1>3. DOMAIN obs_history' = HistoryFields
  BY <1>1 DEF DiskInv, ShapeInv, MakeNewObservationHistoryStore, HistoryFields
<1>4. /\ worker' \in Workers /\ worker'.pc = "none" /\ worker'.ok = {}
      /\ ctl' \in [shut_down : BOOLEAN, back_up_now : BOOLEAN]
  BY <1>1 DEF NoWorker, NoController, Workers, Pcs
<1>5. ShapeInv'
  BY <1>1, <1>2, <1>3, <1>4 DEF DiskInv, ShapeInv
<1>6. EpochInv'
  BY <1>4 DEF EpochInv, BackingUp
<1> QED BY <1>5, <1>6 DEF DiskInv

LEMMA DiskStep == DiskInv /\ [Next]_vars => DiskInv'
<1> SUFFICES ASSUME DiskInv, [Next]_vars PROVE DiskInv'
  OBVIOUS
<1> USE DEF Pcs
<1>0. /\ DOMAIN store = StoreFields /\ DOMAIN obs_history = HistoryFields /\ worker \in Workers /\ today \in Int
      /\ ctl \in [shut_down : BOOLEAN, back_up_now : BOOLEAN]
  BY DEF DiskInv, ShapeInv
<1>1. CASE RunBegins
  <2>1. /\ worker' \in Workers /\ worker'.ok = worker.ok /\ worker'.pc \in {"copy", "wait"}
        /\ worker'.pc = "copy" => worker'.what = "agg" /\ worker'.ret = "exited"
    BY <1>0, <1>1, GoToFacts, BackUpFacts DEF RunBegins
  <2> QED BY <1>0, <1>1, <2>1, WorkerGoesOn DEF RunBegins, svars, Others, BackingUp
<1>2. CASE Wake
  <2>1. /\ worker' \in Workers /\ worker'.ok = worker.ok /\ worker'.pc = "copy"
        /\ worker'.what = "agg" /\ worker'.ret = "wake"
    BY <1>0, <1>2, BackUpFacts DEF Wake
  <2> QED BY <1>0, <1>2, <2>1, WorkerGoesOn DEF Wake, svars, Others, BackingUp
<1>3. CASE CopyForBackUp
  BY <1>3, CopyStep
<1>4. CASE WriteBackUp
  BY <1>4, WriteStep
<1>5. CASE AfterWake
  BY <1>5, AfterWakeStep
<1>6. CASE GenerateObservations
  <2> DEFINE p(x) == [worker EXCEPT !.pc = x]
  <2>1. PICK x \in {"gen", "gc"} : worker' = [p(x) EXCEPT !.day = today]
    BY <1>6 DEF GenerateObservations
  <2>2. p(x) \in Workers /\ p(x).pc = x /\ p(x).ok = worker.ok
    BY <1>0 DEF Workers
  <2> HIDE DEF p
  <2>3. worker' \in Workers /\ worker'.ok = worker.ok /\ worker'.pc = x
    BY <1>0, <2>1, <2>2 DEF Workers
  <2>4. worker.pc = "tasks" /\ UNCHANGED <<disk, store, obs_history, ctl, deleter, today>>
    BY <1>6 DEF GenerateObservations, BeginGeneration, svars, Others
  <2> QED BY <1>0, <2>3, <2>4, WorkerGoesOn DEF BackingUp
<1>7. CASE GenerateStep
  <2>1. DOMAIN obs_history' = HistoryFields /\ obs_history'.epoch = obs_history.epoch /\ UNCHANGED <<store, disk>>
    BY <1>0, <1>7, StepFacts DEF GenerateStep
  <2>2. worker.pc = "gen" /\ UNCHANGED <<worker, ctl, deleter, today>>
    BY <1>7 DEF GenerateStep, Others
  <2> QED BY <1>0, <2>1, <2>2, WorkerGoesOn DEF BackingUp
<1>8. CASE GenerateEnds
  <2>1. /\ worker' \in Workers /\ worker'.ok = worker.ok /\ worker'.pc \in {"copy", "gc"}
        /\ worker'.pc = "copy" => worker'.what = "hist" /\ worker'.ret = "gc"
    BY <1>0, <1>8, GoToFacts, BackUpFacts DEF GenerateEnds
  <2> QED BY <1>0, <1>8, <2>1, WorkerGoesOn DEF GenerateEnds, svars, Others, BackingUp
<1>9. CASE CollectGarbage
  <2>1. worker.pc = "gc" /\ UNCHANGED <<disk, obs_history, ctl, deleter, today>>
    BY <1>9 DEF CollectGarbage, GarbageCollect, svars, Others
  <2>2. DOMAIN store' = StoreFields /\ store'.epoch = store.epoch
    BY <1>0, <1>9, CollectedFacts DEF CollectGarbage, svars
  <2>3. CASE worker' = [worker EXCEPT !.pc = "wait", !.day = 0]
    <3> DEFINE p == [worker EXCEPT !.pc = "wait"]
    <3>1. worker' = [p EXCEPT !.day = 0]
      BY <2>3
    <3>2. p \in Workers /\ p.pc = "wait" /\ p.ok = worker.ok
      BY <1>0 DEF Workers
    <3> HIDE DEF p
    <3>3. worker' \in Workers /\ worker'.pc = "wait" /\ worker'.ok = worker.ok
      BY <3>1, <3>2 DEF Workers
    <3> QED BY <1>0, <2>1, <2>2, <3>3, WorkerGoesOn DEF BackingUp
  <2>4. CASE worker' = [worker EXCEPT !.pc = "copy", !.what = "agg", !.ret = "wait", !.day = 0]
    <3> DEFINE p == [worker EXCEPT !.pc = "copy"]
               w == [p EXCEPT !.what = "agg"]
               x == [w EXCEPT !.ret = "wait"]
    <3>1. worker' = [x EXCEPT !.day = 0]
      BY <2>4
    <3>2. p \in Workers /\ p.pc = "copy" /\ p.ok = worker.ok
      BY <1>0 DEF Workers
    <3> HIDE DEF p
    <3>3. w \in Workers /\ w.pc = "copy" /\ w.ok = worker.ok /\ w.what = "agg"
      BY <3>2 DEF Workers
    <3> HIDE DEF w
    <3>4. x \in Workers /\ x.pc = "copy" /\ x.ok = worker.ok /\ x.what = "agg" /\ x.ret = "wait"
      BY <3>3 DEF Workers
    <3> HIDE DEF x
    <3>5. /\ worker' \in Workers /\ worker'.pc = "copy" /\ worker'.ok = worker.ok
          /\ worker'.what = "agg" /\ worker'.ret = "wait"
      BY <3>1, <3>4 DEF Workers
    <3> QED BY <1>0, <2>1, <2>2, <3>5, WorkerGoesOn DEF BackingUp
  <2> QED BY <1>9, <2>3, <2>4 DEF CollectGarbage
<1>10. CASE NewLogger
  BY <1>0, <1>10, NewLoggerFacts, ClientStep DEF NewLogger, UpdateAggregationConfigs, mvars
<1>11. CASE LogEvent
  BY <1>0, <1>11, ClientStep DEF LogEvent
<1>12. CASE LogEventLocked
  BY <1>0, <1>12, LoggedFacts, ClientStep DEF LogEventLocked, UpdateAggregate
<1>13. CASE SetDisabled
  BY <1>0, <1>13, ClientStep DEF SetDisabled, Disable
<1>14. CASE DeleteData
  <2>1. DOMAIN store' = StoreFields
    BY <1>14 DEF DeleteData, DeleteAggregates, StoreFields
  <2> QED BY <1>0, <1>14, <2>1, ClientStep DEF DeleteData, DeleteAggregates
<1>15. CASE DeleteDataHistory
  <2>1. DOMAIN obs_history' = HistoryFields
    BY <1>15 DEF DeleteDataHistory, DeleteHistory, MakeNewObservationHistoryStore, HistoryFields
  <2> QED BY <1>0, <1>15, <2>1, ClientStep DEF DeleteDataHistory, DeleteHistory
<1>16. CASE TriggerBackups
  <2>1. ctl' \in [shut_down : BOOLEAN, back_up_now : BOOLEAN] /\ ctl'.back_up_now
    BY <1>0, <1>16 DEF TriggerBackups
  <2> QED BY <1>0, <1>16, <2>1, ClientStep DEF TriggerBackups, svars
<1>17. CASE Start
  <2>1. worker' = [pc |-> "new", what |-> "agg", ret |-> "wake", ok |-> {}, day |-> 0]
        /\ ctl' = [ctl EXCEPT !.shut_down = FALSE] /\ UNCHANGED <<store, obs_history, disk, today>>
    BY <1>17 DEF Start, NoWorker, svars
  <2>2. /\ worker' \in Workers /\ worker'.pc = "new" /\ worker'.ok = {}
    BY <2>1 DEF Workers
  <2>3. ctl' \in [shut_down : BOOLEAN, back_up_now : BOOLEAN]
    BY <1>0, <2>1
  <2>4. ShapeInv'
    BY <2>1, <2>2, <2>3 DEF DiskInv, ShapeInv
  <2>5. EpochInv'
    BY <2>2 DEF EpochInv, BackingUp
  <2> QED BY <2>4, <2>5 DEF DiskInv
<1>18. CASE ShutDown
  <2>1. ctl' \in [shut_down : BOOLEAN, back_up_now : BOOLEAN] /\ ctl'.back_up_now = ctl.back_up_now
    BY <1>0, <1>18 DEF ShutDown
  <2> QED BY <1>0, <1>18, <2>1, ClientStep DEF ShutDown, svars
<1>19. CASE NextDay
  BY <1>0, <1>19, ClientStep DEF NextDay
<1>20. CASE Restart
  BY <1>20, RestartStep
<1>21. CASE UNCHANGED vars
  BY <1>0, <1>21, ClientStep DEF vars, svars, mvars
<1> QED BY <1>1, <1>2, <1>3, <1>4, <1>5, <1>6, <1>7, <1>8, <1>9, <1>10, <1>11, <1>12, <1>13, <1>14,
           <1>15, <1>16, <1>17, <1>18, <1>19, <1>20, <1>21 DEF Next, WorkerStep

(* Once DeleteData has returned and the worker has answered its request,    *)
(* neither proto store whose last write succeeded holds what was deleted,   *)
(* for any interleaving with the worker's copies and writes.                *)
THEOREM DeletionReachesDisk == Spec => []DeletedIsErased
<1>1. Init => EpochInv
  BY DEF Init, NoWorker, EpochInv, BackingUp
<1>2. Init => DiskInv
  BY <1>1, InitShape DEF DiskInv
<1>3. DiskInv => DeletedIsErased
  BY DEF DiskInv, ShapeInv, EpochInv, BackingUp, DeletedIsErased
<1> QED BY <1>2, <1>3, DiskStep, PTL DEF Spec
-----------------------------------------------------------------------------
(* Garbage collection keeps the log of each entry, and a new logger adds   *)
(* entries without events.                                                 *)
LEMMA CollectedKeepsLogs ==
  ASSUME DOMAIN store = StoreFields, NEW u, NEW l, GarbageCollect(u, l),
         NEW r \in DOMAIN store'.by_report_key
  PROVE  /\ r \in DOMAIN store.by_report_key
         /\ DOMAIN store'.by_report_key[r] = DOMAIN store.by_report_key[r]
         /\ "log" \in DOMAIN store.by_report_key[r] => store'.by_report_key[r].log = store.by_report_key[r].log
<1> DEFINE by == store.by_report_key
           kept(e, day) == GarbageCollectReportAggregates(e.data, day, MaxAggregationDays(e.config))
           collected(e) == LET day == FinalDayIndex(e.config, u, l)
                           IN  IF day = 0 THEN e ELSE [e EXCEPT !.data = kept(e, day)]
<1>1. store' = [store EXCEPT !.by_report_key = [x \in DOMAIN by |-> collected(by[x])]]
  BY DEF GarbageCollect
<1> HIDE DEF kept
<1>2. \A e : DOMAIN collected(e) = DOMAIN e /\ ("log" \in DOMAIN e => collected(e).log = e.log)
  OBVIOUS
<1> HIDE DEF collected
<1>3. store'.by_report_key = [x \in DOMAIN by |-> collected(by[x])]
  BY <1>1 DEF StoreFields
<1> QED BY <1>2, <1>3

LEMMA NewEntriesAreEmpty ==
  ASSUME DOMAIN store = StoreFields, UpdateAggregationConfigs, NEW r \in DOMAIN store'.by_report_key
  PROVE  \/ r \in DOMAIN store.by_report_key /\ store'.by_report_key[r] = store.by_report_key[r]
         \/ "log" \in DOMAIN store'.by_report_key[r] /\ store'.by_report_key[r].log = << >>
<1> DEFINE keys == {i \in AcceptedReports : IsAggregated(Registry[i][2])}
           configs == [q \in {Registry[i][1] : i \in keys} |->
                         PopulateReportAggregates(Registry[CHOOSE i \in keys : Registry[i][1] = q][2]).config]
           new == [q \in DOMAIN configs |-> NewAggregates(configs[q])]
           by == store.by_report_key
           both == [q \in DOMAIN by \cup DOMAIN new |-> IF q \in DOMAIN by THEN by[q] ELSE new[q]]
<1>1. store' = [store EXCEPT !.by_report_key = both]
  BY DEF UpdateAggregationConfigs
<1>2. \A c : "log" \in DOMAIN NewAggregates(c) /\ NewAggregates(c).log = << >>
  BY DEF NewAggregates
<1> HIDE DEF configs
<1>3. \A q \in DOMAIN new : "log" \in DOMAIN new[q] /\ new[q].log = << >>
  BY <1>2
<1> HIDE DEF new
<1>4. store'.by_report_key = both
  BY <1>1 DEF StoreFields
<1> QED BY <1>3, <1>4

LEMMA EmptyStep == DiskInv /\ EmptyInv /\ [Next]_vars => EmptyInv'
<1> SUFFICES ASSUME DiskInv, EmptyInv, [Next]_vars, quiet' PROVE EmptyInv'
  BY DEF EmptyInv
<1>0. DOMAIN store = StoreFields
  BY DEF DiskInv, ShapeInv
<1>1. CASE UNCHANGED <<store, is_disabled, pending, quiet>>
  BY <1>1 DEF EmptyInv
<1>2. CASE RunBegins \/ Wake \/ CopyForBackUp \/ WriteBackUp \/ AfterWake \/ GenerateObservations \/ GenerateEnds
  BY <1>1, <1>2 DEF RunBegins, Wake, CopyForBackUp, WriteBackUp, AfterWake, GenerateObservations, BeginGeneration,
                    GenerateEnds, svars, Others
<1>3. CASE GenerateStep
  BY <1>1, <1>3 DEF GenerateStep, NextUnit, WriteObservation, WriteObservationFails, Others
<1>4. CASE CollectGarbage
  <2>1. UNCHANGED <<is_disabled, pending, quiet>>
    BY <1>4 DEF CollectGarbage, GarbageCollect, svars, Others
  <2>2. CASE UNCHANGED store
    BY <1>1, <2>1, <2>2
  <2>3. ASSUME NEW u, NEW l, GarbageCollect(u, l) PROVE EmptyInv'
    BY <1>0, <2>1, <2>3, CollectedKeepsLogs DEF EmptyInv
  <2> QED BY <1>4, <2>2, <2>3 DEF CollectGarbage, svars
<1>5. CASE NewLogger
  BY <1>0, <1>5, NewEntriesAreEmpty DEF NewLogger, UpdateAggregationConfigs, mvars, EmptyInv
<1>6. CASE LogEvent
  BY <1>6 DEF LogEvent, EmptyInv
<1>7. CASE LogEventLocked
  BY <1>7 DEF LogEventLocked, EmptyInv
<1>8. CASE SetDisabled
  BY <1>8 DEF SetDisabled, Disable, EmptyInv
<1>9. CASE DeleteData
  <2>1. /\ is_disabled /\ pending = NotFound /\ UNCHANGED <<is_disabled, pending>>
        /\ store'.by_report_key = [r \in DOMAIN empty |-> NewAggregates(empty[r])]
    BY <1>9 DEF DeleteData, DeleteAggregates
  <2>2. \A c : "log" \in DOMAIN NewAggregates(c) /\ NewAggregates(c).log = << >>
    BY DEF NewAggregates
  <2> QED BY <2>1, <2>2 DEF EmptyInv
<1>10. CASE DeleteDataHistory \/ TriggerBackups \/ Start \/ ShutDown \/ NextDay
  BY <1>1, <1>10 DEF DeleteDataHistory, DeleteHistory, TriggerBackups, Start, ShutDown, NextDay, svars
<1>11. CASE Restart
  BY <1>11 DEF Restart
<1>12. CASE UNCHANGED vars
  BY <1>1, <1>12 DEF vars, svars, mvars
<1> QED BY <1>2, <1>3, <1>4, <1>5, <1>6, <1>7, <1>8, <1>9, <1>10, <1>11, <1>12 DEF Next, WorkerStep

(* A store that was disabled and then deleted with no Log... call in flight *)
(* holds no event until it is enabled again, although is_disabled_ is read  *)
(* before the lock is taken.                                                *)
THEOREM DisabledStaysEmpty == Spec => []QuietStaysEmpty
<1>1. Init => DiskInv /\ EmptyInv
  BY InitShape DEF Init, NoWorker, DiskInv, EpochInv, BackingUp, EmptyInv
<1>2. EmptyInv => QuietStaysEmpty
  BY DEF EmptyInv, QuietStaysEmpty
<1> QED BY <1>1, <1>2, DiskStep, EmptyStep, PTL DEF Spec
=============================================================================
