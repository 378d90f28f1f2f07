----------------------- MODULE EventAggregatorManager -----------------------
(***************************************************************************)
(* src/src/local_aggregation/event_aggregator_mgr.cc: the worker thread    *)
(* that backs up the AggregateStore, generates Observations and collects   *)
(* garbage, beside the threads that log events and the one that deletes the*)
(* data.  The worker holds the lock of its controller except while it      *)
(* waits, so TriggerBackups and ShutDown wait for it; logging, Disable and *)
(* the first two steps of DeleteData do not.                               *)
(*                                                                         *)
(* Time is the UTC day; local time is zone days ahead.  Whether a task is  *)
(* due at a wake-up is left open: next_generate_obs_ and next_gc_ run on   *)
(* another clock, in hours.                                                *)
(***************************************************************************)
EXTENDS AggregateStore

CONSTANTS Events,               \* the events a client may log: <<report, code, value>>
          FirstDay, Zones,
          Budgets               \* the bounds a behaviour may be given

ASSUME FirstDayAssumption == FirstDay \in Nat

VARIABLES
  worker,        \* pc, what it backs up, where it goes on, the stores it last wrote
                 \* well, and the day DoScheduledTasks read
  ctl,           \* shut_down and back_up_now
  buffer,        \* the copy BackUp... is writing
  deleter,       \* where the thread in DeleteData is
  pending,       \* a logging call past the test of is_disabled_, or NotFound
  today, zone,
  quiet          \* history: disabled, deleted, and no call in flight since

mvars == <<worker, ctl, buffer, deleter, pending, today, zone, quiet>>
vars == <<svars, mvars>>

LockFree == worker.pc \in {"none", "new", "wait", "exited"}
NoWorker == [pc |-> "none", what |-> "agg", ret |-> "wake", ok |-> {}, day |-> 0]
NoController == [shut_down |-> TRUE, back_up_now |-> FALSE]

(* A store an earlier version of Cobalt may have left behind: the sizes of  *)
(* its windows, sorted, and one event.                                      *)
OldStore ==
  LET days == DayWindows(PopulateReportAggregates(Registry[1][2]).config)
      entry == NewAggregates([report |-> Registry[1][2], windows |-> << >>,
                              window_size |-> [i \in DOMAIN days |-> days[i][2]]])
  IN  [version |-> 0, epoch |-> 0,
       by_report_key |-> (Registry[1][1] :>
          [entry EXCEPT !.data = (<<<<0, 0>>, FirstDay - 1>> :> 1),
                        !.log = (<<<<0, 0>>, FirstDay - 1, 1>> :> 1)])]

Init ==
  /\ budget \in Budgets
  /\ disk = [agg |-> IF budget.old THEN OldStore ELSE NotFound, hist |-> NotFound]
  /\ store = IF disk.agg = NotFound THEN MakeNewLocalAggregateStore
             ELSE MaybeUpgradeLocalAggregateStore(disk.agg)
  /\ obs_history = MakeNewObservationHistoryStore
  /\ empty = << >> /\ is_disabled = FALSE /\ gen = << >>
  /\ written = {} /\ forgotten = {} /\ duplicate = FALSE
  /\ worker = NoWorker /\ ctl = NoController /\ buffer = NotFound
  /\ deleter = "idle" /\ pending = NotFound
  /\ today = FirstDay /\ zone \in Zones /\ quiet = FALSE
-----------------------------------------------------------------------------
(* The clients.                                                             *)
NewLogger ==
  /\ empty = << >>
  /\ UpdateAggregationConfigs
  /\ UNCHANGED mvars

DayIndex(r) == IF empty[r].report.time_zone_policy = "LOCAL" THEN today + zone ELSE today

(* Mutant: is_disabled_ is not read.                                        *)
LogEventUnchecked ==
  /\ pending = NotFound
  /\ Spend("events")
  /\ \E e \in Events : e[1] \in DOMAIN empty /\ pending' = <<e[1], e[2], DayIndex(e[1]), e[3]>>
  /\ UNCHANGED <<store, empty, obs_history, is_disabled, disk, gen, written, forgotten, duplicate>>
  /\ UNCHANGED <<worker, ctl, buffer, deleter, today, zone, quiet>>

(* A Log... call: is_disabled_ is read before the lock is taken.            *)
LogEvent ==
  /\ pending = NotFound /\ ~is_disabled
  /\ Spend("events")
  /\ \E e \in Events :
       /\ e[1] \in DOMAIN empty
       /\ \E late \in {0, 1} : pending' = <<e[1], e[2], DayIndex(e[1]) - late, e[3]>>
  /\ UNCHANGED <<store, empty, obs_history, is_disabled, disk, gen, written, forgotten, duplicate>>
  /\ UNCHANGED <<worker, ctl, buffer, deleter, today, zone, quiet>>

LogEventLocked ==
  /\ pending # NotFound /\ pending' = NotFound
  /\ UpdateAggregate(pending[1], pending[2], pending[3], pending[4])
  /\ UNCHANGED <<worker, ctl, buffer, deleter, today, zone, quiet>>

SetDisabled ==
  /\ Spend("toggles")
  /\ \E b \in BOOLEAN : b # is_disabled /\ Disable(b) /\ quiet' = (quiet /\ b)
  /\ UNCHANGED <<worker, ctl, buffer, deleter, pending, today, zone>>

DeleteData ==
  /\ deleter = "idle" /\ deleter' = "history"
  /\ DeleteAggregates
  /\ quiet' = (is_disabled /\ pending = NotFound)
  /\ UNCHANGED <<worker, ctl, buffer, pending, today, zone>>

DeleteDataHistory ==
  /\ deleter = "history" /\ deleter' = "trigger"
  /\ DeleteHistory
  /\ UNCHANGED <<worker, ctl, buffer, pending, today, zone, quiet>>

TriggerBackups ==
  /\ deleter = "trigger" /\ deleter' = "idle"
  /\ LockFree
  /\ ctl' = [ctl EXCEPT !.back_up_now = TRUE]
  /\ UNCHANGED <<svars, worker, buffer, pending, today, zone, quiet>>

Start ==
  /\ worker.pc = "none"
  /\ worker' = [NoWorker EXCEPT !.pc = "new"]
  /\ ctl' = [ctl EXCEPT !.shut_down = FALSE]
  /\ UNCHANGED <<svars, buffer, deleter, pending, today, zone, quiet>>

ShutDown ==
  /\ LockFree /\ ~ctl.shut_down
  /\ ctl' = [ctl EXCEPT !.shut_down = TRUE]
  /\ UNCHANGED <<svars, worker, buffer, deleter, pending, today, zone, quiet>>
-----------------------------------------------------------------------------
(* The worker.  GoTo leaves everything but its pc alone.                    *)
Others == UNCHANGED <<deleter, pending, today, zone, quiet>>
GoTo(pc) == worker' = [worker EXCEPT !.pc = pc]
BackUp(what, ret) == worker' = [worker EXCEPT !.pc = "copy", !.what = what, !.ret = ret]

(* Run, up to the first wait.                                               *)
RunBegins ==
  /\ worker.pc = "new"
  /\ IF ctl.shut_down THEN BackUp("agg", "exited") ELSE GoTo("wait")
  /\ UNCHANGED <<svars, ctl, buffer>> /\ Others

(* wait_for returns: the backup interval has passed or a flag is up.        *)
Wake ==
  /\ worker.pc = "wait"
  /\ BackUp("agg", "wake")
  /\ UNCHANGED <<svars, ctl, buffer>> /\ Others

(* BackUp...: the copy under the lock, then the write of it.                *)
CopyForBackUp ==
  /\ worker.pc = "copy" /\ GoTo("write")
  /\ buffer' = IF worker.what = "agg" THEN store ELSE obs_history
  /\ UNCHANGED <<svars, ctl>> /\ Others

WriteBackUp ==
  /\ worker.pc = "write" /\ buffer' = NotFound
  /\ \/ /\ disk' = [disk EXCEPT ![worker.what] = buffer] /\ UNCHANGED budget
        /\ worker' = [NoWorker EXCEPT !.pc = worker.ret, !.ok = worker.ok \cup {worker.what}, !.day = worker.day]
     \/ /\ UNCHANGED disk /\ Fails
        /\ worker' = [NoWorker EXCEPT !.pc = worker.ret, !.ok = worker.ok \ {worker.what}, !.day = worker.day]
  /\ UNCHANGED <<store, empty, obs_history, is_disabled, gen, written, forgotten, duplicate, ctl>> /\ Others

AfterBackUp == IF ctl.shut_down THEN "exited" ELSE "tasks"

(* Mutant: the history is not backed up on request.                         *)
AfterWakeNoHistory ==
  /\ worker.pc = "wake"
  /\ ctl' = [ctl EXCEPT !.back_up_now = FALSE]
  /\ GoTo(AfterBackUp)
  /\ UNCHANGED <<svars, buffer>> /\ Others

(* After the backup: the history too if asked for, then shutdown or tasks.  *)
AfterWake ==
  /\ worker.pc = "wake"
  /\ ctl' = [ctl EXCEPT !.back_up_now = FALSE]
  /\ IF ctl.back_up_now THEN BackUp("hist", AfterBackUp) ELSE GoTo(AfterBackUp)
  /\ UNCHANGED <<svars, buffer>> /\ Others

(* DoScheduledTasks.  A day that is too small skips both tasks.             *)
Yesterday(day) == [utc |-> day - 1, local |-> day + zone - 1]
SkipTasks(day) ==
  \E y \in {Yesterday(day).utc, Yesterday(day).local} : y < kMaxAllowedAggregationDays + backfill_days

GenerateObservations ==
  /\ worker.pc = "tasks"
  /\ \/ /\ ~SkipTasks(today)
        /\ BeginGeneration(Yesterday(today).utc, Yesterday(today).local)
        /\ worker' = [worker EXCEPT !.pc = "gen", !.day = today]
     \/ UNCHANGED svars /\ worker' = [worker EXCEPT !.pc = "gc", !.day = today]
  /\ UNCHANGED <<ctl, buffer>> /\ Others

GenerateStep ==
  /\ worker.pc = "gen" /\ gen # << >> /\ ~Generated
  /\ NextUnit \/ WriteObservation \/ WriteObservationFails
  /\ UNCHANGED <<worker, ctl, buffer>> /\ Others

(* The history is backed up if the status is kOK.                           *)
GenerateEnds ==
  /\ worker.pc = "gen"
  /\ \/ gen = << >> /\ GoTo("gc") /\ UNCHANGED svars
     \/ /\ gen # << >> /\ Generated
        /\ BackUp("hist", "gc")
        /\ gen' = << >>
        /\ UNCHANGED <<store, empty, obs_history, is_disabled, disk, budget, written, forgotten, duplicate>>
  /\ UNCHANGED <<ctl, buffer>> /\ Others

CollectGarbage ==
  /\ worker.pc = "gc"
  /\ \/ /\ ~SkipTasks(worker.day)
        /\ GarbageCollect(Yesterday(worker.day).utc, Yesterday(worker.day).local)
        /\ worker' = [worker EXCEPT !.pc = "copy", !.what = "agg", !.ret = "wait", !.day = 0]
     \/ UNCHANGED svars /\ worker' = [worker EXCEPT !.pc = "wait", !.day = 0]
  /\ UNCHANGED <<ctl, buffer>> /\ Others

NextDay ==
  /\ Spend("days") /\ today' = today + 1
  /\ UNCHANGED <<store, empty, obs_history, is_disabled, disk, gen, written, forgotten, duplicate>>
  /\ UNCHANGED <<worker, ctl, buffer, deleter, pending, zone, quiet>>

(* The process ends, in an orderly way or not, and a new one begins.        *)
Restart ==
  /\ budget.restarts > 0 /\ Construct(Spent(budget, "restarts"))
  /\ worker' = NoWorker /\ ctl' = NoController /\ buffer' = NotFound
  /\ deleter' = "idle" /\ pending' = NotFound /\ quiet' = FALSE
  /\ UNCHANGED <<today, zone>>

WorkerStep ==
  \/ RunBegins \/ Wake \/ CopyForBackUp \/ WriteBackUp \/ AfterWake
  \/ GenerateObservations \/ GenerateStep \/ GenerateEnds \/ CollectGarbage

Next ==
  \/ WorkerStep
  \/ NewLogger \/ LogEvent \/ LogEventLocked \/ SetDisabled
  \/ DeleteData \/ DeleteDataHistory \/ TriggerBackups
  \/ Start \/ ShutDown \/ NextDay \/ Restart

Spec == Init /\ [][Next]_vars
-----------------------------------------------------------------------------
(* GenerateObservations "Does not generate duplicate Observations": as long *)
(* as the history survives (no crash before its backup, no DeleteData), no  *)
(* Observation is written a second time, whatever failed in between.        *)
NoDuplicates == ~duplicate

(* When GenerateObservations ends with kOK, each Observation of the backfill*)
(* period that the copied aggregates call for has been written (or found to *)
(* have no value), now or earlier.                                          *)
Due(r) ==
  LET entry == gen.copy[r]
      kind == IF entry.config.report.report_type \in UniqueTypes THEN "unique" ELSE "numeric"
      codes == IF kind = "unique" THEN {<<0, c>> : c \in 0 .. entry.config.report.num_event_codes - 1}
               ELSE {k[1] : k \in DOMAIN entry.data}
  IN  {[report |-> r, kind |-> kind, code |-> c, days |-> w[2], day |-> d] :
         c \in codes, w \in ToSet(DayWindows(entry.config)),
         d \in gen.final[r] - backfill_days .. gen.final[r]}

GeneratedIsComplete ==
  worker.pc = "gen" /\ gen # << >> /\ Generated =>
    \A r \in DOMAIN gen.copy : gen.final[r] # 0 => Due(r) \subseteq written

(* An Observation says what the events of its window say, all of them:      *)
(* garbage collection never removes a day that a window still reaches.      *)
ValuesMatchEvents ==
  gen # << >> =>
    \A i \in DOMAIN gen.todo :
      gen.todo[i].value = Reference(gen.copy[gen.todo[i].id.report], gen.todo[i].id)

(* Once DeleteData has returned and the worker has answered its request,    *)
(* neither proto store whose last write succeeded holds what was deleted.   *)
DeletedIsErased ==
  deleter = "idle" /\ ~ctl.back_up_now /\ worker.pc \in {"wait", "exited"} =>
    /\ "agg" \in worker.ok => disk.agg.epoch = store.epoch
    /\ "hist" \in worker.ok => disk.hist.epoch = obs_history.epoch

(* A store that was disabled and then deleted with no call in flight stays  *)
(* empty until it is enabled again.                                         *)
QuietStaysEmpty ==
  quiet => \A r \in DOMAIN store.by_report_key : store.by_report_key[r].log = << >>
=============================================================================
