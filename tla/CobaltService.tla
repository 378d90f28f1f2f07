--------------------------- MODULE CobaltService ----------------------------
(***************************************************************************)
(* src/src/public/cobalt_service.cc with what it puts together: the        *)
(* Loggers of the clients and the internal one (src/src/logger/logger.cc,  *)
(* internal_metrics.cc), the UndatedEventManager that keeps events while   *)
(* the system clock is not accurate, the EventLogger and the               *)
(* ObservationWriter, and the data collection policy.  The observation     *)
(* store, the shipping manager and the aggregator appear as far as the     *)
(* service sees them; they have modules of their own.                      *)
(*                                                                         *)
(* Each client thread logs its events one after the other; one more thread *)
(* says that the clock is accurate, one sets policies.  A call is cut where*)
(* it reads or writes what others share: the clock, the weak pointer, the  *)
(* lock of the saved records, the flags, the stores.  Time is in ticks.    *)
(***************************************************************************)
EXTENDS RegistryValidator

CONSTANTS
  Clients,
  Free,              \* the lock of the saved records when no thread holds it
  max_saved_events,
  TicksPerSecond,
  Epoch,             \* system time minus monotonic time, in ticks
  Scenarios          \* what a behaviour may be about

VARIABLES
  scn,        \* the scenario: its registry never changes; budgets do
  clock,      \* mono, and whether the validated clock gives the time
  undated,    \* the UndatedEventManager, and whether the service still has it
  thread,     \* each thread's call
  store,      \* the observation store: disabled, obs; late is history
  agg,        \* the aggregate store: disabled, events
  shipping,   \* disabled, and the envelope taken from the store
  admin,      \* the policy, and what is left of setting it
  hist        \* history of the records: see NoHistory

vars == <<scn, clock, undated, thread, store, agg, shipping, admin, hist>>

InternalProject == "cobalt_internal"
ClockThread == "clock_thread"
Threads == Clients \cup {ClockThread}

(* recorded: the pairs of a record and a report that made an Observation or *)
(* changed an aggregate; twice: one did so again; finished: the status of   *)
(* each finished record; saved, dropped: the records saved in and dropped   *)
(* from the queue; excused: those a fault or a policy kept from the stores; *)
(* silent: those logged from first to last while nothing was to be          *)
(* collected; told: the counts of cached and dropped events reported.       *)
NoHistory == [recorded |-> {}, twice |-> FALSE, finished |-> << >>, saved |-> {}, dropped |-> {},
              excused |-> {}, silent |-> {}, told |-> {}]

NewUndated == [alive |-> TRUE, lock |-> Free, flushed |-> FALSE, saved |-> << >>,
               cached |-> << >>, dropped |-> << >>, ref |-> [system |-> 0, mono |-> 0]]
NewThread == [pc |-> "idle", phase |-> "call", todo |-> << >>, calls |-> 0, rep |-> 0, ts |-> 0,
              event |-> << >>, obs |-> << >>, silent |-> FALSE, logger |-> "undated"]

(* The clients in scn.late get their Loggers while the system runs.         *)
Init ==
  /\ scn \in Scenarios
  /\ clock = [mono |-> 0, valid |-> scn.valid]
  /\ undated = NewUndated
  /\ thread = [t \in Threads |->
                [NewThread EXCEPT !.logger = IF t \in scn.late THEN "none" ELSE @]]
  /\ store = [disabled |-> FALSE, obs |-> {}, late |-> {}]
  /\ agg = [disabled |-> FALSE, events |-> {}]
  /\ shipping = [disabled |-> FALSE, taken |-> {}]
  /\ admin = [policy |-> "COLLECT_AND_UPLOAD", todo |-> << >>]
  /\ hist = NoHistory

SystemTime == clock.mono + Epoch
InForce(policy) == admin.policy = policy /\ admin.todo = << >>
Set(t, changes) == thread' = [thread EXCEPT ![t] = changes @@ @]
-----------------------------------------------------------------------------
(* The registry as a ProjectContext shows it.                               *)
ProjectContext(project) ==
  RestrictDomain(scn.registry, LAMBDA id : scn.registry[id].project = project)

Metric(rec) == scn.registry[rec.event.metric]

(* A report as UpdateAggregationConfigs of the Logger's constructor sees it.*)
AggregatedReport(metric, report) ==
  [metric_type |-> metric.metric_type, report_type |-> report.report_type,
   aggregation_type |-> report.aggregation_type, time_zone_policy |-> metric.time_zone_policy,
   window_size |-> report.window_size, aggregation_window |-> << >>, num_event_codes |-> 1]

(* It goes through the metrics by number and stops at a report it refuses.  *)
Configured(metric, index) ==
  \A m \in {x \in Range(ProjectContext(metric.project)) : x.id <= metric.id} :
    \A i \in DOMAIN m.reports :
      LET r == AggregatedReport(m, m.reports[i])
      IN  (m.id < metric.id \/ i <= index) /\ IsAggregated(r) => PopulateReportAggregates(r).valid

(* The records a call logs: with an internal Logger, LoggerCalled comes     *)
(* first and logs two events of its own.                                    *)
Record(id, project, event) == [id |-> id, project |-> project, event |-> event, mono |-> 0]
InternalEvent(metric_id, codes, component, count) ==
  EventRecord(metric_id, "EVENT_COUNT", codes, component, count, << >>)

LoggerCalled(c, n) ==
  IF ~scn.internal THEN << >>
  ELSE <<Record(<<c, n, 1>>, InternalProject, InternalEvent(scn.ids.calls, <<0>>, "", 1)),
         Record(<<c, n, 2>>, InternalProject, InternalEvent(scn.ids.project_calls, <<0>>, scn.project[c], 1))>>
-----------------------------------------------------------------------------
(* The end of a record.  A client goes on with the next record of its call; *)
(* Flush with the next saved record or, once it reports the counts, with    *)
(* the next of them.  A lock that was taken by Save is given back.          *)
Finish(t, status, u, h) ==
  LET rec == Head(thread[t].todo)
      next == Tail(thread[t].todo)
      silent == thread[t].silent /\ InForce("DO_NOT_COLLECT")
  IN  /\ hist' = [h EXCEPT !.finished = IF thread[t].phase = "saved" THEN @ ELSE (rec.id :> status) @@ @,
                           !.silent = IF silent THEN @ \cup {rec.id} ELSE @]
      /\ undated' = CASE thread[t].phase = "saved" -> [u EXCEPT !.saved = Tail(@)]
                      [] thread[t].phase = "call" /\ u.lock = t -> [u EXCEPT !.lock = Free]
                      [] OTHER -> u
      /\ Set(t, [todo |-> next, rep |-> 0, ts |-> 0, event |-> << >>, obs |-> << >>,
                 pc |-> CASE thread[t].phase = "saved" -> "flushing"
                          [] thread[t].phase = "metrics" -> IF next = << >> THEN "flushed" ELSE "log_call"
                          [] OTHER -> IF next = << >> THEN "idle" ELSE "log_call"])

(* EventLogger::Log begins, at time ts.                                     *)
LogAt(t, ts, mono, u) ==
  LET rec == [Head(thread[t].todo) EXCEPT !.mono = mono]
  IN  /\ Set(t, [pc |-> "log", rep |-> 1, ts |-> ts, event |-> rec.event,
                 todo |-> <<rec>> \o Tail(thread[t].todo)])
      /\ undated' = u
      /\ UNCHANGED hist

(* The clock of the Logger that takes a record: AlwaysAccurateClock if it   *)
(* was made without an UndatedEventManager, else the validated clock, as    *)
(* with the internal Logger, which is made first.                           *)
HasTime(t, rec) == clock.valid \/ (thread[t].logger = "dated" /\ rec.project # InternalProject)

(* NewLogger.  It reads undated_event_manager_ without a lock, so the host  *)
(* makes this call and SystemClockIsAccurate one after the other.           *)
NewLogger(c) ==
  /\ thread[c].logger = "none" /\ thread[ClockThread].pc = "idle"
  /\ Set(c, [logger |-> IF undated.alive THEN "undated" ELSE "dated"])
  /\ UNCHANGED <<scn, clock, undated, store, agg, shipping, admin, hist>>

(* A client calls a method of its Logger.                                   *)
Call(c) ==
  LET n == thread[c].calls + 1
  IN  /\ thread[c].pc = "idle" /\ thread[c].logger # "none" /\ n <= Len(scn.events[c])
      /\ Set(c, [pc |-> "log_call", calls |-> n, silent |-> InForce("DO_NOT_COLLECT"),
                 todo |-> LoggerCalled(c, n) \o <<Record(<<c, n, 0>>, scn.project[c], scn.events[c][n])>>])
      /\ UNCHANGED <<scn, clock, undated, store, agg, shipping, admin, hist>>

(* Logger::Log up to the first look at the clock.                           *)
LogCall(t) ==
  LET rec == Head(thread[t].todo)
      status == PrepareAndValidateEvent(ProjectContext(rec.project), rec.event)
  IN  /\ thread[t].pc = "log_call"
      /\ CASE status # kOK -> Finish(t, status, undated, hist)
           [] status = kOK /\ HasTime(t, rec) -> LogAt(t, SystemTime, clock.mono, undated)
           [] OTHER -> Set(t, [pc |-> "undated"]) /\ UNCHANGED <<undated, hist>>
      /\ UNCHANGED <<scn, clock, store, agg, shipping, admin>>

(* The weak pointer is locked and Save reads the monotonic clock; or the    *)
(* manager is gone and the clock is asked again.                            *)
LockUndated(t) ==
  LET rec == Head(thread[t].todo)
  IN  /\ thread[t].pc = "undated"
      /\ CASE undated.alive ->
                /\ Set(t, [pc |-> "save", todo |-> <<[rec EXCEPT !.mono = clock.mono]>> \o Tail(thread[t].todo)])
                /\ UNCHANGED <<undated, hist>>
           [] ~undated.alive /\ clock.valid -> LogAt(t, SystemTime, clock.mono, undated)
           [] OTHER -> Finish(t, kOther, undated, hist)
      /\ UNCHANGED <<scn, clock, store, agg, shipping, admin>>
-----------------------------------------------------------------------------
Plus(f, key, n) == (key :> n + (IF key \in DOMAIN f THEN f[key] ELSE 0)) @@ f

(* The queue takes one more record and, if full, drops the oldest.          *)
Enqueue(u, rec) ==
  LET full == Len(u.saved) >= max_saved_events
  IN  [u EXCEPT !.saved = Append(IF full THEN Tail(@) ELSE @, rec),
                !.dropped = IF full THEN Plus(@, Head(u.saved).project, 1) ELSE @,
                !.cached = Plus(@, rec.project, 1)]

(* duration_cast drops the fraction, towards zero.                          *)
Seconds(ticks) == IF ticks >= 0 THEN ticks \div TicksPerSecond ELSE -((-ticks) \div TicksPerSecond)

EventTimestamp(ref, mono) == ref.system - TicksPerSecond * Seconds(ref.mono - mono)

(* Mutant: Save does not look at flushed.                                   *)
SaveAlways(t) ==
  LET rec == Head(thread[t].todo)
  IN  /\ thread[t].pc = "save" /\ undated.lock = Free
      /\ Finish(t, kOK, Enqueue(undated, rec), [hist EXCEPT !.saved = @ \cup {rec.id}])
      /\ UNCHANGED <<scn, clock, store, agg, shipping, admin>>

(* UndatedEventManager::Save.  After a flush the record is logged at once,  *)
(* with the lock held.                                                      *)
Save(t) ==
  LET rec == Head(thread[t].todo)
      dropped == IF Len(undated.saved) >= max_saved_events THEN {Head(undated.saved).id} ELSE {}
  IN  /\ thread[t].pc = "save" /\ undated.lock = Free
      /\ IF undated.flushed
         THEN LogAt(t, EventTimestamp(undated.ref, rec.mono), rec.mono, [undated EXCEPT !.lock = t])
         ELSE Finish(t, kOK, Enqueue(undated, rec),
                     [hist EXCEPT !.saved = @ \cup {rec.id}, !.dropped = @ \cup dropped])
      /\ UNCHANGED <<scn, clock, store, agg, shipping, admin>>
-----------------------------------------------------------------------------
(* One report of EventLogger::Log: the local aggregation, the encoding, and *)
(* the store's look at its own flag.  A metric that is not for the release  *)
(* stage of the device is quietly ignored.                                  *)
Recorded(h, pair) == [h EXCEPT !.twice = @ \/ pair \in h.recorded, !.recorded = @ \cup {pair}]
Excused(h, rec) == [h EXCEPT !.excused = @ \cup {rec.id}]

(* Mutant: the last report is left out.                                     *)
LastReportLeftOut(t, metric) == thread[t].rep > Len(metric.reports) - (IF Len(metric.reports) > 1 THEN 1 ELSE 0)

NoReportLeft(t, metric) == thread[t].rep > Len(metric.reports)

MaybeGenerateImmediateObservation(t, metric, report, day, h) ==
  LET rec == Head(thread[t].todo)
      event == AfterEncoding(thread[t].event, thread[t].rep = Len(metric.reports))
      next == [rep |-> thread[t].rep + 1, event |-> event]
      observed(observation) == [id |-> rec.id, rep |-> thread[t].rep, ts |-> thread[t].ts, mono |-> rec.mono,
                                observation |-> observation]
  IN  \E result \in ImmediateObservation(metric, report, thread[t].event, day) :
        CASE result.status # kOK -> Finish(t, result.status, undated, Excused(h, rec))
          [] result.status = kOK /\ result.observation = << >> -> Set(t, next) /\ hist' = h /\ UNCHANGED undated
          [] result.status = kOK /\ result.observation # << >> /\ store.disabled ->
               Set(t, next) /\ hist' = Excused(h, rec) /\ UNCHANGED undated
          [] OTHER -> /\ Set(t, [pc |-> "store", event |-> event, obs |-> observed(result.observation)])
                      /\ hist' = h /\ UNCHANGED undated

LogReport(t) ==
  LET rec == Head(thread[t].todo)
      metric == Metric(rec)
      report == metric.reports[thread[t].rep]
      ignored == scn.stage > metric.max_release_stage
      day == TimeToDayIndex(thread[t].ts \div TicksPerSecond, metric.time_zone_policy)
      change == LocalAggregation(metric, report, thread[t].event, day)
      refused == change # << >> /\ ~agg.disabled /\ ~Configured(metric, thread[t].rep)
      h == IF change = << >> THEN hist ELSE IF agg.disabled THEN Excused(hist, rec)
           ELSE Recorded(hist, <<rec.id, report.id>>)
  IN  /\ thread[t].pc = "log"
      /\ IF ignored \/ NoReportLeft(t, metric)
         THEN Finish(t, kOK, undated, IF ignored THEN Excused(hist, rec) ELSE hist) /\ UNCHANGED agg
         ELSE IF refused
         THEN Finish(t, kInvalidArguments, undated, Excused(hist, rec)) /\ UNCHANGED agg
         ELSE /\ agg' = IF change = << >> \/ agg.disabled THEN agg
                        ELSE [agg EXCEPT !.events = @ \cup {[id |-> rec.id, rep |-> thread[t].rep, change |-> change]}]
              /\ MaybeGenerateImmediateObservation(t, metric, report, day, h)
      /\ UNCHANGED <<scn, clock, store, shipping, admin>>

(* ObservationWriter::WriteObservation, past that look: the Observation is  *)
(* stored, or encrypting or storing it fails.                               *)
WriteObservation(t) ==
  LET rec == Head(thread[t].todo)
      report == Metric(rec).reports[thread[t].rep]
  IN  /\ thread[t].pc = "store"
      /\ \/ /\ store' = [store EXCEPT !.obs = @ \cup {thread[t].obs}]
            /\ hist' = Recorded(hist, <<rec.id, report.id>>)
            /\ Set(t, [pc |-> "log", rep |-> thread[t].rep + 1, obs |-> << >>])
            /\ UNCHANGED <<scn, undated>>
         \/ /\ scn.faults > 0 /\ scn' = [scn EXCEPT !.faults = @ - 1]
            /\ Finish(t, kOther, undated, Excused(hist, rec))
            /\ UNCHANGED store
      /\ UNCHANGED <<clock, agg, shipping, admin>>
-----------------------------------------------------------------------------
(* Mutant: the clock is said to be accurate before it is.                   *)
SystemClockIsAccurateEarly ==
  /\ scn.accurate /\ thread[ClockThread].pc = "idle" /\ thread[ClockThread].calls = 0
  /\ Set(ClockThread, [pc |-> "flush", calls |-> 1])
  /\ UNCHANGED <<scn, clock, undated, store, agg, shipping, admin, hist>>

(* SystemClockIsAccurate, called once the validated clock gives the time.   *)
SystemClockIsAccurate ==
  /\ clock.valid /\ scn.accurate /\ thread[ClockThread].pc = "idle" /\ thread[ClockThread].calls = 0
  /\ Set(ClockThread, [pc |-> "flush", calls |-> 1])
  /\ UNCHANGED <<scn, clock, undated, store, agg, shipping, admin, hist>>

(* Flush takes the lock for all it does.                                    *)
FlushBegins ==
  /\ thread[ClockThread].pc = "flush" /\ undated.lock = Free
  /\ undated' = [undated EXCEPT !.lock = ClockThread, !.ref = [system |-> SystemTime, mono |-> clock.mono]]
  /\ Set(ClockThread, [pc |-> "flushing", phase |-> "saved"])
  /\ UNCHANGED <<scn, clock, store, agg, shipping, admin, hist>>

FlushSavedRecord ==
  LET rec == Head(undated.saved)
  IN  /\ thread[ClockThread].pc = "flushing" /\ undated.saved # << >>
      /\ Set(ClockThread, [pc |-> "log", rep |-> 1, ts |-> EventTimestamp(undated.ref, rec.mono),
                           event |-> rec.event, todo |-> <<rec>>])
      /\ UNCHANGED <<scn, clock, undated, store, agg, shipping, admin, hist>>

(* The counts, one event for each project, in the order of the projects.    *)
CountEvents(what, metric_id, counts) ==
  LET projects == SetToSeq(DOMAIN counts)
  IN  [i \in DOMAIN projects |->
         Record(<<ClockThread, what, projects[i]>>, InternalProject,
                InternalEvent(metric_id, << >>, projects[i], counts[projects[i]]))]

(* InternalMetricsImpl insists on a Logger: the process ends without one.   *)
FlushReports ==
  LET todo == CountEvents("cached", scn.ids.cached, undated.cached)
              \o CountEvents("dropped", scn.ids.dropped, undated.dropped)
  IN  /\ thread[ClockThread].pc = "flushing" /\ undated.saved = << >>
      /\ IF ~scn.internal THEN Set(ClockThread, [pc |-> "aborted"]) /\ UNCHANGED hist
         ELSE /\ Set(ClockThread, [phase |-> "metrics", todo |-> todo,
                                   pc |-> IF todo = << >> THEN "flushed" ELSE "log_call"])
              /\ hist' = [hist EXCEPT !.told = {<<todo[i].id[2], todo[i].id[3], todo[i].event.value>> : i \in DOMAIN todo}]
      /\ UNCHANGED <<scn, clock, undated, store, agg, shipping, admin>>

FlushEnds ==
  /\ thread[ClockThread].pc = "flushed"
  /\ undated' = [undated EXCEPT !.cached = << >>, !.dropped = << >>, !.flushed = TRUE, !.lock = Free]
  /\ Set(ClockThread, [pc |-> "reset"])
  /\ UNCHANGED <<scn, clock, store, agg, shipping, admin, hist>>

(* undated_event_manager_.reset(): a call that holds it goes on.            *)
ResetUndated ==
  /\ thread[ClockThread].pc = "reset"
  /\ undated' = [undated EXCEPT !.alive = FALSE]
  /\ Set(ClockThread, [pc |-> "idle", phase |-> "call"])
  /\ UNCHANGED <<scn, clock, store, agg, shipping, admin, hist>>
-----------------------------------------------------------------------------
(* Mutant: the data is deleted before the stores are disabled.              *)
PolicyStepsDeleteFirst(policy) ==
  IF policy = "DO_NOT_COLLECT"
  THEN <<<<"delete_store", TRUE>>, <<"delete_agg", TRUE>>, <<"store", TRUE>>, <<"agg", TRUE>>, <<"ship", TRUE>>>>
  ELSE <<<<"store", FALSE>>, <<"agg", FALSE>>, <<"ship", policy = "DO_NOT_UPLOAD">>>>

(* The steps of SetDataCollectionPolicy, in order.                          *)
PolicySteps(policy) ==
  CASE policy = "COLLECT_AND_UPLOAD" -> <<<<"store", FALSE>>, <<"agg", FALSE>>, <<"ship", FALSE>>>>
    [] policy = "DO_NOT_UPLOAD" -> <<<<"store", FALSE>>, <<"agg", FALSE>>, <<"ship", TRUE>>>>
    [] policy = "DO_NOT_COLLECT" -> <<<<"store", TRUE>>, <<"agg", TRUE>>, <<"delete_store", TRUE>>,
                                      <<"delete_agg", TRUE>>, <<"ship", TRUE>>>>

SetDataCollectionPolicy ==
  /\ admin.todo = << >> /\ scn.policies # << >>
  /\ scn' = [scn EXCEPT !.policies = Tail(@)]
  /\ admin' = [policy |-> Head(scn.policies), todo |-> PolicySteps(Head(scn.policies))]
  /\ UNCHANGED <<clock, undated, thread, store, agg, shipping, hist>>

PolicyStep ==
  LET op == Head(admin.todo)[1]
      flag == Head(admin.todo)[2]
      writing == {thread[t].obs : t \in {u \in Threads : thread[u].pc = "store"}}
  IN  /\ admin.todo # << >>
      /\ admin' = [admin EXCEPT !.todo = Tail(@)]
      /\ store' = CASE op = "store" -> [store EXCEPT !.disabled = flag]
                    [] op = "delete_store" -> [store EXCEPT !.obs = {}, !.late = writing \cup shipping.taken]
                    [] OTHER -> store
      /\ agg' = CASE op = "agg" -> [agg EXCEPT !.disabled = flag]
                  [] op = "delete_agg" -> [agg EXCEPT !.events = {}]
                  [] OTHER -> agg
      /\ shipping' = IF op = "ship" THEN [shipping EXCEPT !.disabled = flag] ELSE shipping
      /\ UNCHANGED <<scn, clock, undated, thread, hist>>

(* The shipping manager takes what is in the store, and gives it back if it *)
(* cannot be sent.                                                          *)
TakeEnvelope ==
  /\ scn.ships > 0 /\ ~shipping.disabled /\ shipping.taken = {} /\ store.obs # {}
  /\ scn' = [scn EXCEPT !.ships = @ - 1]
  /\ shipping' = [shipping EXCEPT !.taken = store.obs]
  /\ store' = [store EXCEPT !.obs = {}]
  /\ UNCHANGED <<clock, undated, thread, agg, admin, hist>>

ReturnOrSend ==
  /\ shipping.taken # {}
  /\ \E back \in {{}, shipping.taken} : store' = [store EXCEPT !.obs = @ \cup back]
  /\ shipping' = [shipping EXCEPT !.taken = {}]
  /\ UNCHANGED <<scn, clock, undated, thread, agg, admin, hist>>

Tick ==
  /\ scn.ticks > 0 /\ scn' = [scn EXCEPT !.ticks = @ - 1]
  /\ clock' = [clock EXCEPT !.mono = @ + 1]
  /\ UNCHANGED <<undated, thread, store, agg, shipping, admin, hist>>

(* The validated clock gives the time from some moment on.                  *)
ClockBecomesValid ==
  /\ ~clock.valid /\ clock' = [clock EXCEPT !.valid = TRUE]
  /\ UNCHANGED <<scn, undated, thread, store, agg, shipping, admin, hist>>

ThreadStep(t) ==
  LogCall(t) \/ LockUndated(t) \/ Save(t) \/ LogReport(t) \/ WriteObservation(t)

FlushStep ==
  \/ FlushBegins \/ FlushSavedRecord \/ FlushReports \/ FlushEnds \/ ResetUndated

Alive == thread[ClockThread].pc # "aborted"

Next ==
  /\ Alive
  /\ \/ \E c \in Clients : NewLogger(c) \/ Call(c)
     \/ \E t \in Threads : ThreadStep(t)
     \/ SystemClockIsAccurate \/ FlushStep
     \/ SetDataCollectionPolicy \/ PolicyStep \/ TakeEnvelope \/ ReturnOrSend
     \/ Tick \/ ClockBecomesValid

Spec == Init /\ [][Next]_vars

(* Some thread that can go on does.                                         *)
FairSpec == Spec /\ WF_vars(Alive /\ (FlushStep \/ \E t \in Threads : ThreadStep(t)))
-----------------------------------------------------------------------------
(* The event a client logged under an identifier, and the project.          *)
ClientRecord(id) == id[1] \in Clients /\ id[3] = 0
EventOf(id) == scn.events[id[1]][id[2]]
ProjectOf(id) == IF ClientRecord(id) THEN scn.project[id[1]] ELSE InternalProject

AsSeq(metrics) == LET ids == SetToSeq(DOMAIN metrics) IN [i \in DOMAIN ids |-> metrics[ids[i]]]
Accepted(metrics) == validateConfiguredMetricDefinitions(AsSeq(metrics))

(* A metric that the registry's validator accepts is one the device can     *)
(* serve: no call on it returns kInvalidConfig, none is refused by the      *)
(* aggregate store, and none finds, as Logger::Log says "should never       *)
(* happen", neither a clock nor an UndatedEventManager.  One gap is known:  *)
(* the buckets of an INT_HISTOGRAM metric without reports are not looked at.*)
BucketsNotSet(m) == m.metric_type = "INT_HISTOGRAM" /\ m.reports = << >> /\ m.int_buckets.kind = "unset"

AcceptedIsServed ==
  \A id \in DOMAIN hist.finished :
    /\ hist.finished[id] = kOther => id \in hist.excused
    /\ \/ hist.finished[id] = kInvalidConfig
       \/ hist.finished[id] = kInvalidArguments /\ id \in hist.excused
       => ~Accepted(scn.registry) \/ BucketsNotSet(scn.registry[EventOf(id).metric])

(* An event that was valid for the registry its client was built with stays *)
(* valid for one the change validator lets replace it.  What that tool does *)
(* not look at is left out: a dimension removed, max_event_code lowered,    *)
(* buckets or the type changed, and a first dimension without the code 0,   *)
(* which a client of a metric without dimensions may log.                   *)
NotCompared(old, new) ==
  \/ old.metric_dimensions = << >> /\ ValidateEventCodes(new, <<0>>) # kOK
  \/ old.metric_type # new.metric_type \/ old.int_buckets # new.int_buckets
  \/ Len(new.metric_dimensions) < Len(old.metric_dimensions)
  \/ \E i \in DOMAIN old.metric_dimensions :
       new.metric_dimensions[i].max_event_code < old.metric_dimensions[i].max_event_code
  \/ old.max_release_stage <= DebugStage \/ new.max_release_stage <= DebugStage

ValidEventsStayValid ==
  \A id \in DOMAIN hist.finished :
    ClientRecord(id) /\ hist.finished[id] = kInvalidArguments /\ EventOf(id).metric \in DOMAIN scn.built =>
      LET old == scn.built[EventOf(id).metric]
          new == scn.registry[EventOf(id).metric]
      IN  \/ PrepareAndValidateEvent(scn.built, EventOf(id)) # kOK
          \/ ~Accepted(scn.built) \/ ~Accepted(scn.registry)
          \/ ~CompareProjects(AsSeq(scn.built), AsSeq(scn.registry))
          \/ NotCompared(old, new)

(* What is stored for an event says what the event said: its codes survive  *)
(* packing, a histogram is whole in each of its reports, and, without noise,*)
(* the one category is set.                                                 *)
SameCodes(packed, codes) ==
  LET unpacked == UnpackEventCodes(packed)
      at(s, i) == IF i \in DOMAIN s THEN s[i] ELSE 0
  IN  \A i \in 1 .. Max({Len(unpacked), Len(codes)}) : at(unpacked, i) = at(codes, i)

SaysTheEvent(body, event, report) ==
  CASE body[1] = "basic_rappor" -> report.local_privacy_noise_level = "NONE" => body[2] = {event.codes[1]}
    [] body[1] = "numeric_event" -> SameCodes(body[2], event.codes) /\ body[4] = event.value
    [] body[1] = "histogram" -> SameCodes(body[2], event.codes) /\ body[4] = event.buckets
    [] body[1] = "custom" -> body[2] = event.value

ObservationsSayTheEvent ==
  \A o \in store.obs \cup shipping.taken :
    ClientRecord(o.id) =>
      \/ SaysTheEvent(o.observation.body, EventOf(o.id), scn.registry[EventOf(o.id).metric].reports[o.rep])
      \/ ~Accepted(scn.registry)

(* What goes into an aggregate can be encoded at the end of the day: with   *)
(* its codes, and in the bucket it lies in, unless the last floor of linear *)
(* buckets does not fit 32 bits.                                            *)
Overflows(b) == b.kind = "linear" /\ b.num_buckets * b.step >= Uint32

FloorOf(b, i) ==
  IF b.kind = "linear" THEN b.floor + (i - 1) * b.step
  ELSE IF i = 1 THEN b.floor ELSE b.floor + b.step * b.mult ^ (i - 2)

Encodable(entry, event, metric) ==
  LET report == metric.reports[entry.rep]
      b == report.int_buckets
  IN  IF report.report_type = "UNIQUE_N_DAY_ACTIVES"
      THEN \A active \in BOOLEAN :
             \A r \in EncodeUniqueActivesObservation(metric, report, 0, entry.change[2], active, 1) :
               /\ r.status = kOK
               /\ report.local_privacy_noise_level = "NONE" => (r.observation.body[4] # {}) = active
      ELSE /\ SameCodes(entry.change[3], event.codes) /\ entry.change[5] = event.value
           /\ report.report_type = "PER_DEVICE_HISTOGRAM" =>
                \A r \in EncodePerDeviceHistogramObservation(metric, report, 0, event.component, event.codes, event.value, 1) :
                  /\ r.status = kOK
                  /\ ~Overflows(b) => r.observation.body[5][1][1] =
                       Cardinality({i \in 1 .. b.num_buckets + 1 : FloorOf(b, i) <= event.value})

AggregatesAreEncodable ==
  \A e \in agg.events :
    ClientRecord(e.id) =>
      \/ Encodable(e, EventOf(e.id), scn.registry[EventOf(e.id).metric])
      \/ ~Accepted(scn.registry)

(* The two together: what is recorded for an event says what it said.       *)
RecordsSayTheEvent == ObservationsSayTheEvent /\ AggregatesAreEncodable

(* No report of an event is recorded twice, if the registry was accepted    *)
(* and so gives each report its own number; and each report of an event     *)
(* that was answered with kOK is recorded, unless the event still waits in  *)
(* the queue, was dropped from it, or a fault, the release stage or the     *)
(* policy kept it out.                                                      *)
Waiting == {undated.saved[i].id : i \in DOMAIN undated.saved}

EachReportOnce ==
  /\ hist.twice => ~Accepted(scn.registry)
  /\ \A id \in DOMAIN hist.finished :
       hist.finished[id] = kOK /\ ClientRecord(id) /\ id \notin Waiting \cup hist.dropped \cup hist.excused =>
         \A i \in DOMAIN scn.registry[EventOf(id).metric].reports :
           <<id, scn.registry[EventOf(id).metric].reports[i].id>> \in hist.recorded

(* The counts Flush reports are true: of each project, the events that were *)
(* kept for want of a clock, and those of them that were dropped.           *)
CountsAreTrue ==
  LET count(ids, p) == Cardinality({id \in ids : ProjectOf(id) = p})
      projects(ids) == {ProjectOf(id) : id \in ids}
  IN  undated.flushed =>
        hist.told = {<<"cached", p, count(hist.saved, p)>> : p \in projects(hist.saved)}
              \cup {<<"dropped", p, count(hist.dropped, p)>> : p \in projects(hist.dropped)}

(* The queue is never longer than allowed and, once flushed, stays empty:   *)
(* no event can be left in it.                                              *)
NothingLeftBehind ==
  Len(undated.saved) <= max_saved_events /\ (undated.flushed => undated.saved = << >>)

(* The time given to an event that waited for the clock is less than a      *)
(* second off the time it was logged.                                       *)
TimesAreClose ==
  \A o \in store.obs \cup shipping.taken :
    o.ts - (o.mono + Epoch) < TicksPerSecond /\ (o.mono + Epoch) - o.ts < TicksPerSecond

(* No event that waits for the clock is lost without being counted, left    *)
(* behind or given a time that is not its own.                              *)
UndatedAreAccountedFor == CountsAreTrue /\ NothingLeftBehind /\ TimesAreClose

(* While DO_NOT_COLLECT is in force the store holds nothing but what was    *)
(* being written, or was out to be shipped, when the data was deleted.      *)
NotCollectingIsEmpty == InForce("DO_NOT_COLLECT") => store.obs \subseteq store.late

(* cobalt_service_interface.h: "In DO_NOT_COLLECT mode, we silently drop    *)
(* all logged events": none that was logged, from the call to its return,   *)
(* in that mode is ever recorded.                                           *)
DoNotCollectDrops == \A pair \in hist.recorded : pair[1] \notin hist.silent

(* Every call returns, and so does SystemClockIsAccurate, unless the        *)
(* process ends: no thread waits for a lock that it holds itself.           *)
AllReturned == \A t \in Threads : thread[t].pc = "idle"
EveryCallReturns == ~AllReturned ~> AllReturned \/ ~Alive
=============================================================================
