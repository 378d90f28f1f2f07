--------------------------- MODULE AggregateStore ---------------------------
(***************************************************************************)
(* src/src/local_aggregation/aggregate_store.cc: the daily aggregates of   *)
(* the locally aggregated reports, the history of generated Observations,  *)
(* their backups, and one call of GenerateObservations cut at the points   *)
(* where it takes a lock or writes an Observation.                         *)
(*                                                                         *)
(* Each proto store holds one value and a write of it replaces the whole   *)
(* value or fails (AtomicProtoStore).  An event code is a pair <<hi, lo>>, *)
(* the two halves of the 64 bits PackEventCodes returns.                   *)
(***************************************************************************)
EXTENDS AggregationWindows, BagsExt

CONSTANTS Registry,       \* the aggregated reports: a sequence of <<key, report>>
          NotFound

kCurrentLocalAggregateStoreVersion == 1

VARIABLES
  store,        \* local_aggregate_store: version, by_report_key; epoch is history
  empty,        \* empty_local_aggregate_store: the configuration of each key
  obs_history,  \* last: the last generated day of each key; epoch is history
  is_disabled,
  disk,         \* agg and hist: what the two proto stores hold
  gen,          \* the GenerateObservations in progress, << >> if none
  budget,       \* how often each kind of input and fault may still happen
  written,      \* history: the Observations generated (or found to have no value)
  forgotten,    \* history: those of them whose history was lost or deleted
  duplicate     \* history: another one was written again

svars == <<store, empty, obs_history, is_disabled, disk, gen, budget, written, forgotten, duplicate>>

Spent(b, what) == [b EXCEPT ![what] = @ - 1]
Spend(what) == budget[what] > 0 /\ budget' = Spent(budget, what)
Fails == Spend("faults")
-----------------------------------------------------------------------------
(* A report's entry: its configuration, its daily aggregates and, as        *)
(* history, the bag of the events they stand for, never collected.          *)
NewAggregates(config) == [config |-> config, data |-> << >>, log |-> << >>]

MakeNewLocalAggregateStore ==
  [version |-> kCurrentLocalAggregateStoreVersion, by_report_key |-> << >>, epoch |-> 0]
MakeNewObservationHistoryStore == [last |-> << >>, epoch |-> 0]

UpgradedFromVersion0(entry) == [entry EXCEPT !.config = ConvertWindowSizesToAggregationDays(@)]

MaybeUpgradeLocalAggregateStore(s) ==
  CASE s.version = kCurrentLocalAggregateStoreVersion -> s
    [] s.version = 0 ->
         [s EXCEPT !.version = kCurrentLocalAggregateStoreVersion,
                   !.by_report_key = [r \in DOMAIN @ |-> UpgradedFromVersion0(@[r])]]
    [] OTHER -> MakeNewLocalAggregateStore

(* The constructor, with a read of either store that may fail.              *)
HistoryKey(o) == <<o.report, o.kind, <<0, o.code[2]>>, o.days>>
LastGeneratedDayIndex(h, key) == IF key \in DOMAIN h.last THEN h.last[key] ELSE 0
SetLastGeneratedDayIndex(h, key, day) == [h EXCEPT !.last = (key :> day) @@ @]

Construct(b) ==
  /\ \E read \in {"ok", "error"} \X {"ok", "error"} :
       /\ \/ read = <<"ok", "ok">> /\ budget' = b
          \/ read # <<"ok", "ok">> /\ b.faults > 0 /\ budget' = Spent(b, "faults")
       /\ store' = IF read[1] = "ok" /\ disk.agg # NotFound
                   THEN MaybeUpgradeLocalAggregateStore(disk.agg)
                   ELSE MakeNewLocalAggregateStore
       /\ obs_history' = IF read[2] = "ok" /\ disk.hist # NotFound
                         THEN disk.hist ELSE MakeNewObservationHistoryStore
  /\ forgotten' = forgotten \cup
       {o \in written : o.day > LastGeneratedDayIndex(obs_history', HistoryKey(o))}
  /\ empty' = << >> /\ is_disabled' = FALSE /\ gen' = << >>
  /\ UNCHANGED <<disk, written, duplicate>>

(* UpdateAggregationConfigs of the project: it stops at the first report    *)
(* whose configuration is refused.  A key that is there keeps its           *)
(* configuration.                                                           *)
AcceptedReports ==
  {i \in DOMAIN Registry :
     \A j \in 1 .. i : IsAggregated(Registry[j][2]) => PopulateReportAggregates(Registry[j][2]).valid}

UpdateAggregationConfigs ==
  LET keys == {i \in AcceptedReports : IsAggregated(Registry[i][2])}
      configs == [r \in {Registry[i][1] : i \in keys} |->
                    PopulateReportAggregates(
                      Registry[CHOOSE i \in keys : Registry[i][1] = r][2]).config]
      new == [r \in DOMAIN configs |-> NewAggregates(configs[r])]
  IN  /\ store' = [store EXCEPT !.by_report_key =
                     [r \in DOMAIN @ \cup DOMAIN new |-> IF r \in DOMAIN @ THEN @[r] ELSE new[r]]]
      /\ empty' = empty @@ configs
      /\ UNCHANGED <<obs_history, is_disabled, disk, gen, budget, written, forgotten, duplicate>>
-----------------------------------------------------------------------------
(* SetActive and UpdateNumericAggregate, from the lock on.  Without the key *)
(* or with aggregates of the other type they change nothing.                *)
UpdateAggregate(r, event_code, day_index, value) ==
  LET entry == store.by_report_key[r]
      unique == entry.config.report.report_type \in UniqueTypes
      k == <<event_code, day_index>>
      updated == GetUpdatedAggregate(entry.config.report.aggregation_type,
                   IF k \in DOMAIN entry.data THEN <<entry.data[k]>> ELSE << >>, value)
  IN  /\ IF \/ r \notin DOMAIN store.by_report_key
            \/ ~unique /\ updated.status # kOK
         THEN UNCHANGED store
         ELSE store' = [store EXCEPT !.by_report_key[r] =
                [@ EXCEPT !.data = (k :> IF unique THEN 1 ELSE updated.value) @@ @,
                          !.log = BagAdd(@, <<event_code, day_index, value>>)]]
      /\ UNCHANGED <<empty, obs_history, is_disabled, disk, gen, budget, written, forgotten, duplicate>>

Disable(b) ==
  /\ is_disabled' = b
  /\ UNCHANGED <<store, empty, obs_history, disk, gen, written, forgotten, duplicate>>

(* DeleteData, under the first lock and under the second.                   *)
DeleteAggregates ==
  /\ Spend("deletes")
  /\ store' = [version |-> kCurrentLocalAggregateStoreVersion, epoch |-> store.epoch + 1,
               by_report_key |-> [r \in DOMAIN empty |-> NewAggregates(empty[r])]]
  /\ UNCHANGED <<empty, obs_history, is_disabled, disk, gen, written, forgotten, duplicate>>

DeleteHistory ==
  /\ obs_history' = [MakeNewObservationHistoryStore EXCEPT !.epoch = store.epoch]
  /\ forgotten' = written
  /\ UNCHANGED <<store, empty, is_disabled, disk, gen, budget, written, duplicate>>

(* GarbageCollect; FinalDayIndex is 0 for a report that is skipped.         *)
GarbageCollect(day_index_utc, day_index_local) ==
  LET collected(e) ==
        LET day == FinalDayIndex(e.config, day_index_utc, day_index_local)
        IN  IF day = 0 THEN e
            ELSE [e EXCEPT !.data = GarbageCollectReportAggregates(@, day, MaxAggregationDays(e.config))]
  IN  /\ store' = [store EXCEPT !.by_report_key = [r \in DOMAIN @ |-> collected(@[r])]]
      /\ UNCHANGED <<empty, obs_history, is_disabled, disk, gen, budget, written, forgotten, duplicate>>
-----------------------------------------------------------------------------
DayWindows(config) == SelectSeq(config.windows, LAMBDA w : w[1] = "days")

(* The units of a report, in the order they are generated: the pairs of an  *)
(* event code and a window of a UNIQUE_N_DAY_ACTIVES report; the event      *)
(* codes found in the copy, in any order, and the participation of a        *)
(* numeric one.                                                             *)
UnitSequences(r, entry) ==
  LET report == entry.config.report
      windows == SelectSeq(DayWindows(entry.config), LAMBDA w : w[2] <= kMaxAllowedAggregationDays)
      n == Len(windows)
      numeric(codes) == {[i \in DOMAIN s |-> [report |-> r, kind |-> "numeric", code |-> s[i]]] : s \in SetToSeqs(codes)}
  IN  CASE report.metric_type = "EVENT_OCCURRED" /\ report.report_type \in UniqueTypes ->
             {[i \in 1 .. report.num_event_codes * n |->
                 [report |-> r, kind |-> "unique", code |-> <<0, (i - 1) \div n>>,
                  days |-> windows[((i - 1) % n) + 1][2]]]}
        [] report.metric_type \in NumericMetrics /\ report.report_type \in NumericTypes ->
             {s \o <<[report |-> r, kind |-> "participation"]>> : s \in numeric({k[1] : k \in DOMAIN entry.data})}
        [] OTHER -> {<< >>}

Observation(r, kind, code, days, day, value) ==
  [id |-> [report |-> r, kind |-> kind, code |-> code, days |-> days, day |-> day], value |-> value]

(* What one unit has to generate, in order: for each Observation its value, *)
(* << >> when there is none to write and only the history advances.         *)
Pending(entry, unit, final) ==
  LET r == unit.report
      first(kind, code, days) ==
        FirstDayIndex(LastGeneratedDayIndex(obs_history,
          HistoryKey([report |-> r, kind |-> kind, code |-> code, days |-> days])), final)
      type == entry.config.report.aggregation_type
      unique == LET start == first("unique", unit.code, unit.days)
                    active == WasActive(entry.data, unit.code, start, final, unit.days)
                IN  [i \in 1 .. final - start + 1 |->
                       Observation(r, "unique", unit.code, unit.days, start + i - 1,
                                   <<active[start + i - 1]>>)]
      onDay(day) == SelectSeq(DayWindows(entry.config), LAMBDA w : first("numeric", unit.code, w[2]) <= day)
      numeric(day) == [i \in DOMAIN onDay(day) |->
                         Observation(r, "numeric", unit.code, onDay(day)[i][2], day,
                           WindowAggregate(entry.data, type, unit.code, day,
                                           Max({onDay(day)[j][2] : j \in 1 .. i})))]
      start == first("participation", <<0, 0>>, 0)
  IN  CASE unit.kind = "unique" -> unique
        [] unit.kind = "numeric" ->
             FlattenSeq([i \in 1 .. backfill_days + 1 |-> numeric(final - backfill_days + i - 1)])
        [] unit.kind = "participation" ->
             [i \in 1 .. final - start + 1 |->
                Observation(r, "participation", <<0, 0>>, 0, start + i - 1, <<TRUE>>)]

(* GenerateObservations: the copy, then one report after the other, in any  *)
(* order.  The order of the units follows from the copy alone.              *)
BeginGeneration(final_day_index_utc, final_day_index_local) ==
  LET copy == store.by_report_key
      final == [r \in DOMAIN copy |-> FinalDayIndex(copy[r].config, final_day_index_utc, final_day_index_local)]
      generated == {r \in DOMAIN copy : final[r] # 0}
  IN  /\ \E order \in SetToSeqs(generated) :
           \E units \in [generated -> UNION {UnitSequences(r, copy[r]) : r \in generated}] :
             /\ \A r \in generated : units[r] \in UnitSequences(r, copy[r])
             /\ gen' = [copy |-> copy, final |-> final, todo |-> << >>,
                        units |-> FlattenSeq([i \in DOMAIN order |-> units[order[i]]])]
      /\ UNCHANGED <<store, empty, obs_history, is_disabled, disk, budget, written, forgotten, duplicate>>

(* The history is read.  An aggregation type that is not one of the three   *)
(* ends the call.                                                           *)
NextUnit ==
  LET unit == Head(gen.units)
      entry == gen.copy[unit.report]
      todo == Pending(entry, unit, gen.final[unit.report])
      unexpected == entry.config.report.aggregation_type \notin {"SUM", "MAX", "MIN"}
  IN  /\ gen.todo = << >> /\ gen.units # << >>
      /\ gen' = IF unit.kind = "numeric" /\ unexpected /\ todo # << >> THEN << >>
                ELSE [gen EXCEPT !.units = Tail(@), !.todo = todo]
      /\ UNCHANGED <<store, empty, obs_history, is_disabled, disk, budget, written, forgotten, duplicate>>

Generated == gen.todo = << >> /\ gen.units = << >>

(* GenerateSingle...Observation writes; then the history is set.  A write   *)
(* that fails ends the call, except that of a participation.                *)
Recorded ==
  LET o == Head(gen.todo).id
  IN  /\ obs_history' = SetLastGeneratedDayIndex(obs_history, HistoryKey(o), o.day)
      /\ written' = written \cup {o} /\ forgotten' = forgotten \ {o}
      /\ gen' = [gen EXCEPT !.todo = Tail(@)]

WriteObservation ==
  LET o == Head(gen.todo)
  IN  /\ gen.todo # << >>
      /\ Recorded
      /\ duplicate' = (duplicate \/ (o.value # << >> /\ o.id \in written \ forgotten))
      /\ UNCHANGED <<store, empty, is_disabled, disk, budget>>

WriteObservationFails ==
  /\ gen.todo # << >> /\ Head(gen.todo).value # << >>
  /\ Fails
  /\ IF Head(gen.todo).id.kind = "participation"
     THEN Recorded
     ELSE gen' = << >> /\ UNCHANGED <<obs_history, written, forgotten>>
  /\ UNCHANGED <<store, empty, is_disabled, disk, duplicate>>
-----------------------------------------------------------------------------
(* What an Observation must say, from the events themselves.                *)
EventsInWindow(log, o) ==
  {e \in DOMAIN log : e[1] = o.code /\ e[2] \in o.day - o.days + 1 .. o.day}

Reference(entry, o) ==
  LET events == EventsInWindow(entry.log, o)
      type == entry.config.report.aggregation_type
  IN  CASE o.kind = "unique" -> <<events # {}>>
        [] o.kind = "participation" -> <<TRUE>>
        [] o.kind = "numeric" /\ events = {} -> << >>
        [] o.kind = "numeric" /\ events # {} ->
             <<CASE type = "SUM" -> MapThenSumSet(LAMBDA e : e[3] * entry.log[e], events)
                 [] type = "MAX" -> Max({e[3] : e \in events})
                 [] type = "MIN" -> Min({e[3] : e \in events})>>
=============================================================================
