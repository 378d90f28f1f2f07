------------------------- MODULE AggregationWindows -------------------------
(***************************************************************************)
(* The computations of src/src/local_aggregation: which aggregation windows*)
(* a report has, which days an Observation is due for, what it says, and   *)
(* which daily aggregates are too old to matter.                           *)
(*                                                                         *)
(* A ReportDefinition is a record                                          *)
(*   [metric_type, report_type, aggregation_type, time_zone_policy,        *)
(*    window_size (a sequence of days),                                    *)
(*    aggregation_window (a sequence of <<units, n>>), num_event_codes]    *)
(* and an AggregationConfig is [report, windows, window_size].  The daily  *)
(* aggregates of a report are a function from <<event code, day index>> to *)
(* a value: an entry that is erased, and a map it leaves empty, are simply *)
(* not in the domain.                                                      *)
(***************************************************************************)
EXTENDS Integers, SequencesExt

CONSTANTS kMaxAllowedAggregationDays, kMaxAllowedAggregationHours, backfill_days

ASSUME WindowsAssumption ==
  /\ kMaxAllowedAggregationDays \in Nat \ {0}
  /\ kMaxAllowedAggregationHours \in Nat
  /\ backfill_days \in Nat

kOK == "kOK"
kOther == "kOther"
kInvalidArguments == "kInvalidArguments"
Invalid == [valid |-> FALSE]
-----------------------------------------------------------------------------
(* The window sizes and aggregation windows of a report, checked and        *)
(* sorted: the hours come first.  An unknown unit is skipped.               *)
GetSortedAggregationWindowsFromReport(report) ==
  LET of(units) == SelectSeq(report.aggregation_window, LAMBDA w : w[1] = units)
      size(w) == w[2]
      days == report.window_size \o [i \in DOMAIN of("days") |-> size(of("days")[i])]
      hours == [i \in DOMAIN of("hours") |-> size(of("hours")[i])]
      sorted(s) == SortSeq(s, <)
  IN  IF \/ report.window_size = << >> /\ report.aggregation_window = << >>
         \/ ~ ToSet(days) \subseteq 1 .. kMaxAllowedAggregationDays
         \/ ~ ToSet(hours) \subseteq 1 .. kMaxAllowedAggregationHours
      THEN Invalid
      ELSE [valid |-> TRUE,
            windows |-> [i \in DOMAIN hours |-> <<"hours", sorted(hours)[i]>>]
                     \o [i \in DOMAIN days |-> <<"days", sorted(days)[i]>>]]

UniqueTypes == {"UNIQUE_N_DAY_ACTIVES"}
NumericTypes == {"PER_DEVICE_NUMERIC_STATS", "PER_DEVICE_HISTOGRAM"}

(* A fresh ReportAggregates for the report, or Invalid.                     *)
PopulateReportAggregates(report) ==
  LET w == GetSortedAggregationWindowsFromReport(report)
  IN  IF w.valid /\ report.report_type \in UniqueTypes \cup NumericTypes
      THEN [valid |-> TRUE,
            config |-> [report |-> report, windows |-> w.windows, window_size |-> << >>]]
      ELSE Invalid

(* Which reports of a metric UpdateAggregationConfigs passes on: the case   *)
(* of EVENT_OCCURRED falls through into that of the numeric metrics.        *)
NumericMetrics == {"EVENT_COUNT", "ELAPSED_TIME", "FRAME_RATE", "MEMORY_USAGE"}

IsAggregated(report) ==
  \/ report.metric_type = "EVENT_OCCURRED" /\ report.report_type \in UniqueTypes
  \/ /\ report.metric_type \in NumericMetrics \cup {"EVENT_OCCURRED"}
     /\ report.report_type \in NumericTypes

(* The windows of a configuration stored by version 0 of the store.         *)
ConvertWindowSizesToAggregationDays(config) ==
  LET days == [i \in DOMAIN config.window_size |-> <<"days", config.window_size[i]>>]
  IN  [config EXCEPT !.windows = IF days = << >> THEN @ ELSE days,
                     !.window_size = << >>]
-----------------------------------------------------------------------------
(* A numeric daily aggregate after one more event; none is << >>.           *)
GetUpdatedAggregate(aggregation_type, stored, new_value) ==
  CASE stored = << >> -> [status |-> kOK, value |-> new_value]
    [] stored # << >> /\ aggregation_type = "SUM" -> [status |-> kOK, value |-> new_value + stored[1]]
    [] stored # << >> /\ aggregation_type = "MAX" -> [status |-> kOK, value |-> Max({new_value, stored[1]})]
    [] stored # << >> /\ aggregation_type = "MIN" -> [status |-> kOK, value |-> Min({new_value, stored[1]})]
    [] OTHER -> [status |-> kInvalidArguments, value |-> 0]

(* The length in days of the largest window; an hourly one counts as a day. *)
MaxAggregationDays(config) ==
  LET largest == Last(config.windows) IN IF largest[1] = "days" THEN largest[2] ELSE 1

(* The last day a report is generated for or collected at; 0 if the report  *)
(* is skipped.                                                              *)
FinalDayIndex(config, day_index_utc, day_index_local) ==
  LET policy == config.report.time_zone_policy
      day == CASE policy = "UTC" -> day_index_utc
               [] policy = "LOCAL" -> day_index_local
               [] OTHER -> 0
  IN  IF config.windows = << >> THEN 0
      ELSE IF MaxAggregationDays(config) \in 1 .. day THEN day ELSE 0

(* Mutant: the backfill days are forgotten.                                 *)
TooOldWithoutBackfill(day, day_index, max_aggregation_days) ==
  day <= day_index - max_aggregation_days

(* GarbageCollect erases the aggregates of such a day.                      *)
TooOld(day, day_index, max_aggregation_days) ==
  day <= day_index - backfill_days - max_aggregation_days

GarbageCollectReportAggregates(data, day_index, max_aggregation_days) ==
  RestrictDomain(data, LAMBDA k : ~TooOld(k[2], day_index, max_aggregation_days))
-----------------------------------------------------------------------------
(* Mutant: the last generated day is generated again.                       *)
FirstDayRepeated(last_gen, final_day_index) == Max({last_gen, final_day_index - backfill_days})

(* Mutant: only the final day is generated.                                 *)
FirstDayWithoutBackfill(last_gen, final_day_index) == Max({last_gen + 1, final_day_index})

(* The first day to generate an Observation for.                            *)
FirstDayIndex(last_gen, final_day_index) == Max({last_gen + 1, final_day_index - backfill_days})

IsActivityInWindow(active_day_index, obs_day_index, aggregation_days) ==
  /\ active_day_index <= obs_day_index
  /\ active_day_index > obs_day_index - aggregation_days

FirstActiveDayIndexInWindow(data, event_code, obs_day_index, aggregation_days) ==
  LET active == {day \in obs_day_index - aggregation_days + 1 .. obs_day_index :
                   <<event_code, day>> \in DOMAIN data}
  IN  IF active = {} THEN 0 ELSE Min(active)

(* was_active for each day first .. final.  The day found for one window is *)
(* kept for the next one as long as it lies within it.                      *)
WasActive(data, event_code, first, final, aggregation_days) ==
  LET active[day \in first - 1 .. final] ==
        IF day < first THEN 0
        ELSE IF IsActivityInWindow(active[day - 1], day, aggregation_days) THEN active[day - 1]
        ELSE FirstActiveDayIndexInWindow(data, event_code, day, aggregation_days)
  IN  [day \in first .. final |-> IsActivityInWindow(active[day], day, aggregation_days)]

(* window_aggregate once num_days days, from obs_day_index back, have been  *)
(* added; << >> if none of them has a value.  A MAX starts from 0.          *)
WindowAggregate(data, aggregation_type, event_code, obs_day_index, num_days) ==
  LET found == {day \in obs_day_index - num_days + 1 .. obs_day_index :
                  <<event_code, day>> \in DOMAIN data}
      values == {data[<<event_code, day>>] : day \in found}
  IN  IF found = {} THEN << >>
      ELSE <<CASE aggregation_type = "SUM" -> MapThenSumSet(LAMBDA day : data[<<event_code, day>>], found)
               [] aggregation_type = "MAX" -> Max({0} \cup values)
               [] aggregation_type = "MIN" -> Min(values)
               [] OTHER -> 0>>
=============================================================================
