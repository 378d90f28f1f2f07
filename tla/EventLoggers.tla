---------------------------- MODULE EventLoggers ----------------------------
(***************************************************************************)
(* src/src/logger/event_loggers.cc, the methods of Logger that make an     *)
(* Event, and the Add...Event of the EventAggregator: which events are     *)
(* accepted, and what one report does with an accepted event.              *)
(*                                                                         *)
(* An EventRecord is [metric, type, codes, component, value, buckets]: the *)
(* number of its metric, the method that logged it, and its contents.      *)
(***************************************************************************)
EXTENDS Encoder

CONSTANTS kNumSecondsPerDay,   \* 86400 in the code
          LocalOffset          \* seconds local time is ahead of UTC

MetricTypes == {"EVENT_OCCURRED", "EVENT_COUNT", "ELAPSED_TIME", "FRAME_RATE",
                "MEMORY_USAGE", "INT_HISTOGRAM", "CUSTOM"}
IntegerPerformance == {"ELAPSED_TIME", "FRAME_RATE", "MEMORY_USAGE"}

(* LogEvent, LogEventCount, ... LogCustomEvent.  A frame rate, given here   *)
(* in ten-thousandths, is rounded to thousandths.                           *)
EventRecord(metric_id, type, codes, component, value, buckets) ==
  [metric |-> metric_id, type |-> type, codes |-> codes, component |-> component,
   value |-> IF type = "FRAME_RATE" THEN (value + 5) \div 10 ELSE value, buckets |-> buckets]
-----------------------------------------------------------------------------
(* Fewer codes than dimensions are accepted, and one 0 for no dimensions.   *)
ValidateEventCodes(metric, codes) ==
  LET dims == metric.metric_dimensions
      valid(i) == IF dims[i].max_event_code > 0 THEN codes[i] <= dims[i].max_event_code
                  ELSE codes[i] \in DOMAIN dims[i].event_codes
  IN  IF dims = << >> /\ codes = <<0>> THEN kOK
      ELSE IF Len(codes) > Len(dims) \/ \E i \in DOMAIN codes : ~valid(i) THEN kInvalidArguments
      ELSE kOK

ValidateEventOccurred(metric, event) ==
  IF Len(metric.metric_dimensions) # 1 THEN kInvalidConfig
  ELSE IF event.codes[1] > metric.metric_dimensions[1].max_event_code THEN kInvalidArguments
  ELSE kOK

ValidateIntHistogram(metric, event) ==
  LET status == ValidateEventCodes(metric, event.codes)
  IN  IF status # kOK THEN status
      ELSE IF metric.int_buckets.kind \notin {"linear", "exponential"} THEN kInvalidConfig
      ELSE IF \E i \in DOMAIN event.buckets : event.buckets[i][1] >= metric.int_buckets.num_buckets + 2
      THEN kInvalidArguments ELSE kOK

ValidateEvent(metric, event) ==
  CASE event.type = "EVENT_OCCURRED" -> ValidateEventOccurred(metric, event)
    [] event.type = "INT_HISTOGRAM" -> ValidateIntHistogram(metric, event)
    [] event.type = "CUSTOM" -> kOK
    [] OTHER -> ValidateEventCodes(metric, event.codes)

(* metrics is the project's, by number.                                     *)
PrepareAndValidateEvent(metrics, event) ==
  IF event.metric \notin DOMAIN metrics THEN kInvalidArguments
  ELSE IF metrics[event.metric].metric_type # event.type THEN kInvalidArguments
  ELSE ValidateEvent(metrics[event.metric], event)

(* FinalizeEvent, at a time in seconds.                                     *)
TimeToDayIndex(time, time_zone_policy) ==
  IF time_zone_policy = "LOCAL" THEN (time + LocalOffset) \div kNumSecondsPerDay
  ELSE time \div kNumSecondsPerDay
-----------------------------------------------------------------------------
(* What an Add...Event of the EventAggregator adds to the aggregates of a   *)
(* report.                                                                  *)
AddUniqueActivesEvent(metric, report, event, day_index) ==
  <<<<metric.project, metric.id, report.id>>, event.codes[1], day_index>>

AddNumericEvent(metric, report, event, day_index) ==
  <<<<metric.project, metric.id, report.id>>, event.component, PackEventCodes(event.codes), day_index, event.value>>

(* MaybeUpdateLocalAggregation: such a change, or << >>.                    *)
EventOccurredAggregation(metric, report, event, day_index) ==
  IF report.report_type = "UNIQUE_N_DAY_ACTIVES" THEN AddUniqueActivesEvent(metric, report, event, day_index)
  ELSE << >>

EventCountAggregation(metric, report, event, day_index) ==
  IF report.report_type \in {"PER_DEVICE_NUMERIC_STATS", "PER_DEVICE_HISTOGRAM"}
  THEN AddNumericEvent(metric, report, event, day_index)
  ELSE << >>

(* The three loggers of elapsed times, frame rates and memory usage differ  *)
(* only in where the event has its codes, component and value.              *)
IntegerPerformanceAggregation(metric, report, event, day_index) ==
  EventCountAggregation(metric, report, event, day_index)

LocalAggregation(metric, report, event, day_index) ==
  CASE event.type = "EVENT_OCCURRED" -> EventOccurredAggregation(metric, report, event, day_index)
    [] event.type = "EVENT_COUNT" -> EventCountAggregation(metric, report, event, day_index)
    [] event.type \in IntegerPerformance -> IntegerPerformanceAggregation(metric, report, event, day_index)
    [] OTHER -> << >>
-----------------------------------------------------------------------------
BadReportType == {Result(kInvalidConfig, << >>)}
NoObservation == {Result(kOK, << >>)}

(* MaybeEncodeImmediateObservation of each EventLogger: the results.        *)
EventOccurredObservation(metric, report, event, day_index) ==
  CASE report.report_type = "SIMPLE_OCCURRENCE_COUNT" ->
         EncodeBasicRapporObservation(metric, report, day_index, event.codes[1], BasicRapporNumCategories(metric))
    [] report.report_type = "UNIQUE_N_DAY_ACTIVES" -> NoObservation
    [] OTHER -> BadReportType

IntegerObservation(metric, report, event, day_index, encoded) ==
  CASE report.report_type \in encoded ->
         EncodeIntegerEventObservation(metric, report, day_index, event.codes, event.component, event.value)
    [] report.report_type \in {"PER_DEVICE_NUMERIC_STATS", "PER_DEVICE_HISTOGRAM"} -> NoObservation
    [] OTHER -> BadReportType

EventCountObservation(metric, report, event, day_index) ==
  IntegerObservation(metric, report, event, day_index,
                     {"EVENT_COMPONENT_OCCURRENCE_COUNT", "INT_RANGE_HISTOGRAM", "NUMERIC_AGGREGATION"})

IntegerPerformanceObservation(metric, report, event, day_index) ==
  IntegerObservation(metric, report, event, day_index,
                     {"NUMERIC_AGGREGATION", "NUMERIC_PERF_RAW_DUMP", "INT_RANGE_HISTOGRAM"})

IntHistogramObservation(metric, report, event, day_index) ==
  IF report.report_type = "INT_RANGE_HISTOGRAM"
  THEN EncodeHistogramObservation(metric, report, day_index, event.codes, event.component, event.buckets)
  ELSE BadReportType

CustomObservation(metric, report, event, day_index) ==
  IF report.report_type = "CUSTOM_RAW_DUMP" THEN EncodeCustomObservation(metric, report, day_index, event.value)
  ELSE BadReportType

(* The EventLogger that EventLogger::Create makes for the type.             *)
ImmediateObservation(metric, report, event, day_index) ==
  CASE event.type = "EVENT_OCCURRED" -> EventOccurredObservation(metric, report, event, day_index)
    [] event.type = "EVENT_COUNT" -> EventCountObservation(metric, report, event, day_index)
    [] event.type \in IntegerPerformance -> IntegerPerformanceObservation(metric, report, event, day_index)
    [] event.type = "INT_HISTOGRAM" -> IntHistogramObservation(metric, report, event, day_index)
    [] event.type = "CUSTOM" -> CustomObservation(metric, report, event, day_index)

(* The event after an Observation of it: what the last report may move out  *)
(* of it is gone.                                                           *)
AfterEncoding(event, may_invalidate) ==
  CASE may_invalidate /\ event.type = "INT_HISTOGRAM" -> [event EXCEPT !.buckets = << >>]
    [] may_invalidate /\ event.type = "CUSTOM" -> [event EXCEPT !.value = 0]
    [] OTHER -> event
=============================================================================
