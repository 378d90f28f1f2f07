------------------------- MODULE RegistryValidator --------------------------
(***************************************************************************)
(* The Go tools a metric definition passes on its way to the device: the   *)
(* validator of src/src/bin/config_parser/src/config_validator, and the    *)
(* change validator of src/src/bin/config_change_validator.  Each          *)
(* definition is TRUE when its Go namesake returns no error.               *)
(*                                                                         *)
(* A name is a string: "" does not match the regular expressions.  The     *)
(* literals 1024 and 32768 of the Go code are kGoMaxOptions and            *)
(* kGoMaxEventCode, scaled with the widths of EventCodes.                  *)
(***************************************************************************)
EXTENDS EventLoggers

CONSTANTS kGoMaxOptions, kGoMaxEventCode, kGoMaxDimensions

cobalt11MetricTypesSet == {"OCCURRENCE", "INTEGER", "INTEGER_HISTOGRAM", "STRING"}
HistogramMetrics == {"INT_HISTOGRAM", "INTEGER_HISTOGRAM"}
NoBuckets == [kind |-> "none"]

Distinct(seq, Key(_)) == \A i, j \in DOMAIN seq : i # j => Key(seq[i]) # Key(seq[j])
-----------------------------------------------------------------------------
(* Buckets.  "unset" is an int_buckets whose oneof is empty.                *)
validateIntBuckets(b) ==
  \/ b.kind = "linear" /\ b.num_buckets >= 1 /\ b.step >= 1
  \/ b.kind = "exponential" /\ b.num_buckets >= 1 /\ b.step >= 1 /\ b.mult >= 1

checkHasIntBuckets(m, r) ==
  IF m.metric_type \in HistogramMetrics
  THEN m.int_buckets # NoBuckets /\ r.int_buckets = NoBuckets
  ELSE /\ m.int_buckets = NoBuckets
       /\ r.report_type \in {"PER_DEVICE_HISTOGRAM", "INT_RANGE_HISTOGRAM", "UNIQUE_DEVICE_HISTOGRAMS",
                             "HOURLY_VALUE_HISTOGRAMS", "FLEETWIDE_HISTOGRAMS"}
          => r.int_buckets # NoBuckets

validateIntBucketsForReport(m, r) ==
  /\ checkHasIntBuckets(m, r)
  /\ IF r.int_buckets # NoBuckets THEN validateIntBuckets(r.int_buckets)
     ELSE m.int_buckets # NoBuckets => validateIntBuckets(m.int_buckets)
-----------------------------------------------------------------------------
(* Reports.                                                                 *)
allowedReportTypes ==
  LET performance == {"INT_RANGE_HISTOGRAM", "NUMERIC_AGGREGATION", "NUMERIC_PERF_RAW_DUMP",
                      "PER_DEVICE_NUMERIC_STATS", "PER_DEVICE_HISTOGRAM"}
      device == {"UNIQUE_DEVICE_HISTOGRAMS", "HOURLY_VALUE_HISTOGRAMS",
                 "UNIQUE_DEVICE_NUMERIC_STATS", "HOURLY_VALUE_NUMERIC_STATS"}
  IN  [EVENT_OCCURRED |-> {"SIMPLE_OCCURRENCE_COUNT", "UNIQUE_N_DAY_ACTIVES"},
       EVENT_COUNT |-> {"EVENT_COMPONENT_OCCURRENCE_COUNT", "INT_RANGE_HISTOGRAM", "NUMERIC_AGGREGATION",
                        "PER_DEVICE_NUMERIC_STATS", "PER_DEVICE_HISTOGRAM"},
       ELAPSED_TIME |-> performance, FRAME_RATE |-> performance, MEMORY_USAGE |-> performance,
       INT_HISTOGRAM |-> {"INT_RANGE_HISTOGRAM"},
       OCCURRENCE |-> device \cup {"FLEETWIDE_OCCURRENCE_COUNTS", "UNIQUE_DEVICE_COUNTS"},
       INTEGER |-> device \cup {"FLEETWIDE_HISTOGRAMS", "FLEETWIDE_MEANS"},
       INTEGER_HISTOGRAM |-> {"FLEETWIDE_HISTOGRAMS"},
       STRING |-> {"STRING_HISTOGRAMS"},
       CUSTOM |-> {"CUSTOM_RAW_DUMP"}]

validateReportType(mt, rt) ==
  rt # "REPORT_TYPE_UNSET" /\ mt \in DOMAIN allowedReportTypes /\ rt \in allowedReportTypes[mt]

validateWindowSize(r) == r.window_size # << >> /\ \A i \in DOMAIN r.window_size : r.window_size[i] # 0

(* Mutant: a SIMPLE_OCCURRENCE_COUNT report needs no noise level.           *)
NoiseLevelNotRequired(r) == TRUE

validateLocalPrivacyNoiseLevel(r) == r.local_privacy_noise_level # "UNSET"

validatePercentiles(r) == r.percentiles \subseteq 0 .. 100

validateReportDefinitionForType(r) ==
  CASE r.report_type = "SIMPLE_OCCURRENCE_COUNT" -> validateLocalPrivacyNoiseLevel(r)
    [] r.report_type = "UNIQUE_N_DAY_ACTIVES" -> validateWindowSize(r) /\ validateLocalPrivacyNoiseLevel(r)
    [] r.report_type = "PER_DEVICE_NUMERIC_STATS" -> validateWindowSize(r)
    [] r.report_type = "PER_DEVICE_HISTOGRAM" -> r.int_buckets # NoBuckets /\ validateWindowSize(r)
    [] r.report_type = "NUMERIC_AGGREGATION" -> validatePercentiles(r)
    [] r.report_type = "STRING_HISTOGRAMS" -> r.int_buckets = NoBuckets
    [] OTHER -> TRUE

validateReportDefinition(r) == r.report_name # "" /\ r.id # 0 /\ validateReportDefinitionForType(r)

validateReportDefinitionForMetric(m, r) ==
  /\ validateReportType(m.metric_type, r.report_type)
  /\ validateIntBucketsForReport(m, r)
  /\ validateReportDefinition(r)

validateReportDefinitions(m) ==
  /\ Distinct(m.reports, LAMBDA r : r.id)
  /\ Distinct(m.reports, LAMBDA r : r.report_name)
  /\ \A i \in DOMAIN m.reports : validateReportDefinitionForMetric(m, m.reports[i])
-----------------------------------------------------------------------------
(* Metrics.  An expiration date is "", "bad", "late" or one that is fine.   *)
validateMetadata(m) ==
  /\ m.expiration_date \notin {"", "bad", "late"}
  /\ "bad" \notin m.owner
  /\ m.max_release_stage # 0

(* Mutant: large codes are accepted in any number of dimensions.            *)
validateMetricDimensionLarge(m, d) ==
  LET names == {d.event_codes[c] : c \in DOMAIN d.event_codes}
  IN  /\ d.dimension # ""
      /\ Cardinality(names) = Cardinality(DOMAIN d.event_codes)
      /\ \A from \in DOMAIN d.event_code_aliases : from \in names /\ d.event_code_aliases[from] \notin names
      /\ d.event_codes # << >> \/ d.max_event_code # 0
      /\ \A code \in DOMAIN d.event_codes :
           code <= IF d.max_event_code # 0 THEN d.max_event_code ELSE kGoMaxEventCode - 1

(* A dimension is [dimension, event_codes (code to name), event_code_aliases*)
(* (name to alias), max_event_code].                                        *)
validateMetricDimension(m, d) ==
  LET cobalt10 == m.metric_type \notin cobalt11MetricTypesSet
      names == {d.event_codes[c] : c \in DOMAIN d.event_codes}
  IN  /\ d.dimension # ""
      /\ Cardinality(names) = Cardinality(DOMAIN d.event_codes)
      /\ \A from \in DOMAIN d.event_code_aliases : from \in names /\ d.event_code_aliases[from] \notin names
      /\ d.event_codes # << >> \/ d.max_event_code # 0
      /\ \A code \in DOMAIN d.event_codes :
           IF d.max_event_code # 0 THEN code <= d.max_event_code
           ELSE /\ ~(cobalt10 /\ code >= kGoMaxOptions /\ Len(m.metric_dimensions) > kGoMaxDimensions - 1)
                /\ code < kGoMaxEventCode

NumOptions(dims) ==
  FoldLeft(LAMBDA n, d : n * (IF d.max_event_code # 0 THEN d.max_event_code + 1
                              ELSE Cardinality(DOMAIN d.event_codes)), 1, dims)

validateMetricDimensions(m) ==
  LET dims == m.metric_dimensions
  IN  dims # << >> =>
        /\ Len(dims) <= kGoMaxDimensions
        /\ Distinct(dims, LAMBDA d : d.dimension)
        /\ \A i \in DOMAIN dims : validateMetricDimension(m, dims[i])
        /\ m.metric_type \notin cobalt11MetricTypesSet => NumOptions(dims) < kGoMaxOptions

validateMetricUnits(m) ==
  LET unit == m.metric_units # "OTHER"
      other == m.metric_units_other # ""
  IN  IF m.metric_type \in {"INTEGER", "INTEGER_HISTOGRAM"} THEN unit # other ELSE ~unit /\ ~other

validateEventOccurred(m) ==
  Len(m.metric_dimensions) = 1 /\ m.metric_dimensions[1].max_event_code # 0

validateIntHistogram(m) ==
  /\ m.int_buckets # NoBuckets
  /\ \A i \in DOMAIN m.reports : m.reports[i].int_buckets = NoBuckets

validateString(m) == m.string_candidate_file # "" /\ m.string_buffer_max # 0

validateCustomOld(m) ==
  m.metric_dimensions = << >> /\ m.parts # {} /\ "" \notin m.parts

validateCustom(m) ==
  validateCustomOld(m) \/ (m.metric_dimensions = << >> /\ m.proto_name # "")

validateMetricDefinitionForType(m) ==
  CASE m.metric_type = "EVENT_OCCURRED" -> validateEventOccurred(m)
    [] m.metric_type \in HistogramMetrics -> validateIntHistogram(m)
    [] m.metric_type = "CUSTOM" -> validateCustom(m)
    [] m.metric_type = "STRING" -> validateString(m)
    [] m.metric_type \in {"EVENT_COUNT", "FRAME_RATE", "MEMORY_USAGE", "ELAPSED_TIME", "OCCURRENCE", "INTEGER"} -> TRUE
    [] OTHER -> FALSE

validateMetricDefinition(m) ==
  /\ m.metric_name # "" /\ m.id # 0 /\ m.metric_type # "UNSET"
  /\ validateMetadata(m)
  /\ validateMetricUnits(m)
  /\ m.int_buckets # NoBuckets => m.metric_type \in HistogramMetrics
  /\ m.parts # {} => m.metric_type = "CUSTOM"
  /\ m.proto_name # "" => m.metric_type = "CUSTOM"
  /\ (m.metric_semantics # {}) = (m.metric_type \in cobalt11MetricTypesSet)
  /\ validateMetricDefinitionForType(m)
  /\ m.metric_type # "CUSTOM" => validateMetricDimensions(m)
  /\ validateReportDefinitions(m)

validateConfiguredMetricDefinitions(metrics) ==
  /\ Distinct(metrics, LAMBDA m : m.id)
  /\ Distinct(metrics, LAMBDA m : m.metric_name)
  /\ \A i \in DOMAIN metrics : validateMetricDefinition(metrics[i])
-----------------------------------------------------------------------------
(* The change validator, when compatibility is not waived.                  *)
DebugStage == 10

(* Mutant: codes may be removed.                                            *)
CompareDimensionsNothing(old, new) == TRUE

CompareDimensions(old, new) == DOMAIN old.event_codes \subseteq DOMAIN new.event_codes

CompareMetrics(old, new) ==
  \/ old.max_release_stage <= DebugStage
  \/ new.max_release_stage <= DebugStage
  \/ \A i \in DOMAIN old.metric_dimensions \cap DOMAIN new.metric_dimensions :
       /\ CompareDimensions(old.metric_dimensions[i], new.metric_dimensions[i])
       /\ "EVENT_OCCURRED" \in {old.metric_type, new.metric_type} =>
            old.metric_dimensions[i].max_event_code = new.metric_dimensions[i].max_event_code

(* CompareRegistries, CompareCustomers and CompareProjects: the metrics of  *)
(* both registries that have one name, within one project.                  *)
CompareProjects(old, new) ==
  /\ \A i \in DOMAIN old, j \in DOMAIN new :
       old[i].metric_name = new[j].metric_name => CompareMetrics(old[i], new[j])
  /\ \A j \in DOMAIN new : ~new[j].also_log_locally
=============================================================================
