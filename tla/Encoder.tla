------------------------------ MODULE Encoder -------------------------------
(***************************************************************************)
(* src/src/logger/encoder.cc and the Basic RAPPOR it uses,                 *)
(* src/src/algorithms/rappor: what an Observation says.  An operation      *)
(* yields the set of its possible results [status, observation]: more than *)
(* one where bits are flipped at random.  Probabilities are in percent.    *)
(*                                                                         *)
(* A MetricDefinition is a record                                          *)
(*   [id, metric_type, project, metric_dimensions, int_buckets, reports,   *)
(*    time_zone_policy, max_release_stage, ...]                            *)
(* whose dimensions are [event_codes, max_event_code, ...], and a          *)
(* ReportDefinition is                                                     *)
(*   [id, report_type, local_privacy_noise_level, int_buckets, window_size,*)
(*    aggregation_type, system_profile_field, ...].                        *)
(***************************************************************************)
EXTENDS EventCodes, AggregationWindows

CONSTANTS max_num_categories,   \* 1024 in the code
          kBitsPerByte,         \* 8 in the code
          SystemProfile         \* the value of each SystemProfileField on the device

kInvalidConfig == "kInvalidConfig"
-----------------------------------------------------------------------------
(* Basic RAPPOR.                                                            *)
ProbBitFlip(report) ==
  CASE report.local_privacy_noise_level = "NONE" -> 0
    [] report.local_privacy_noise_level = "SMALL" -> 1
    [] report.local_privacy_noise_level = "MEDIUM" -> 10
    [] report.local_privacy_noise_level = "LARGE" -> 25
    [] OTHER -> -100

BasicRapporNumCategories(metric) ==
  IF Len(metric.metric_dimensions) = 1 THEN metric.metric_dimensions[1].max_event_code + 1 ELSE 0

CommonValidate(prob_0_becomes_1, prob_1_stays_1) ==
  /\ prob_0_becomes_1 \in 0 .. 100
  /\ prob_1_stays_1 \in 0 .. 100
  /\ prob_0_becomes_1 # prob_1_stays_1

ValidConfig(num_categories, p) == CommonValidate(p, 100 - p) /\ num_categories < max_num_categories

(* The bits of the data, the padding of the last byte included.             *)
DataBits(num_bits) ==
  0 .. kBitsPerByte * ((num_bits + kBitsPerByte - 1) \div kBitsPerByte) - 1

(* A bit that is set or not is kept or flipped, each on its own.            *)
FlipBits(data, num_bits, p) == IF p = 0 THEN {data} ELSE SUBSET DataBits(num_bits)

(* BasicRapporEncoder::Encode, with the status as TranslateBasic...Status   *)
(* returns it.                                                              *)
BasicRapporEncode(value, num_categories, p) ==
  IF ~ValidConfig(num_categories, p) THEN {[status |-> kInvalidConfig, data |-> {}]}
  ELSE IF value \notin 0 .. num_categories - 1 THEN {[status |-> kInvalidArguments, data |-> {}]}
  ELSE {[status |-> kOK, data |-> d] : d \in FlipBits({value}, num_categories, p)}

EncodeNullObservation(num_categories, p) ==
  IF ~ValidConfig(num_categories, p) THEN {[status |-> kInvalidConfig, data |-> {}]}
  ELSE {[status |-> kOK, data |-> d] : d \in FlipBits({}, num_categories, p)}
-----------------------------------------------------------------------------
Result(status, observation) == [status |-> status, observation |-> observation]

(* The hash of a component that is not empty.                               *)
HashComponentNameIfNotEmpty(component) == IF component = "" THEN << >> ELSE <<"hash", component>>

(* The metadata, with the body the caller fills in.  The field REALM is     *)
(* given the value of CHANNEL.                                              *)
MakeObservation(metric, report, day_index, body) ==
  [project |-> metric.project, metric |-> metric.id, report |-> report.id, day |-> day_index,
   profile |-> [f \in report.system_profile_field |-> SystemProfile[IF f = "REALM" THEN "CHANNEL" ELSE f]],
   body |-> body]

EncodeBasicRapporObservation(metric, report, day_index, value_index, num_categories) ==
  {Result(r.status, MakeObservation(metric, report, day_index, <<"basic_rappor", r.data>>)) :
     r \in BasicRapporEncode(value_index, num_categories, ProbBitFlip(report))}

EncodeIntegerEventObservation(metric, report, day_index, event_codes, component, value) ==
  {Result(kOK, MakeObservation(metric, report, day_index,
     <<"numeric_event", PackEventCodes(event_codes), HashComponentNameIfNotEmpty(component), value>>))}

EncodeHistogramObservation(metric, report, day_index, event_codes, component, histogram) ==
  {Result(kOK, MakeObservation(metric, report, day_index,
     <<"histogram", PackEventCodes(event_codes), HashComponentNameIfNotEmpty(component), histogram>>))}

EncodeCustomObservation(metric, report, day_index, event_values) ==
  {Result(kOK, MakeObservation(metric, report, day_index, <<"custom", event_values>>))}

(* The Observations of the locally aggregated reports.  An activity is one  *)
(* bit.                                                                     *)
EncodeNullBasicRapporObservation(metric, report, day_index, num_categories) ==
  {Result(r.status, MakeObservation(metric, report, day_index, <<"basic_rappor", r.data>>)) :
     r \in EncodeNullObservation(num_categories, ProbBitFlip(report))}

EncodeUniqueActivesObservation(metric, report, day_index, event_code, was_active, window) ==
  {Result(r.status, MakeObservation(metric, report, day_index,
     <<"unique_actives", event_code, window, r.observation.body[2]>>)) :
     r \in IF was_active THEN EncodeBasicRapporObservation(metric, report, day_index, 0, 1)
           ELSE EncodeNullBasicRapporObservation(metric, report, day_index, 1)}

EncodePerDeviceNumericObservation(metric, report, day_index, component, event_codes, value, window) ==
  {Result(r.status, [r.observation EXCEPT !.body = <<"per_device_numeric", window, @>>]) :
     r \in EncodeIntegerEventObservation(metric, report, day_index, event_codes, component, value)}

EncodePerDeviceHistogramObservation(metric, report, day_index, component, event_codes, value, window) ==
  LET floors == CreateFromProto(report.int_buckets)
      body(buckets) == <<"per_device_histogram", window, PackEventCodes(event_codes),
                         HashComponentNameIfNotEmpty(component), buckets>>
  IN  {Result(IF floors = << >> THEN kOther ELSE kOK,
              MakeObservation(metric, report, day_index,
                body(IF floors = << >> THEN << >> ELSE <<<<BucketIndex(floors, value), 1>>>>)))}
=============================================================================
