-------------------------- MODULE MCCobaltService ---------------------------
(* Scenarios: the clock and the queue with two clients; the policies; and   *)
(* metric definitions, most of them good, some wrong in one place, with the *)
(* events that probe them.                                                  *)
EXTENDS CobaltService

MCProfile == [OS |-> "os", CHANNEL |-> "channel", REALM |-> "realm"]

MCReport ==
  [id |-> 1, report_name |-> "r", report_type |-> "NUMERIC_AGGREGATION", int_buckets |-> NoBuckets,
   window_size |-> <<1>>, local_privacy_noise_level |-> "NONE", percentiles |-> {50},
   aggregation_type |-> "SUM", system_profile_field |-> {"OS", "REALM"}]

MCMetric ==
  [id |-> 11, metric_name |-> "m", project |-> "p", metric_type |-> "EVENT_COUNT",
   metric_dimensions |-> << >>, int_buckets |-> NoBuckets, reports |-> <<MCReport>>,
   time_zone_policy |-> "LOCAL", max_release_stage |-> 99, expiration_date |-> "soon", owner |-> {"me"},
   metric_units |-> "OTHER", metric_units_other |-> "", parts |-> {}, proto_name |-> "",
   metric_semantics |-> {}, string_candidate_file |-> "", string_buffer_max |-> 0,
   also_log_locally |-> FALSE]

MCDimension(name, codes, max) ==
  [dimension |-> name, event_codes |-> codes, event_code_aliases |-> << >>, max_event_code |-> max]

MCCodes(set) == [c \in set |-> <<"name", c>>]

MCInternal(id, name, dims) ==
  [MCMetric EXCEPT !.id = id, !.metric_name = name, !.project = InternalProject, !.metric_dimensions = dims]
MCMethods == <<MCDimension("method", MCCodes({0}), 0)>>
MCInternalMetrics ==
  (1 :> MCInternal(1, "calls", MCMethods)) @@ (2 :> MCInternal(2, "project_calls", MCMethods))
  @@ (3 :> MCInternal(3, "cached", << >>)) @@ (4 :> MCInternal(4, "dropped", << >>))
MCIds == [calls |-> 1, project_calls |-> 2, cached |-> 3, dropped |-> 4]

MCScenario(registry, built, events, internal, valid) ==
  [registry |-> IF internal THEN registry @@ MCInternalMetrics ELSE registry, built |-> built, ids |-> MCIds,
   project |-> [c \in Clients |-> "p"], events |-> events, internal |-> internal, valid |-> valid,
   stage |-> 20, accurate |-> ~valid, ticks |-> 0, faults |-> 0, policies |-> << >>, ships |-> 0,
   late |-> {}]
-----------------------------------------------------------------------------
(* A metric with an immediate and an aggregated report, and one more        *)
(* project.                                                                 *)
MCTwoReports ==
  (11 :> [MCMetric EXCEPT !.reports =
     <<MCReport, [MCReport EXCEPT !.id = 2, !.report_name = "s", !.report_type = "PER_DEVICE_NUMERIC_STATS"]>>])
  @@ (12 :> [MCMetric EXCEPT !.id = 12, !.metric_name = "n", !.project = "q"])

MCEvent(id) == EventRecord(id, "EVENT_COUNT", << >>, "c", 7, << >>)
MCCalls(n1, n2) == [c \in Clients |-> IF c = "c1" THEN [i \in 1 .. n1 |-> MCEvent(11)] ELSE [i \in 1 .. n2 |-> MCEvent(12)]]
MCBase(n1, n2, internal, valid) ==
  [MCScenario(MCTwoReports, MCTwoReports, MCCalls(n1, n2), internal, valid)
     EXCEPT !.built = << >>, !.project = [c \in Clients |-> IF c = "c1" THEN "p" ELSE "q"]]

MCClockScenarios ==
  {[MCBase(1, 1, TRUE, FALSE) EXCEPT !.ticks = 0],
   [MCBase(1, 0, TRUE, FALSE) EXCEPT !.ticks = 4, !.late = {"c1"}],
   [MCBase(1, 0, TRUE, FALSE) EXCEPT !.faults = 2],
   [MCBase(2, 0, FALSE, FALSE) EXCEPT !.ticks = 1],
   [MCBase(1, 0, TRUE, FALSE) EXCEPT !.stage = 100]}

MCPolicyScenarios ==
  {[MCBase(2, 0, FALSE, TRUE) EXCEPT !.policies = <<"DO_NOT_COLLECT", "COLLECT_AND_UPLOAD">>, !.ships = 1],
   [MCBase(1, 1, FALSE, TRUE) EXCEPT !.policies = <<"DO_NOT_UPLOAD", "DO_NOT_COLLECT">>, !.ships = 1]}

MCNotCollecting ==
  {[MCBase(1, 0, TRUE, FALSE) EXCEPT !.policies = <<"DO_NOT_COLLECT", "COLLECT_AND_UPLOAD">>]}
-----------------------------------------------------------------------------
(* A good metric of each type, and variants of it in one place.             *)
MCLinear == [kind |-> "linear", floor |-> 0, num_buckets |-> 2, step |-> 3]
MCBuckets == {NoBuckets, [kind |-> "unset"], MCLinear, [MCLinear EXCEPT !.step = 0], [MCLinear EXCEPT !.step = 12],
              [kind |-> "exponential", floor |-> 1, num_buckets |-> 3, step |-> 1, mult |-> 2]}

MCGood(t) ==
  CASE t = "EVENT_OCCURRED" ->
         [MCMetric EXCEPT !.metric_type = t, !.metric_dimensions = <<MCDimension("a", << >>, 2)>>,
                          !.reports = <<[MCReport EXCEPT !.report_type = "SIMPLE_OCCURRENCE_COUNT"]>>]
    [] t = "INT_HISTOGRAM" ->
         [MCMetric EXCEPT !.metric_type = t, !.int_buckets = MCLinear,
                          !.reports = <<[MCReport EXCEPT !.report_type = "INT_RANGE_HISTOGRAM"]>>]
    [] t = "CUSTOM" ->
         [MCMetric EXCEPT !.metric_type = t, !.proto_name = "proto",
                          !.reports = <<[MCReport EXCEPT !.report_type = "CUSTOM_RAW_DUMP"]>>]
    [] OTHER -> [MCMetric EXCEPT !.metric_type = t]

MCNames == <<"d1", "d2", "d3", "d4", "d5", "d6">>
MCDimensions ==
  LET a == {MCDimension("d1", MCCodes(p[1]), p[2]) :
              p \in {<<{}, 0>>, <<{}, 2>>, <<{}, 3>>, <<{1}, 2>>, <<{3}, 2>>, <<{0, 1}, 0>>, <<{0, 5}, 0>>, <<{0, 9}, 0>>}}
  IN  {<< >>} \cup {<<d>> : d \in a}
      \cup {<<MCDimension("d1", MCCodes({0}), 0), MCDimension(name, MCCodes({1}), 0)>> : name \in {"d1", "d2"}}
      \cup {[i \in 1 .. n |-> MCDimension(MCNames[i], MCCodes({code}), 0)] : n \in 4 .. 6, code \in {3, 5}}

MCReports(good) ==
  {<< >>, <<good, good>>, <<good, [good EXCEPT !.id = 2, !.report_name = "s"]>>}
  \cup {<<[good EXCEPT !.local_privacy_noise_level = l]>> : l \in {"UNSET", "LARGE"}}
  \cup {<<[good EXCEPT !.report_type = t, !.local_privacy_noise_level = l]>> :
          t \in {"SIMPLE_OCCURRENCE_COUNT", "UNIQUE_N_DAY_ACTIVES", "NUMERIC_AGGREGATION"}, l \in {"NONE", "UNSET"}}
  \cup {<<[good EXCEPT !.report_type = t, !.int_buckets = b]>> :
          t \in {"PER_DEVICE_HISTOGRAM", "INT_RANGE_HISTOGRAM"}, b \in MCBuckets}
  \cup {<<[good EXCEPT !.report_type = t, !.window_size = w]>> :
          t \in {"PER_DEVICE_NUMERIC_STATS", "UNIQUE_N_DAY_ACTIVES"}, w \in {<< >>, <<0>>, <<1, 2>>}}
  \cup {<<[good EXCEPT !.percentiles = {101}]>>, <<[good EXCEPT !.id = 0]>>}

MCVariants(good) ==
  {[good EXCEPT !.metric_dimensions = d] : d \in MCDimensions}
  \cup {[good EXCEPT !.reports = r] : r \in MCReports(good.reports[1])}
  \cup {[good EXCEPT !.int_buckets = b, !.reports = r] : b \in MCBuckets, r \in {<< >>, good.reports}}
  \cup {[good EXCEPT !.metric_name = ""], [good EXCEPT !.expiration_date = "late"],
        [good EXCEPT !.owner = {"bad"}], [good EXCEPT !.max_release_stage = 0],
        [good EXCEPT !.metric_units_other = "x"], [good EXCEPT !.parts = {"x"}],
        [good EXCEPT !.proto_name = "x"], [good EXCEPT !.metric_semantics = {"x"}]}

MCEvents(m) ==
  LET codes == IF m.metric_type = "EVENT_OCCURRED" THEN {<<0>>, <<2>>, <<3>>}
               ELSE {<<0>>, <<5>>} \cup {[i \in DOMAIN m.metric_dimensions |-> c] : c \in {3, 5}}
      values == CASE m.metric_type = "FRAME_RATE" -> {45}
                  [] m.metric_type = "EVENT_COUNT" -> {2, 3, 5}
                  [] OTHER -> {3}
      buckets == IF m.metric_type = "INT_HISTOGRAM" THEN {<<<<3, 1>>>>, <<<<4, 1>>>>} ELSE {<< >>}
  IN  {EventRecord(m.id, m.metric_type, c, "comp", v, b) : c \in codes, v \in values, b \in buckets}

MCOneCall(built, new, event) ==
  MCScenario(11 :> new, built, [c \in Clients |-> IF c = "c1" THEN <<event>> ELSE << >>], FALSE, TRUE)

MCRegistryScenarios ==
  UNION {UNION {{MCOneCall(<< >>, m, e) : e \in MCEvents(m)} : m \in MCVariants(MCGood(t))} : t \in MetricTypes}

(* A definition that replaces another one.                                  *)
MCChanges ==
  LET variants == {[MCMetric EXCEPT !.metric_dimensions = d] : d \in MCDimensions}
      events == {EventRecord(11, "EVENT_COUNT", c, "comp", 3, << >>) : c \in {<<0>>, <<2>>, <<5>>, <<0, 1>>}}
  IN  {MCOneCall(11 :> old, new, e) : old \in variants, new \in variants, e \in events}

MCScenarios == MCClockScenarios \cup MCPolicyScenarios \cup MCRegistryScenarios \cup MCChanges
=============================================================================
