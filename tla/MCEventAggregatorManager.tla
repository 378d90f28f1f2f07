---------------------- MODULE MCEventAggregatorManager ----------------------
(* Two reports: active days in UTC over windows of one and two days, and a  *)
(* sum in local time over one day.                                          *)
EXTENDS EventAggregatorManager

MCReport(metric, report, type, policy, windows) ==
  [metric_type |-> metric, report_type |-> report, aggregation_type |-> type,
   time_zone_policy |-> policy, window_size |-> << >>, aggregation_window |-> windows,
   num_event_codes |-> 1]

MCRegistry ==
  <<<<"u", MCReport("EVENT_OCCURRED", "UNIQUE_N_DAY_ACTIVES", "UNSET", "UTC",
                    <<<<"days", 2>>, <<"hours", 1>>, <<"days", 1>>>>)>>,
    <<"n", MCReport("EVENT_COUNT", "PER_DEVICE_NUMERIC_STATS", "SUM", "LOCAL", <<<<"days", 2>>>>)>>>>

MCEvents == {<<"u", <<0, 0>>, 1>>, <<"n", <<0, 1>>, 1>>, <<"n", <<0, 2>>, 2>>}

MCBudget(days, events, faults, deletes, toggles, restarts, old) ==
  [days |-> days, events |-> events, faults |-> faults, deletes |-> deletes,
   toggles |-> toggles, restarts |-> restarts, old |-> old]

MCBudgets ==
  {MCBudget(2, 2, 0, 0, 0, 0, FALSE),    \* events, two of them, over three days
   MCBudget(3, 0, 0, 0, 0, 0, TRUE),     \* the days an old store needs to be collected
   MCBudget(1, 0, 1, 0, 0, 1, TRUE),     \* a failure and a restart
   MCBudget(0, 1, 0, 1, 2, 0, FALSE),    \* an event, disabling and deletion
   MCBudget(0, 0, 1, 1, 0, 0, TRUE)}     \* a failure and a deletion
=============================================================================
