----------------------------- MODULE MCLibrary ------------------------------
(***************************************************************************)
(* The components that run on their own, each with its own state: the      *)
(* Clearcut uploader, the registry's way from yaml to a Logger, StatusOr,  *)
(* the calendar functions and the local aggregation of Cobalt 1.1.  They   *)
(* share no state, so that a behaviour is one of a single component: the   *)
(* state spaces add up instead of multiplying.                             *)
(***************************************************************************)
EXTENDS ClearcutUploader, ConfigParser, StatusOr, DatetimeUtil, LocalAggregation

VARIABLE part     (* the component this behaviour is about                  *)

statusOrVars == <<object, holds>>
-----------------------------------------------------------------------------
(* Registries: plain ones, ones that clash with each other, and ones with  *)
(* ids out of range, reserved, repeated or missing.                        *)
Rep(n) == [id |-> n, report_name |-> "r"]
Met(n, name) == [id |-> n, metric_name |-> name, reports |-> <<Rep(1), Rep(2)>>]
Proj(name, id, ms) == [project_name |-> name, project_id |-> id, version |-> 1, contact |-> "x", metrics |-> ms]
Cust(name, id, ps) == [customer_name |-> name, customer_id |-> id, projects |-> ps]
Dir(cs) == [readable |-> TRUE, customers |-> cs]
Two == <<Met(2, "b"), Met(1, "a")>>
MCConfigDirs ==
  [plain |-> Dir(<<Cust("fuchsia", 2, <<Proj("net", 5, Two), Proj("ui", 1, <<Met(1, "a")>>)>>),
                   Cust("other", 1, <<Proj("net", 5, <<Met(1, "b")>>)>>), Cust("idle", 4, << >>)>>),
   extra |-> Dir(<<Cust("cobalt_internal", 3, <<Proj("metrics", 1, Two)>>)>>),
   clash |-> Dir(<<Cust("third", 2, <<Proj("net", 5, <<Met(1, "c")>>)>>)>>),
   single |-> Dir(<<Cust("solo", 1, <<Proj("one", 2, Two)>>)>>),
   wide |-> Dir(<<Cust("solo", 1, <<Proj("one", 2, Two), Proj("two", 10, Two)>>)>>),
   wideCustomer |-> Dir(<<Cust("solo", 1, <<Proj("one", 2, Two)>>), Cust("duo", 9, <<Proj("one", 2, << >>)>>)>>),
   wideProject |-> Dir(<<Cust("solo", 1, <<Proj("one", 11, Two)>>)>>),
   reserved |-> Dir(<<Cust("solo", 3, <<Proj("one", 2, Two)>>)>>),
   twice |-> Dir(<<Cust("solo", 1, <<Proj("one", 2, <<Met(1, "a"), Met(1, "b")>>)>>)>>),
   noId |-> Dir(<<Cust("solo", 1, <<Proj("one", 2, <<Met(0, "a")>>)>>)>>),
   gone |-> [readable |-> FALSE, customers |-> << >>]]
Dirs == DOMAIN MCConfigDirs
Flags(rs, ds, yaml, c, p, v1) ==
  [repos |-> rs, dirs |-> ds, file |-> yaml, customer_id |-> c, project_id |-> p, v1 |-> v1]
MCFlagSets ==
  LET lists == {<<d>> : d \in Dirs} \cup {<<d, e>> : d, e \in {"plain", "extra", "clash", "gone", "single"}}
      base == {Flags(<< >>, ds, "", -1, -1, FALSE) : ds \in lists} \cup {Flags(ds, << >>, "", -1, -1, FALSE) : ds \in lists}
              \cup {Flags(<< >>, ds, "", c, p, FALSE) : ds \in {<<"plain">>, <<"plain", "extra">>}, c \in {1, 2}, p \in {1, 5}}
              \cup {Flags(<< >>, << >>, d, c, 1, v) : d \in {"plain", "twice"}, c \in {-1, 2}, v \in BOOLEAN}
              \cup {Flags(<<"single">>, <<"extra">>, "plain", 1, 1, TRUE), Flags(<< >>, << >>, "", -1, -1, FALSE),
                    Flags(<<"single">>, <<"extra">>, "", -1, -1, FALSE)}
  IN  {[repos |-> f.repos, dirs |-> f.dirs, file |-> f.file, customer_id |-> f.customer_id,
        project_id |-> f.project_id, v1 |-> f.v1, skip_validation |-> s[1], for_client |-> s[2]] :
       f \in base, s \in {<<FALSE, TRUE>>, <<FALSE, FALSE>>, <<TRUE, TRUE>>}}
-----------------------------------------------------------------------------
MCKeys == {<<1, 1>>, <<2, 1>>}
MCRegistries == {{<<1, 1>>, <<2, 1>>}, {<<1, 1>>}, {}}
-----------------------------------------------------------------------------
Init ==
  /\ part \in {"uploader", "parser", "statusor", "datetime", "local"}
  /\ UploaderInit /\ (part # "uploader" => timeout = 0)
  /\ ParserInit /\ StatusOrInit /\ DatetimeInit /\ LocalInit

Next ==
  \/ /\ part = "uploader" /\ UploaderNext
     /\ UNCHANGED <<part, parser, statusOrVars, datetimeVars, localVars>>
  \/ /\ part = "parser" /\ ParserNext
     /\ UNCHANGED <<part, uploaderVars, statusOrVars, datetimeVars, localVars>>
  \/ /\ part = "statusor" /\ StatusOrNext
     /\ UNCHANGED <<part, uploaderVars, parser, datetimeVars, localVars>>
  \/ /\ part = "datetime" /\ DayPasses
     /\ UNCHANGED <<part, uploaderVars, parser, statusOrVars, localVars>>
  \/ /\ part = "local" /\ LocalNext
     /\ UNCHANGED <<part, uploaderVars, parser, statusOrVars, datetimeVars>>

Spec == Init /\ [][Next]_<<part, uploaderVars, parser, statusOrVars, datetimeVars, localVars>>
=============================================================================
