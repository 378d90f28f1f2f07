---------------------------- MODULE ConfigParser ----------------------------
(***************************************************************************)
(* How a metric gets from the yaml files of a registry to a Logger: the Go *)
(* tool src/src/bin/config_parser reads the customer lists and the project *)
(* configurations, merges, sorts and filters them; the device indexes the  *)
(* result (src/src/registry/project_configs.cc) and hands out project      *)
(* contexts (src/src/logger/project_context*.cc).                          *)
(*                                                                         *)
(* yaml is abstracted to the fields read: a project is [project_name,      *)
(* project_id, version, contact, metrics], a metric [id, metric_name,      *)
(* reports], a report [id, report_name].  A name or contact that is not    *)
(* usable is "".  Ids in yaml are Go ints; on the device they are uint32,  *)
(* here numbers below kIdRange.                                            *)
(***************************************************************************)
EXTENDS Integers, Sequences, FiniteSets, TLC, SequencesExt

CONSTANTS
  ConfigDirs,     (* from a directory to its customer list, [readable, customers] *)
  FlagSets,       (* command lines: see ParseConfigFromFlags               *)
  kIdRange        (* 2^32                                                  *)

VARIABLE parser   (* [pc, flags, configs, registry, index, contexts, taken, depfile] *)

Error == [ok |-> FALSE, list |-> << >>]
Ok(list) == [ok |-> TRUE, list |-> list]
AllDistinct(seq, Key(_)) == \A a, b \in DOMAIN seq : Key(seq[a]) = Key(seq[b]) => a = b
-----------------------------------------------------------------------------
(* project_list.go                                                         *)
populateProjectConfig(p) ==
  p.project_name # "" /\ p.version = 1 /\ p.project_id > 0 /\ p.contact # ""

Truncated(p) == p.project_id % kIdRange

populateProjectList(ps) ==
  /\ \A k \in DOMAIN ps : populateProjectConfig(ps[k])
  /\ AllDistinct(ps, LAMBDA p : p.project_name)
  /\ AllDistinct(ps, LAMBDA p : Truncated(p))

ReservedId == kIdRange \div 2 - 1

(* The entries of a customer list, flattened to project configurations.    *)
(* Customer ids are compared before they are cut to 32 bits.  A customer   *)
(* without a project list, or whose projects are not a list, has none.     *)
parseCustomerList(y) ==
  IF /\ \A k \in DOMAIN y : /\ y[k].customer_name # "" /\ y[k].customer_id >= 0
                            /\ y[k].customer_id = ReservedId => y[k].customer_name = "cobalt_internal"
                            /\ populateProjectList(y[k].projects)
     /\ AllDistinct(y, LAMBDA c : c.customer_name)
     /\ AllDistinct(y, LAMBDA c : c.customer_id)
  THEN Ok(FlattenSeq([k \in DOMAIN y |-> [j \in DOMAIN y[k].projects |->
            [customer_name |-> y[k].customer_name, customer_id |-> y[k].customer_id % kIdRange,
             project_name |-> y[k].projects[j].project_name, project_id |-> Truncated(y[k].projects[j]),
             version |-> 1, metrics |-> y[k].projects[j].metrics]]]))
  ELSE Error
-----------------------------------------------------------------------------
(* config_reader.go and project_config.go                                  *)

Stamp(c, m) == [id |-> m.id, metric_name |-> m.metric_name, reports |-> m.reports, customer_id |-> c.customer_id,
                project_id |-> c.project_id, customer_name |-> c.customer_name, project_name |-> c.project_name]

parseProjectConfig(c) ==
  IF \A k \in DOMAIN c.metrics : /\ c.metrics[k].id # 0
                                 /\ \A j \in DOMAIN c.metrics[k].reports : c.metrics[k].reports[j].id # 0
  THEN Ok(<<[c EXCEPT !.metrics = [k \in DOMAIN c.metrics |-> Stamp(c, c.metrics[k])]]>>)
  ELSE Error

(* The reader of a directory: its customer list and a file per project.    *)
configDirReader(dir) == IF ConfigDirs[dir].readable THEN Ok(ConfigDirs[dir].customers) ELSE Error

(* The reader of a single file, which has no customer list.                *)
configFileReader(file) == ConfigDirs[file].customers[1].projects[1].metrics

readProjectsList(r) == IF r.ok THEN parseCustomerList(r.list) ELSE Error

ReadConfig(r) ==
  LET l == readProjectsList(r)
      read == [k \in DOMAIN l.list |-> parseProjectConfig(l.list[k])]
  IN  IF l.ok /\ \A k \in DOMAIN read : read[k].ok
      THEN Ok(FlattenSeq([k \in DOMAIN read |-> read[k].list])) ELSE Error

ReadConfigFromDir(dir) == ReadConfig(configDirReader(dir))

(* git.go: the repository is cloned to a directory; a clone that fails or  *)
(* times out is a directory that cannot be read.                           *)
ReadConfigFromRepo(repo) == ReadConfigFromDir(repo)

(* The first project of the list that has the ids.                         *)
ReadProjectConfigFromDir(dir, customer, project) ==
  LET l == readProjectsList(configDirReader(dir))
      found == SelectSeq(l.list, LAMBDA c : c.customer_id = customer /\ c.project_id = project)
  IN  IF l.ok /\ found # << >> THEN parseProjectConfig(found[1]) ELSE Error

(* The ids come from the command line, and there are no names.             *)
ReadConfigFromYaml(f) ==
  parseProjectConfig([customer_name |-> "", customer_id |-> f.customer_id, project_name |-> "",
                      project_id |-> f.project_id, version |-> IF f.v1 THEN 1 ELSE 0,
                      metrics |-> configFileReader(f.file)])

cmpConfigEntry(a, b) ==
  \/ a.customer_id < b.customer_id
  \/ a.customer_id = b.customer_id /\ a.project_id < b.project_id
  \/ a.customer_id = b.customer_id /\ a.project_id = b.project_id /\ a.id < b.id

v1ProjectConfig(c) ==
  [project_name |-> c.project_name, project_id |-> c.project_id,
   metrics |-> SortSeq(c.metrics, cmpConfigEntry)]

(* Mutant: the projects of a customer stay in the order of the files.      *)
MergeConfigsUnsorted(l) ==
  LET v1 == SelectSeq(l, LAMBDA c : c.version = 1)
      ids == {v1[k].customer_id : k \in DOMAIN v1}
      Of(id) == SelectSeq(v1, LAMBDA c : c.customer_id = id)
  IN  [k \in 1 .. Cardinality(ids) |->
        LET id == SetToSortSeq(ids, <)[k] IN
        [customer_id |-> id, customer_name |-> Of(id)[1].customer_name,
         projects |-> [j \in DOMAIN Of(id) |-> v1ProjectConfig(Of(id)[j])]]]

(* Customers by id, the projects of a customer by id, metrics by id.  The  *)
(* first configuration of a customer gives its name.                       *)
MergeConfigs(l) ==
  LET v1 == SelectSeq(l, LAMBDA c : c.version = 1)
      ids == {v1[k].customer_id : k \in DOMAIN v1}
      Of(id) == SelectSeq(v1, LAMBDA c : c.customer_id = id)
      Sorted(id) == SortSeq(Of(id), LAMBDA a, b : a.project_id < b.project_id)
  IN  [k \in 1 .. Cardinality(ids) |->
        LET id == SetToSortSeq(ids, <)[k] IN
        [customer_id |-> id, customer_name |-> Of(id)[1].customer_name,
         projects |-> [j \in DOMAIN Of(id) |-> v1ProjectConfig(Sorted(id)[j])]]]
-----------------------------------------------------------------------------
(* config_parser.go.  Set means given on the command line.  The condition  *)
(* compares Booleans from left to right.                                   *)
checkFlags(f) ==
  LET none == [repo |-> f.repos = << >>, dir |-> f.dirs = << >>, file |-> f.file = ""]
  IN  /\ ((none.repo = none.dir) = none.file) = FALSE
      /\ ~(none.file /\ none.dir /\ (f.customer_id >= 0 \/ f.project_id >= 0))
      /\ f.v1 => ~none.file
      /\ ~none.file => f.customer_id >= 0 /\ f.project_id >= 0

(* Mutant: customers of a second directory may repeat an id.               *)
appendNewCustomersAny(acc, new) == IF acc.ok /\ new.ok THEN Ok(acc.list \o new.list) ELSE Error

appendNewCustomers(acc, new) ==
  IF /\ acc.ok /\ new.ok
     /\ \A a \in Range(acc.list), b \in Range(new.list) : a.customer_id # b.customer_id
  THEN Ok(acc.list \o new.list) ELSE Error

(* A command line is [repos, dirs, file, customer_id, project_id, v1,      *)
(* skip_validation, for_client]; an id that is not given is -1.            *)
ParseConfigFromFlags(f) ==
  LET Read(d) == IF f.customer_id >= 0 /\ f.project_id >= 0
                 THEN ReadProjectConfigFromDir(d, f.customer_id, f.project_id) ELSE ReadConfigFromDir(d)
      All(ds, From(_)) == FoldLeft(LAMBDA acc, d : appendNewCustomers(acc, From(d)), Ok(<< >>), ds)
  IN  IF ~checkFlags(f) THEN Error
      ELSE IF f.repos # << >> THEN All(f.repos, ReadConfigFromRepo)
      ELSE IF f.file # "" THEN ReadConfigFromYaml(f)
      ELSE All(f.dirs, Read)

(* The files a directory's configuration consists of: <<dir>> is its       *)
(* projects.yaml, <<dir, customer, project>> a metrics.yaml.               *)
GetConfigFilesListFromConfigDir(dir) ==
  LET l == readProjectsList(configDirReader(dir))
  IN  IF l.ok THEN {<<dir>>} \cup {<<dir, c.customer_name, c.project_name>> : c \in Range(l.list)} ELSE {}

(* For a dep file; an error of a directory but the last is not reported.   *)
GetConfigFilesListFromFlags(f) ==
  IF f.file # "" THEN {<<f.file>>}
  ELSE UNION {GetConfigFilesListFromConfigDir(d) : d \in Range(f.dirs)}

(* validator.go: what the validator of metric definitions (see             *)
(* RegistryValidator) requires of ids and names.                           *)
ValidateProjectConfigs(l) ==
  \A k \in DOMAIN l :
    /\ l[k].version # 0
    /\ AllDistinct(l[k].metrics, LAMBDA m : m.id)
    /\ AllDistinct(l[k].metrics, LAMBDA m : m.metric_name)
    /\ \A j \in DOMAIN l[k].metrics :
         AllDistinct(l[k].metrics[j].reports, LAMBDA r : r.id)

(* filter.go: the fields of a metric that are hidden on the client.        *)
FilterHideOnClient(r) ==
  [k \in DOMAIN r |-> [r[k] EXCEPT !.projects =
    [j \in DOMAIN @ |-> [@[j] EXCEPT !.metrics =
      [n \in DOMAIN @ |-> [@[n] EXCEPT !.customer_name = "", !.project_name = ""]]]]]]
-----------------------------------------------------------------------------
(* The device.  An index maps a key to the last entry that has it.         *)
IndexBy(seq, Key(_)) ==
  [k \in {Key(seq[n]) : n \in DOMAIN seq} |-> seq[Max({n \in DOMAIN seq : Key(seq[n]) = k})]]

(* ProjectConfigs::ProjectConfigs                                          *)
ProjectConfigs(r) ==
  LET projects == FlattenSeq([k \in DOMAIN r |-> [j \in DOMAIN r[k].projects |->
                    [customer_id |-> r[k].customer_id, config |-> r[k].projects[j]]]])
      metrics == FlattenSeq([k \in DOMAIN projects |-> [j \in DOMAIN projects[k].config.metrics |->
                    [customer_id |-> projects[k].customer_id, project_id |-> projects[k].config.project_id,
                     definition |-> projects[k].config.metrics[j]]]])
  IN  [is_empty |-> r = << >>,
       is_single_project |-> Len(r) = 1 /\ Len(projects) = 1,
       single_customer |-> IF r = << >> THEN [id |-> 0, name |-> ""]
                           ELSE [id |-> r[1].customer_id, name |-> r[1].customer_name],
       customers_by_id |-> IndexBy(r, LAMBDA c : c.customer_id),
       projects_by_id |-> IndexBy(projects, LAMBDA p : <<p.customer_id, p.config.project_id>>),
       metrics_by_id |-> IndexBy(metrics, LAMBDA m : <<m.customer_id, m.project_id, m.definition.id>>)]

(* A factory whose project_configs_ is null finds nothing.                 *)
NoConfigs == ProjectConfigs(<< >>)

GetMetricDefinition(index, c, p, m) ==
  IF <<c, p, m>> \in DOMAIN index.metrics_by_id
  THEN index.metrics_by_id[<<c, p, m>>].definition.metric_name ELSE "null"

ListProjects(index) == DOMAIN index.projects_by_id

(* ProjectContext::ProjectContext leaves out the metrics of other projects.*)
ProjectContext(customer, name, config) ==
  LET mine == SelectSeq(config.metrics,
                LAMBDA m : m.customer_id = customer /\ m.project_id = config.project_id)
  IN  [customer_id |-> customer, customer_name |-> name,
       project_id |-> config.project_id, project_name |-> config.project_name,
       metrics_by_name |-> IndexBy(mine, LAMBDA m : m.metric_name),
       metrics_by_id |-> IndexBy(mine, LAMBDA m : m.id)]

(* The first GetMetric looks an id up, the second a name; either finds a   *)
(* set with one metric, or an empty one for nullptr.                       *)
GetMetric(ctx, metric_id) == {ctx.metrics_by_id[i] : i \in DOMAIN ctx.metrics_by_id \cap {metric_id}}
GetMetricByName(ctx, name) == {ctx.metrics_by_name[n] : n \in DOMAIN ctx.metrics_by_name \cap {name}}

ListMetrics(ctx) == DOMAIN ctx.metrics_by_id

(* The context NewProjectContext returns, as a set: empty for nullptr.     *)
ContextOf(index, c, p) ==
  IF c \in DOMAIN index.customers_by_id /\ <<c, p>> \in DOMAIN index.projects_by_id
  THEN {ProjectContext(c, index.customers_by_id[c].customer_name, index.projects_by_id[<<c, p>>].config)}
  ELSE {}

TakeSingleProjectConfig(index) == (CHOOSE p \in Range(index.projects_by_id) : TRUE).config
-----------------------------------------------------------------------------
ParserInit == parser = [pc |-> "start", flags |-> << >>, configs |-> << >>, registry |-> << >>,
                        index |-> NoConfigs, contexts |-> {}, taken |-> {}, depfile |-> {}]

(* main: an error of any step ends the tool without output.                *)
Parse(f) ==
  /\ parser.pc = "start"
  /\ LET c == ParseConfigFromFlags(f) IN
     parser' = [parser EXCEPT !.pc = IF c.ok THEN "parsed" ELSE "failed", !.flags = f, !.configs = c.list,
                              !.depfile = IF checkFlags(f) /\ f.repos = << >> THEN GetConfigFilesListFromFlags(f) ELSE {}]

Validate ==
  /\ parser.pc = "parsed"
  /\ parser' = [parser EXCEPT !.pc = IF parser.flags.skip_validation \/ ValidateProjectConfigs(parser.configs) THEN "valid" ELSE "failed"]

Written(l) == IF parser.flags.for_client THEN FilterHideOnClient(MergeConfigs(l)) ELSE MergeConfigs(l)

Output ==
  /\ parser.pc = "valid"
  /\ parser' = [parser EXCEPT !.pc = "output", !.registry = Written(parser.configs)]

(* ProjectContextFactory on the bytes; bytes that do not parse are an empty*)
(* registry.                                                               *)
CreateFactory(parses) ==
  /\ parser.pc = "output"
  /\ parser' = [parser EXCEPT !.pc = IF parses THEN "device" ELSE "corrupt",
                              !.index = ProjectConfigs(IF parses THEN parser.registry ELSE << >>)]

NewProjectContext(c, p) ==
  /\ parser.pc \in {"device", "corrupt", "taken"}
  /\ parser' = [parser EXCEPT !.contexts = @ \cup ContextOf(parser.index, c, p)]

TakeSingleProjectContext ==
  /\ parser.pc = "device" /\ parser.index.is_single_project
  /\ parser' = [parser EXCEPT !.pc = "taken", !.index = NoConfigs,
                  !.taken = {ProjectContext(parser.index.single_customer.id, parser.index.single_customer.name,
                                            TakeSingleProjectConfig(parser.index))}]

ParserNext ==
  \/ \E f \in FlagSets : Parse(f)
  \/ Validate
  \/ Output
  \/ \E parses \in BOOLEAN : CreateFactory(parses)
  \/ \E c, p \in 0 .. kIdRange - 1 : NewProjectContext(c, p)
  \/ TakeSingleProjectContext
-----------------------------------------------------------------------------
(* The projects a command line selects, as its yaml files state them.      *)
Selected ==
  LET f == parser.flags
      ds == Range(IF f.repos # << >> THEN f.repos ELSE f.dirs)
      all == UNION {{[d |-> d, c |-> c, p |-> p] : p \in Range(c.projects)} :
                     <<d, c>> \in UNION {{d} \X Range(ConfigDirs[d].customers) : d \in ds}}
  IN  IF f.repos = << >> /\ f.file # ""
      THEN {[d |-> f.file, c |-> [customer_name |-> "", customer_id |-> f.customer_id],
             p |-> [project_name |-> "", project_id |-> f.project_id,
                    metrics |-> ConfigDirs[f.file].customers[1].projects[1].metrics]]}
      ELSE IF f.repos = << >> /\ f.customer_id >= 0 /\ f.project_id >= 0
           THEN {s \in all : s.c.customer_id = f.customer_id /\ s.p.project_id = f.project_id}
           ELSE all

(* Customer ids beyond 32 bits are not told apart from smaller ones, and   *)
(* without validation nothing is.                                          *)
IdsFit == ~parser.flags.skip_validation /\ \A s \in Selected : s.c.customer_id < kIdRange

(* Every metric of every project the tool accepted is found on the device  *)
(* under the ids of the yaml files, by GetMetricDefinition and through the *)
(* project's context, with its own names, and the device knows no other    *)
(* project: neither merging, sorting and filtering (MergeConfigs,          *)
(* FilterHideOnClient) nor the indexes (ProjectConfigs, ProjectContext)    *)
(* lose or mix up an entry.                                                *)
EveryMetricIsFound ==
  parser.pc = "device" /\ IdsFit =>
    /\ ListProjects(parser.index) = {<<s.c.customer_id, Truncated(s.p)>> : s \in Selected}
    /\ \A s \in Selected : \E ctx \in ContextOf(parser.index, s.c.customer_id, Truncated(s.p)) :
         /\ ctx.customer_name = s.c.customer_name /\ ctx.project_name = s.p.project_name
         /\ ListMetrics(ctx) = {m.id : m \in Range(s.p.metrics)}
         /\ \A m \in Range(s.p.metrics) :
              /\ GetMetricDefinition(parser.index, s.c.customer_id, Truncated(s.p), m.id) = m.metric_name
              /\ {found.id : found \in GetMetricByName(ctx, m.metric_name)} = {m.id}
              /\ {found.reports : found \in GetMetric(ctx, m.id)} = {m.reports}

(* The registry the tool writes does not depend on the order in which      *)
(* directories, customers, projects and metrics are listed: reading the    *)
(* directories backwards gives the same bytes ("In order to ensure that we *)
(* output a stable order in the binary protobuf, we sort").                *)
OutputIgnoresOrder ==
  parser.pc = "output" /\ IdsFit =>
    LET mirrored == [k \in DOMAIN parser.configs |->
                      LET c == Reverse(parser.configs)[k] IN [c EXCEPT !.metrics = Reverse(@)]]
    IN  Written(mirrored) = parser.registry

(* The dep file, from which the build learns when to run the tool again,   *)
(* names every file whose contents went into the registry                  *)
(* (GetConfigFilesListFromFlags: "a list of all the files that comprise the*)
(* registry being parsed").                                                *)
DepfileIsComplete ==
  parser.pc = "output" /\ parser.flags.repos = << >> =>
    \A s \in Selected :
      IF parser.flags.file # "" THEN <<s.d>> \in parser.depfile
      ELSE {<<s.d>>, <<s.d, s.c.customer_name, s.p.project_name>>} \subseteq parser.depfile

(* The context that TakeSingleProjectContext hands out is the one          *)
(* NewProjectContext gave for the same project before, and the factory     *)
(* gives out no project after it.                                          *)
TakenIsTheProject ==
  \A t \in parser.taken :
    /\ ListProjects(parser.index) = {}
    /\ ListMetrics(t) # {} \/ parser.registry[1].projects[1].metrics = << >>
    /\ \A ctx \in parser.contexts : ctx = t

(* What reaches the device, and how it is looked up and handed out there.  *)
RegistryIsServed == EveryMetricIsFound /\ TakenIsTheProject

(* What the build gets: a stable registry and a complete dep file.         *)
OutputIsStable == OutputIgnoresOrder /\ DepfileIsComplete
=============================================================================
