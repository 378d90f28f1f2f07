----------------------- MODULE LocalAggregationProofs -----------------------
(***************************************************************************)
(* Proofs about LocalAggregation: whatever registries a process is started *)
(* with, whichever saves fail and wherever it ends, what was saved for a   *)
(* metric is loaded again; and the worker keeps to its schedule.           *)
(***************************************************************************)
EXTENDS LocalAggregation, TLAPS

Versions == Nat \cup {NoFile}
Files == [primary : Versions, override : Versions]
HasFile(k) == file[k].primary # NoFile \/ file[k].override # NoFile

StorageTypeOK ==
  /\ registry = NotRunning \/ registry \subseteq Keys
  /\ file \in [Keys -> Files]
  /\ DOMAIN aggregates \subseteq Keys
  /\ aggregates \in [DOMAIN aggregates -> Nat]
  /\ saved \in [Keys -> Nat]

(* The files are never behind what was saved, and a process that ended left*)
(* no override alone.                                                      *)
FilesInv == \A k \in Keys \ orphaned :
  /\ IF HasFile(k) THEN ProtoRead(file[k]) >= saved[k] ELSE saved[k] = 0
  /\ ~Running => (file[k].primary = NoFile => file[k].override = NoFile)

DirsInv == \A k \in Keys : k[1] \notin dirs => saved[k] = 0

TodoInv == gen.todo \subseteq registry /\ (gen.todo # {} => Running)

Workers == [pc : {"none", "begin", "waiting", "saving"}, next : Int, shut : BOOLEAN, todo : SUBSET Keys]

(* The worker waits for the end of the interval it has generated for last, *)
(* and once it was told to shut down it generates at most once more.       *)
ScheduleInv ==
  /\ gen \in Workers /\ steady \in Nat
  /\ begun \in [at : Nat, count : Nat, late : Nat]
  /\ begun.at <= steady
  /\ gen.pc \in {"waiting", "saving"} =>
       /\ gen.next = begun.at + begun.count * GenerateInterval
       /\ begun.count > 0 => begun.at + (begun.count - 1) * GenerateInterval <= steady
  /\ begun.late <= 1
  /\ gen.pc # "none" => Running
  /\ begun.late # 0 => gen.pc = "none" \/ (gen.pc = "saving" /\ gen.shut)

StorageInv == StorageTypeOK /\ FilesInv /\ DirsInv /\ TodoInv /\ RestartsKeepAggregates
-----------------------------------------------------------------------------
LEMMA NoFileIsNoVersion == NoFile \in Int /\ NoFile \notin Nat /\ NoFile \in Versions
BY DEF NoFile, Versions

LEMMA StorageInit == LocalInit => StorageInv
<1> SUFFICES ASSUME LocalInit PROVE StorageInv
  OBVIOUS
<1>1. StorageTypeOK
  BY NoFileIsNoVersion DEF LocalInit, StorageTypeOK, Files
<1>2. FilesInv
  BY NoFileIsNoVersion DEF LocalInit, FilesInv, HasFile
<1>3. DirsInv /\ TodoInv
  BY DEF LocalInit, DirsInv, TodoInv, NoWorker
<1>4. RestartsKeepAggregates
  BY DEF LocalInit, RestartsKeepAggregates, EveryMetricHasAnAggregate, SavedIsLoaded, Running
<1> QED BY <1>1, <1>2, <1>3, <1>4 DEF StorageInv

(* A running process knows a registry of metrics.                          *)
LEMMA RunningHasRegistry ==
  ASSUME StorageTypeOK, Running
  PROVE  registry \subseteq Keys
BY DEF StorageTypeOK, Running

(* Whatever an unfinished Write of a version that is not behind leaves is  *)
(* not behind either.                                                      *)
LEMMA UnfinishedFacts ==
  ASSUME NEW f \in Files, NEW v \in Nat, NEW s \in Nat, v >= s, NEW g \in Unfinished(f, v),
         (f.primary # NoFile \/ f.override # NoFile) => ProtoRead(f) >= s,
         f.primary = NoFile /\ f.override = NoFile => s = 0
  PROVE  /\ g \in Files
         /\ (g.primary # NoFile \/ g.override # NoFile) => ProtoRead(g) >= s
         /\ g.primary = NoFile /\ g.override = NoFile => s = 0
<1> DEFINE recovered == [primary |-> ProtoRead(f), override |-> NoFile]
<1>0. ProtoRead(f) \in Versions
  BY DEF ProtoRead, Files
<1>1. CASE g = f
  BY <1>1
<1>2. CASE g = recovered
  BY <1>0, <1>2, NoFileIsNoVersion DEF Files, ProtoRead, Versions
<1>3. CASE g = [recovered EXCEPT !.override = v]
  <2>1. g = [primary |-> ProtoRead(f), override |-> v]
    BY <1>3
  <2> QED BY <1>0, <2>1, NoFileIsNoVersion DEF Files, ProtoRead, Versions
<1>4. CASE g = [primary |-> NoFile, override |-> v]
  BY <1>4, NoFileIsNoVersion DEF Files, ProtoRead, Versions
<1>5. CASE f.override # NoFile /\ g = [f EXCEPT !.primary = NoFile]
  BY <1>5, NoFileIsNoVersion DEF Files, ProtoRead, Versions
<1> QED BY <1>1, <1>2, <1>3, <1>4, <1>5 DEF Unfinished

(* A save, finished or not, of an aggregate that is not behind.            *)
LEMMA SaveStep ==
  ASSUME StorageInv, Running, NEW k \in DOMAIN aggregates, SaveMetricAggregate(k),
         UNCHANGED <<registry, dirs, aggregates>>, gen'.todo \subseteq gen.todo
  PROVE  StorageInv'
<1>0. k \in Keys /\ aggregates[k] \in Nat /\ saved[k] \in Nat /\ file[k] \in Files
  BY DEF StorageInv, StorageTypeOK
<1>1. k[1] \in dirs /\ k \notin orphaned => aggregates[k] >= saved[k]
  BY DEF StorageInv, RestartsKeepAggregates, SavedIsLoaded
<1>2. TodoInv' /\ EveryMetricHasAnAggregate' /\ Running'
  BY DEF StorageInv, TodoInv, RestartsKeepAggregates, EveryMetricHasAnAggregate, Running
<1>3. CASE /\ k[1] \in dirs
           /\ file' = [file EXCEPT ![k] = Finished(aggregates[k])]
           /\ saved' = [saved EXCEPT ![k] = aggregates[k]]
           /\ orphaned' = orphaned \ {k}
  <2>1. Finished(aggregates[k]) \in Files /\ ProtoRead(Finished(aggregates[k])) = aggregates[k]
        /\ Finished(aggregates[k]).primary # NoFile
    BY <1>0, NoFileIsNoVersion DEF Finished, Files, Versions, ProtoRead
  <2>2. StorageTypeOK'
    BY <1>0, <1>3, <2>1 DEF StorageInv, StorageTypeOK
  <2>3. FilesInv'
    <3> SUFFICES ASSUME NEW j \in Keys \ orphaned'
                 PROVE  IF HasFile(j)' THEN ProtoRead(file'[j]) >= saved'[j] ELSE saved'[j] = 0
      BY <1>2 DEF FilesInv
    <3>1. CASE j = k
      BY <1>0, <1>3, <2>1, <3>1 DEF HasFile, StorageInv, StorageTypeOK
    <3>2. CASE j # k
      BY <1>3, <3>2 DEF HasFile, StorageInv, StorageTypeOK, FilesInv
    <3> QED BY <3>1, <3>2
  <2>4. DirsInv'
    BY <1>3 DEF StorageInv, StorageTypeOK, DirsInv
  <2>5. SavedIsLoaded'
    BY <1>0, <1>3 DEF StorageInv, StorageTypeOK, RestartsKeepAggregates, SavedIsLoaded
  <2> QED BY <1>2, <2>2, <2>3, <2>4, <2>5 DEF StorageInv, RestartsKeepAggregates
<1>4. CASE /\ k[1] \in dirs /\ \E f \in Unfinished(file[k], aggregates[k]) : file' = [file EXCEPT ![k] = f]
           /\ UNCHANGED <<saved, orphaned>>
  <2>1. PICK f \in Unfinished(file[k], aggregates[k]) : file' = [file EXCEPT ![k] = f]
    BY <1>4
  <2>2. f \in Files
    <3>1. /\ 0 \in Nat /\ aggregates[k] >= 0
          /\ ProtoRead(file[k]) \in Versions
      BY <1>0 DEF ProtoRead, Files
    <3>2. (file[k].primary # NoFile \/ file[k].override # NoFile) => ProtoRead(file[k]) >= 0
      BY <1>0, <3>1, NoFileIsNoVersion DEF ProtoRead, Files, Versions
    <3> QED BY <1>0, <3>1, <3>2, UnfinishedFacts
  <2>3. StorageTypeOK'
    BY <1>0, <1>4, <2>1, <2>2 DEF StorageInv, StorageTypeOK
  <2>4. FilesInv'
    <3> SUFFICES ASSUME NEW j \in Keys \ orphaned'
                 PROVE  IF HasFile(j)' THEN ProtoRead(file'[j]) >= saved'[j] ELSE saved'[j] = 0
      BY <1>2 DEF FilesInv
    <3>1. CASE j = k
      <4>1. /\ HasFile(k) => ProtoRead(file[k]) >= saved[k]
            /\ ~HasFile(k) => saved[k] = 0
        BY <1>4, <3>1 DEF StorageInv, FilesInv
      <4>2. /\ (f.primary # NoFile \/ f.override # NoFile) => ProtoRead(f) >= saved[k]
            /\ f.primary = NoFile /\ f.override = NoFile => saved[k] = 0
        BY <1>0, <1>1, <1>4, <3>1, <4>1, UnfinishedFacts DEF HasFile
      <4> QED BY <1>0, <1>4, <2>1, <3>1, <4>2 DEF HasFile, StorageInv, StorageTypeOK
    <3>2. CASE j # k
      BY <1>4, <2>1, <3>2 DEF HasFile, StorageInv, StorageTypeOK, FilesInv
    <3> QED BY <3>1, <3>2
  <2>5. DirsInv' /\ SavedIsLoaded'
    BY <1>4 DEF StorageInv, DirsInv, RestartsKeepAggregates, SavedIsLoaded
  <2> QED BY <1>2, <2>3, <2>4, <2>5 DEF StorageInv, RestartsKeepAggregates
<1>5. CASE UNCHANGED <<file, saved, orphaned>>
  BY <1>2, <1>5 DEF StorageInv, StorageTypeOK, FilesInv, HasFile, DirsInv, RestartsKeepAggregates, SavedIsLoaded, Running
<1> QED BY <1>3, <1>4, <1>5 DEF SaveMetricAggregate

LEMMA ConstructStep ==
  ASSUME StorageInv, NEW reg \in Registries, Construct11(reg)
  PROVE  StorageInv'
<1>0. reg \subseteq Keys /\ ~Running /\ Running' /\ registry' = reg /\ dirs \subseteq dirs'
      /\ UNCHANGED <<file, saved, orphaned>>
  <2>1. reg \subseteq Keys /\ reg # NotRunning
    BY LocalAggregationAssumption DEF NotRunning
  <2> QED BY <2>1 DEF Construct11, Running
<1> DEFINE found == {k \in Keys : k[1] \in Projects(reg) \cap dirs' /\ file[k].primary # NoFile}
<1>1. aggregates' = [k \in found \cup reg |-> IF k \in found THEN ProtoRead(file[k]) ELSE 0]
  BY DEF Construct11, LoadData, InitializePersistentStore
<1>2. ASSUME NEW k \in found PROVE ProtoRead(file[k]) \in Nat
  BY NoFileIsNoVersion DEF StorageInv, StorageTypeOK, Files, Versions, ProtoRead
<1>3. StorageTypeOK'
  BY <1>0, <1>1, <1>2 DEF StorageInv, StorageTypeOK
<1>4. FilesInv' /\ DirsInv'
  BY <1>0 DEF StorageInv, FilesInv, HasFile, DirsInv
<1>5. TodoInv' /\ EveryMetricHasAnAggregate'
  BY <1>0, <1>1 DEF TodoInv, EveryMetricHasAnAggregate, Construct11, NoWorker
<1>6. SavedIsLoaded'
  <2> SUFFICES ASSUME NEW k \in DOMAIN aggregates', k[1] \in dirs', k \notin orphaned
               PROVE  aggregates'[k] >= saved[k]
    BY <1>0 DEF SavedIsLoaded
  <2>1. k \in Keys /\ saved[k] \in Nat
    BY <1>0, <1>1 DEF StorageInv, StorageTypeOK
  <2>2. CASE k \in found
    <3>1. HasFile(k) /\ ProtoRead(file[k]) >= saved[k]
      BY <2>1, <2>2 DEF StorageInv, FilesInv, HasFile
    <3> QED BY <1>1, <2>2, <3>1
  <2>3. CASE k \notin found
    <3>1. k \in reg /\ aggregates'[k] = 0
      BY <1>1, <2>3
    <3>2. k[1] \in Projects(reg)
      BY <3>1 DEF Projects
    <3>3. file[k].primary = NoFile
      BY <2>1, <2>3, <3>2
    <3>4. file[k].override = NoFile
      BY <1>0, <2>1, <3>3 DEF StorageInv, FilesInv
    <3>5. saved[k] = 0
      BY <2>1, <3>3, <3>4 DEF StorageInv, FilesInv, HasFile
    <3> QED BY <3>1, <3>5
  <2> QED BY <2>2, <2>3
<1> QED BY <1>3, <1>4, <1>5, <1>6 DEF StorageInv, RestartsKeepAggregates

(* The steps that leave the files and the aggregates alone.                *)
LEMMA QuietStep ==
  ASSUME StorageInv, UNCHANGED <<registry, dirs, file, aggregates, saved, orphaned>>,
         gen'.todo \subseteq registry, gen'.todo # {} => Running
  PROVE  StorageInv'
BY DEF StorageInv, StorageTypeOK, FilesInv, HasFile, DirsInv, TodoInv, RestartsKeepAggregates,
       EveryMetricHasAnAggregate, SavedIsLoaded, Running

LEMMA BackToLoopFacts ==
  ASSUME NEW g \in Workers
  PROVE  /\ BackToLoop(g) \in Workers /\ BackToLoop(g).todo = g.todo /\ BackToLoop(g).next = g.next
         /\ BackToLoop(g).pc = IF g.shut THEN "none" ELSE "waiting"
BY DEF BackToLoop, Workers

(* What the two steps of the worker's loop make of its fields.             *)
LEMMA GenerateFacts ==
  ASSUME ScheduleInv, StorageTypeOK, Running, GenerateObservations
  PROVE  /\ gen' \in Workers /\ gen.pc = "waiting"
         /\ gen'.todo \in {registry, gen.todo}
         /\ \/ /\ steady >= gen.next /\ gen'.next = gen.next + GenerateInterval
               /\ gen'.pc \in {"saving", "waiting", "none"}
               /\ gen.shut => gen'.pc = "none" \/ (gen'.pc = "saving" /\ gen'.shut)
               /\ begun' = [begun EXCEPT !.count = @ + 1, !.late = IF gen.shut THEN @ + 1 ELSE @]
            \/ gen'.pc = "none" /\ begun' = begun
<1>0. gen \in Workers /\ gen.pc = "waiting" /\ GenerateInterval \in Nat /\ registry \subseteq Keys
  BY LocalAggregationAssumption, RunningHasRegistry DEF ScheduleInv, GenerateObservations
<1> DEFINE g == [gen EXCEPT !.next = @ + GenerateInterval]
<1>1. CASE steady >= gen.next /\ registry = {}
  <2>1. g \in Workers /\ g.next = gen.next + GenerateInterval /\ g.todo = gen.todo /\ g.shut = gen.shut
    BY <1>0 DEF Workers
  <2>2. gen' = BackToLoop(g) /\ begun' = [begun EXCEPT !.count = @ + 1, !.late = IF gen.shut THEN @ + 1 ELSE @]
    BY <1>1 DEF GenerateObservations
  <2> HIDE DEF g
  <2> QED BY <1>0, <1>1, <2>1, <2>2, BackToLoopFacts
<1>2. CASE steady >= gen.next /\ registry # {}
  <2>1. gen' = [gen EXCEPT !.pc = "saving", !.next = @ + GenerateInterval, !.todo = registry]
        /\ begun' = [begun EXCEPT !.count = @ + 1, !.late = IF gen.shut THEN @ + 1 ELSE @]
    BY <1>2 DEF GenerateObservations
  <2> DEFINE p == [gen EXCEPT !.pc = "saving"]
             n == [p EXCEPT !.next = gen.next + GenerateInterval]
  <2>2. gen' = [n EXCEPT !.todo = registry]
    BY <2>1
  <2>3. p \in Workers /\ p.pc = "saving" /\ p.shut = gen.shut
    BY <1>0 DEF Workers
  <2> HIDE DEF p
  <2>4. n \in Workers /\ n.pc = "saving" /\ n.shut = gen.shut /\ n.next = gen.next + GenerateInterval
    BY <1>0, <2>3 DEF Workers
  <2> HIDE DEF n
  <2>5. /\ gen' \in Workers /\ gen'.todo = registry /\ gen'.pc = "saving" /\ gen'.shut = gen.shut
        /\ gen'.next = gen.next + GenerateInterval
    BY <1>0, <2>2, <2>4 DEF Workers
  <2> QED BY <1>0, <1>2, <2>1, <2>5
<1>3. CASE ~(steady >= gen.next)
  <2>1. gen' = BackToLoop(gen) /\ begun' = begun /\ gen.shut
    BY <1>3 DEF GenerateObservations
  <2> QED BY <1>0, <2>1, BackToLoopFacts
<1> QED BY <1>1, <1>2, <1>3

LEMMA SaveOneFacts ==
  ASSUME ScheduleInv, NEW k \in Keys, SaveOne(k)
  PROVE  /\ gen' \in Workers /\ gen.pc = "saving" /\ gen'.todo \subseteq gen.todo /\ gen'.next = gen.next
         /\ gen'.pc \in {"saving", "waiting", "none"}
         /\ gen'.pc = "saving" => gen'.shut = gen.shut
         /\ gen.shut => gen'.pc # "waiting"
<1> DEFINE g == [gen EXCEPT !.todo = gen.todo \ {k}]
<1>1. gen \in Workers /\ gen.pc = "saving"
  BY DEF ScheduleInv, SaveOne
<1>2. g \in Workers /\ g.todo = gen.todo \ {k} /\ g.next = gen.next /\ g.shut = gen.shut /\ g.pc = gen.pc
  BY <1>1 DEF Workers
<1>3. gen' = IF gen.todo \ {k} = {} THEN BackToLoop(g) ELSE g
  BY DEF SaveOne
<1> HIDE DEF g
<1>4. CASE gen' = g
  BY <1>1, <1>2, <1>4
<1>5. CASE gen' = BackToLoop(g)
  BY <1>1, <1>2, <1>5, BackToLoopFacts
<1> QED BY <1>3, <1>4, <1>5

LEMMA StorageNext == ScheduleInv /\ StorageInv /\ [LocalNext]_localVars => StorageInv'
<1> SUFFICES ASSUME ScheduleInv, StorageInv, [LocalNext]_localVars PROVE StorageInv'
  OBVIOUS
<1>0. gen \in Workers /\ gen.todo \subseteq registry /\ (gen.todo # {} => Running)
  BY DEF ScheduleInv, StorageInv, TodoInv
<1>1. ASSUME NEW reg \in Registries, Construct11(reg) PROVE StorageInv'
  BY <1>1, ConstructStep
<1>2. ASSUME NEW k \in Keys, GetMetricAggregate(k) PROVE StorageInv'
  <2>1. StorageTypeOK' /\ FilesInv' /\ DirsInv' /\ TodoInv'
    BY <1>2 DEF GetMetricAggregate, storageVars, StorageInv, StorageTypeOK, FilesInv, HasFile, DirsInv, TodoInv, Running
  <2>2. EveryMetricHasAnAggregate'
    BY <1>2 DEF GetMetricAggregate, storageVars, StorageInv, RestartsKeepAggregates, EveryMetricHasAnAggregate, Running
  <2>3. SavedIsLoaded'
    BY <1>2 DEF GetMetricAggregate, storageVars, StorageInv, StorageTypeOK, RestartsKeepAggregates, SavedIsLoaded
  <2> QED BY <2>1, <2>2, <2>3 DEF StorageInv, RestartsKeepAggregates
<1>3. ASSUME NEW k \in Keys, ClientSaves(k) PROVE StorageInv'
  BY <1>3, SaveStep DEF ClientSaves, storageVars
<1>4. ASSUME NEW k \in Keys, SaveOne(k) PROVE StorageInv'
  <2>1. k \in registry /\ Running /\ k \in DOMAIN aggregates
    BY <1>0, <1>4 DEF SaveOne, StorageInv, RestartsKeepAggregates, EveryMetricHasAnAggregate
  <2>2. gen'.todo \subseteq gen.todo
    BY <1>4, SaveOneFacts
  <2> QED BY <1>4, <2>1, <2>2, SaveStep DEF SaveOne, storageVars
<1>5. CASE ProcessEnds
  <2>1. StorageTypeOK' /\ DirsInv' /\ TodoInv'
    BY <1>5 DEF ProcessEnds, StorageInv, StorageTypeOK, DirsInv, TodoInv, NoWorker
  <2>2. FilesInv'
    BY <1>5 DEF ProcessEnds, StorageInv, FilesInv, HasFile, Running
  <2>3. RestartsKeepAggregates'
    BY <1>5 DEF ProcessEnds, RestartsKeepAggregates, EveryMetricHasAnAggregate, SavedIsLoaded, Running
  <2> QED BY <2>1, <2>2, <2>3 DEF StorageInv
<1>6. CASE StartWorker
  BY <1>6, QuietStep DEF StartWorker, storageVars, NoWorker
<1>7. CASE ShutDownWorker
  BY <1>0, <1>7, QuietStep DEF ShutDownWorker, storageVars, Workers
<1>8. CASE RunBegins
  BY <1>0, <1>8, QuietStep DEF RunBegins, storageVars, Workers
<1>9. CASE GenerateObservations
  <2>1. Running
    BY <1>9 DEF GenerateObservations, ScheduleInv
  <2> QED BY <1>0, <1>9, <2>1, GenerateFacts, QuietStep DEF GenerateObservations, storageVars, StorageInv
<1>10. CASE SteadyTick
  BY <1>0, <1>10, QuietStep DEF SteadyTick, storageVars
<1>11. CASE UNCHANGED localVars
  BY <1>0, <1>11, QuietStep DEF localVars
<1> QED BY <1>1, <1>2, <1>3, <1>4, <1>5, <1>6, <1>7, <1>8, <1>9, <1>10, <1>11 DEF LocalNext
-----------------------------------------------------------------------------
LEMMA OneMore ==
  ASSUME NEW c \in Nat, NEW n \in Nat
  PROVE  (c + 1) * n = c * n + n /\ (c + 1 - 1) * n = c * n
OBVIOUS

LEMMA ScheduleInit == LocalInit => ScheduleInv
BY DEF LocalInit, ScheduleInv, Workers, NoWorker, NotBegun

LEMMA ScheduleNext == StorageTypeOK /\ ScheduleInv /\ [LocalNext]_localVars => ScheduleInv'
<1> SUFFICES ASSUME StorageTypeOK, ScheduleInv, [LocalNext]_localVars PROVE ScheduleInv'
  OBVIOUS
<1>0. gen \in Workers /\ begun \in [at : Nat, count : Nat, late : Nat] /\ steady \in Nat /\ GenerateInterval \in Nat
  BY LocalAggregationAssumption DEF ScheduleInv
<1>1. ASSUME NEW reg \in Registries, Construct11(reg) PROVE ScheduleInv'
  BY <1>0, <1>1 DEF Construct11, ScheduleInv, Workers, NoWorker, NotBegun
<1>2. ASSUME NEW k \in Keys, GetMetricAggregate(k) \/ ClientSaves(k) PROVE ScheduleInv'
  BY <1>2 DEF GetMetricAggregate, ClientSaves, storageVars, ScheduleInv, Running
<1>3. ASSUME NEW k \in Keys, SaveOne(k) PROVE ScheduleInv'
  <2>1. UNCHANGED <<steady, begun, registry>>
    BY <1>3 DEF SaveOne, storageVars
  <2>2. /\ gen' \in Workers /\ gen.pc = "saving" /\ gen'.next = gen.next
        /\ gen'.pc \in {"saving", "waiting", "none"}
        /\ gen'.pc = "saving" => gen'.shut = gen.shut
        /\ gen.shut => gen'.pc # "waiting"
    BY <1>3, SaveOneFacts
  <2> QED BY <2>1, <2>2 DEF ScheduleInv, Running
<1>4. CASE ProcessEnds
  BY <1>4 DEF ProcessEnds, ScheduleInv, Workers, NoWorker, NotBegun
<1>5. CASE StartWorker
  <2>1. gen' = [pc |-> "begin", next |-> 0, shut |-> FALSE, todo |-> {}] /\ begun' = [at |-> 0, count |-> 0, late |-> 0]
    BY <1>5 DEF StartWorker, NoWorker, NotBegun
  <2>2. UNCHANGED <<steady, registry>> /\ Running'
    BY <1>5 DEF StartWorker, storageVars, Running
  <2> QED BY <1>0, <2>1, <2>2 DEF ScheduleInv, Workers
<1>6. CASE ShutDownWorker
  BY <1>0, <1>6 DEF ShutDownWorker, storageVars, ScheduleInv, Workers, Running
<1>7. CASE RunBegins
  <2> DEFINE p == [gen EXCEPT !.pc = IF gen.shut THEN "none" ELSE "waiting"]
  <2>1. gen' = [p EXCEPT !.next = steady] /\ begun' = [NotBegun EXCEPT !.at = steady] /\ UNCHANGED <<steady, registry>>
    BY <1>7 DEF RunBegins, storageVars
  <2>2. p \in Workers /\ p.pc \in {"none", "waiting"}
    BY <1>0 DEF Workers
  <2> HIDE DEF p
  <2>3. gen' \in Workers /\ gen'.pc \in {"none", "waiting"} /\ gen'.next = steady
    BY <1>0, <2>1, <2>2 DEF Workers
  <2>4. begun' = [at |-> steady, count |-> 0, late |-> 0]
    BY <2>1 DEF NotBegun
  <2>5. gen.pc = "begin" /\ Running'
    BY <1>7, <2>1 DEF RunBegins, ScheduleInv, Running
  <2>6. /\ begun' \in [at : Nat, count : Nat, late : Nat]
        /\ begun'.at = steady' /\ begun'.count = 0 /\ begun'.late = 0 /\ steady' \in Nat
    <3>1. steady' = steady BY <2>1
    <3> QED BY <1>0, <2>4, <3>1
  <2>7. begun'.count * GenerateInterval = 0 /\ begun'.at + 0 = begun'.at
    <3>1. 0 * GenerateInterval = 0 BY <1>0
    <3>2. begun'.count * GenerateInterval = 0 BY <2>6, <3>1, Zenon
    <3>3. begun'.at \in Nat BY <2>6
    <3> QED BY <3>2, <3>3
  <2>8. gen'.next = begun'.at
    BY <2>1, <2>3, <2>6
  <2> QED BY <2>3, <2>5, <2>6, <2>7, <2>8 DEF ScheduleInv
<1>8. CASE GenerateObservations
  <2>1. Running /\ begun.late = 0 /\ begun.at <= steady /\ UNCHANGED <<steady, registry>>
        /\ gen.pc = "waiting" /\ gen.next = begun.at + begun.count * GenerateInterval
    BY <1>0, <1>8 DEF GenerateObservations, storageVars, ScheduleInv
  <2>2. /\ gen' \in Workers /\ gen.pc = "waiting"
        /\ \/ /\ steady >= gen.next /\ gen'.next = gen.next + GenerateInterval
              /\ gen'.pc \in {"saving", "waiting", "none"}
              /\ gen.shut => gen'.pc = "none" \/ (gen'.pc = "saving" /\ gen'.shut)
              /\ begun' = [begun EXCEPT !.count = @ + 1, !.late = IF gen.shut THEN @ + 1 ELSE @]
           \/ gen'.pc = "none" /\ begun' = begun
    BY <1>8, <2>1, GenerateFacts
  <2>3. CASE gen'.pc = "none" /\ begun' = begun
    BY <1>0, <2>1, <2>2, <2>3 DEF ScheduleInv, Running
  <2>4. CASE /\ steady >= gen.next /\ gen'.next = gen.next + GenerateInterval
             /\ gen'.pc \in {"saving", "waiting", "none"}
             /\ gen.shut => gen'.pc = "none" \/ (gen'.pc = "saving" /\ gen'.shut)
             /\ begun' = [begun EXCEPT !.count = @ + 1, !.late = IF gen.shut THEN @ + 1 ELSE @]
    <3> DEFINE c == [begun EXCEPT !.count = begun.count + 1]
    <3>1. begun' = [c EXCEPT !.late = IF gen.shut THEN 1 ELSE 0]
      BY <2>1, <2>4
    <3>2. c \in [at : Nat, count : Nat, late : Nat] /\ c.at = begun.at /\ c.count = begun.count + 1
      BY <1>0
    <3> HIDE DEF c
    <3>3. /\ begun' \in [at : Nat, count : Nat, late : Nat] /\ begun'.at = begun.at
          /\ begun'.count = begun.count + 1 /\ begun'.late = IF gen.shut THEN 1 ELSE 0
      BY <3>1, <3>2
    <3>4. /\ begun'.count * GenerateInterval = begun.count * GenerateInterval + GenerateInterval
          /\ (begun'.count - 1) * GenerateInterval = begun.count * GenerateInterval
          /\ begun.count * GenerateInterval \in Nat
      BY <1>0, <3>3, OneMore
    <3>5. gen'.next = begun'.at + begun'.count * GenerateInterval
      BY <1>0, <2>1, <2>4, <3>3, <3>4
    <3>6. begun'.at + (begun'.count - 1) * GenerateInterval <= steady'
      BY <1>0, <2>1, <2>4, <3>3, <3>4
    <3> QED BY <1>0, <2>1, <2>2, <2>4, <3>3, <3>5, <3>6 DEF ScheduleInv, Running
  <2> QED BY <2>2, <2>3, <2>4
<1>9. CASE SteadyTick
  <2>1. steady' = steady + 1 /\ UNCHANGED <<gen, begun, registry>>
    BY <1>9 DEF SteadyTick, storageVars
  <2>2. (begun.count - 1) * GenerateInterval \in Int
    BY <1>0
  <2> QED BY <1>0, <2>1, <2>2 DEF ScheduleInv, Running
<1>10. CASE UNCHANGED localVars
  BY <1>10 DEF localVars, ScheduleInv, Running
<1> QED BY <1>1, <1>2, <1>3, <1>4, <1>5, <1>6, <1>7, <1>8, <1>9, <1>10 DEF LocalNext

LEMMA LocalAlways == LocalSpec => [](StorageInv /\ ScheduleInv)
<1>1. StorageInv => StorageTypeOK
  BY DEF StorageInv
<1> QED BY <1>1, StorageInit, StorageNext, ScheduleInit, ScheduleNext, PTL DEF LocalSpec

(* What a successful SaveMetricAggregate wrote is in memory again after any *)
(* number of restarts with any registries in between, whatever saves failed,*)
(* unless a process ended when the only file of the metric was its override;*)
(* and every metric of the registry has an aggregate, which                 *)
(* GenerateObservations dereferences without a test.                        *)
THEOREM RestartsKeep == LocalSpec => []RestartsKeepAggregates
<1>1. StorageInv => RestartsKeepAggregates
  BY DEF StorageInv
<1> QED BY <1>1, LocalAlways, PTL

(* How often the worker has generated, from its schedule.                   *)
LEMMA IntervalsBegun ==
  ASSUME NEW a \in Nat, NEW n \in Nat \ {0}, NEW c \in Nat, c * n <= a
  PROVE  c <= a \div n
<1>1. a \div n \in Int /\ a = n * (a \div n) + (a % n) /\ a % n \in 0 .. n - 1
  OBVIOUS
<1> DEFINE q == a \div n
<1>2. ~(q < c)
  <2> SUFFICES ASSUME q < c PROVE FALSE
    OBVIOUS
  <2>1. q + 1 <= c BY <1>1
  <2>2. n * (q + 1) <= n * c BY <1>1, <2>1
  <2>3. n * (q + 1) = n * q + n BY <1>1
  <2> QED BY <1>1, <2>2, <2>3
<1> QED BY <1>1, <1>2

(* The worker generates as often as intervals have begun since its start,   *)
(* however late it wakes, and at most once after ShutDown.                  *)
THEOREM KeepsItsSchedule == LocalSpec => []GeneratesOnSchedule
<1>1. ScheduleInv => GeneratesOnSchedule
  <2> SUFFICES ASSUME ScheduleInv PROVE GeneratesOnSchedule
    OBVIOUS
  <2> DEFINE a == steady - begun.at
             n == GenerateInterval
             c == begun.count
             q == a \div n
  <2>1. a \in Nat /\ n \in Nat \ {0} /\ c \in Nat /\ q \in Nat /\ begun.at \in Nat /\ steady \in Nat
    BY LocalAggregationAssumption DEF ScheduleInv
  <2>2. ASSUME gen.pc \in {"waiting", "saving"} PROVE c <= q + 1
    <3>1. CASE c = 0
      BY <2>1, <3>1
    <3>2. CASE c > 0
      <4>1. c - 1 \in Nat /\ (c - 1) * n \in Int
        BY <2>1, <3>2
      <4>2. (c - 1) * n <= a
        BY <2>1, <2>2, <3>2, <4>1 DEF ScheduleInv
      <4>3. c - 1 <= q
        BY <2>1, <4>1, <4>2, IntervalsBegun
      <4> QED BY <2>1, <4>3
    <3> QED BY <2>1, <3>1, <3>2
  <2>3. ASSUME gen.pc = "waiting", steady < gen.next PROVE c = q + 1
    <3>1. c * n \in Int /\ a < c * n
      BY <2>1, <2>3 DEF ScheduleInv
    <3>2. ~(c <= q)
      <4> SUFFICES ASSUME c <= q PROVE FALSE
        OBVIOUS
      <4>1. c * n <= q * n BY <2>1
      <4>2. q * n <= a BY <2>1
      <4> HIDE DEF q, a, n, c
      <4> QED BY <2>1, <3>1, <4>1, <4>2
    <3> QED BY <2>1, <2>2, <2>3, <3>2
  <2>4. begun.late <= 1
    BY DEF ScheduleInv
  <2> QED BY <2>2, <2>3, <2>4 DEF GeneratesOnSchedule
<1> QED BY <1>1, LocalAlways, PTL
=============================================================================
