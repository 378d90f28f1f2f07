-------------------------- MODULE LocalAggregation --------------------------
(***************************************************************************)
(* src/src/local_aggregation_1.1: the LocalAggregateStorage, one file per  *)
(* metric, and the ObservationGenerator's worker, which saves the aggregate*)
(* of every metric once per interval.  The process may crash in the middle *)
(* of a save and restart with another registry.                            *)
(*                                                                         *)
(* An aggregate is the number of modifications made to it.  Files are      *)
(* written by the ConsistentProtoStore: a Write may stop, with an error or *)
(* with the process, between any two of its file operations.               *)
(***************************************************************************)
EXTENDS Integers, FiniteSets

CONSTANTS Keys,           (* <<project, metric>>                           *)
          Registries,     (* sets of keys                                  *)
          GenerateInterval,
          MaxVersion, MaxRestarts, MaxTime       (* bounds                 *)

ASSUME LocalAggregationAssumption ==
  /\ GenerateInterval \in Nat \ {0}
  /\ Registries \subseteq SUBSET Keys /\ <<0, 0>> \notin Keys

NoFile == -1

VARIABLES
  registry,     (* the global registry, or NotRunning                      *)
  dirs,         (* projects whose directory exists                         *)
  file,         (* of each key, [primary, override]                        *)
  aggregates,   (* aggregates_: a function of some keys                    *)
  gen,          (* the generator: [pc, next, shut, todo]                   *)
  steady,       (* the steady clock                                        *)
  restarts,
  saved,        (* history: what the last successful save of a key wrote   *)
  orphaned,     (* history: keys whose process ended with no primary file  *)
  begun         (* history: [at, count, late] of the worker's generations  *)

localVars == <<registry, dirs, file, aggregates, gen, steady, restarts, saved, orphaned, begun>>
storageVars == <<registry, dirs, restarts>>

NotRunning == {<<0, 0>>}
Running == registry # NotRunning
NoWorker == [pc |-> "none", next |-> 0, shut |-> FALSE, todo |-> {}]
NotBegun == [at |-> 0, count |-> 0, late |-> 0]
Projects(keys) == {k[1] : k \in keys}

LocalInit ==
  /\ registry = NotRunning /\ dirs = {} /\ restarts = 0 /\ steady = 0
  /\ file = [k \in Keys |-> [primary |-> NoFile, override |-> NoFile]]
  /\ aggregates = [k \in {} |-> 0] /\ gen = NoWorker
  /\ saved = [k \in Keys |-> 0] /\ orphaned = {} /\ begun = NotBegun
-----------------------------------------------------------------------------
(* ConsistentProtoStore::Read and Write.                                   *)
ProtoRead(f) == IF f.override # NoFile THEN f.override ELSE f.primary

(* What a Write of `v' may leave when it does not finish: nothing done; the*)
(* override of an earlier Write moved to its place; the new override next  *)
(* to the old primary; the new override alone.                             *)
Unfinished(f, v) ==
  LET recovered == [primary |-> ProtoRead(f), override |-> NoFile]
  IN  {f, recovered, [recovered EXCEPT !.override = v], [primary |-> NoFile, override |-> v]}
      \cup (IF f.override = NoFile THEN {} ELSE {[f EXCEPT !.primary = NoFile]})

Finished(v) == [primary |-> v, override |-> NoFile]
-----------------------------------------------------------------------------
InitializePersistentStore(reg) == [k \in reg |-> 0]

(* Mutant: an aggregate that InitializePersistentStore made is kept.       *)
LoadDataIntoGaps(reg, old, initial) ==
  LET found == {k \in Keys : k[1] \in Projects(reg) \cap old /\ file[k].primary # NoFile}
  IN  [k \in found \cup DOMAIN initial |-> IF k \in DOMAIN initial THEN initial[k] ELSE ProtoRead(file[k])]

(* Only files whose whole name is a number are read; a metric that left the*)
(* registry is loaded, a project that left it is not.                      *)
LoadData(reg, old, initial) ==
  LET found == {k \in Keys : k[1] \in Projects(reg) \cap old /\ file[k].primary # NoFile}
  IN  [k \in found \cup DOMAIN initial |-> IF k \in found THEN ProtoRead(file[k]) ELSE initial[k]]

(* The constructor; MakeDirectory may fail and its result is not looked at.*)
Construct11(reg) ==
  /\ ~Running /\ restarts <= MaxRestarts
  /\ registry' = reg
  /\ \E made \in SUBSET (Projects(reg) \ dirs) : dirs' = dirs \cup made
  /\ aggregates' = LoadData(reg, dirs', InitializePersistentStore(reg))
  /\ gen' = NoWorker /\ begun' = NotBegun
  /\ UNCHANGED <<file, steady, restarts, saved, orphaned>>

(* A client modifies what GetMetricAggregate gave it.                      *)
GetMetricAggregate(k) ==
  /\ Running /\ k \in DOMAIN aggregates
  /\ gen.pc # "saving" /\ aggregates[k] < MaxVersion
  /\ aggregates' = [aggregates EXCEPT ![k] = @ + 1]
  /\ UNCHANGED <<storageVars, file, gen, steady, saved, orphaned, begun>>

(* Without its directory no file can be created.                           *)
SaveMetricAggregate(k) ==
  \/ /\ k[1] \in dirs
     /\ file' = [file EXCEPT ![k] = Finished(aggregates[k])]
     /\ saved' = [saved EXCEPT ![k] = aggregates[k]]
     /\ orphaned' = orphaned \ {k}
  \/ /\ IF k[1] \in dirs THEN \E f \in Unfinished(file[k], aggregates[k]) : file' = [file EXCEPT ![k] = f]
        ELSE UNCHANGED file
     /\ UNCHANGED <<saved, orphaned>>

ClientSaves(k) ==
  /\ Running /\ k \in DOMAIN aggregates /\ gen.pc # "saving"
  /\ SaveMetricAggregate(k)
  /\ UNCHANGED <<storageVars, aggregates, gen, steady, begun>>

(* The process ends, by a crash or because it exits: whatever a save that  *)
(* was cut short left behind, an earlier failed save may have left too.    *)
ProcessEnds ==
  /\ Running
  /\ registry' = NotRunning /\ restarts' = restarts + 1
  /\ orphaned' = orphaned \cup {k \in Keys : file[k].primary = NoFile /\ file[k].override # NoFile}
  /\ gen' = NoWorker /\ begun' = NotBegun /\ aggregates' = [k \in {} |-> 0] /\ steady' = 0
  /\ UNCHANGED <<dirs, file, saved>>
-----------------------------------------------------------------------------
StartWorker ==
  /\ Running /\ gen.pc = "none"
  /\ gen' = [NoWorker EXCEPT !.pc = "begin"] /\ begun' = NotBegun
  /\ UNCHANGED <<storageVars, file, aggregates, steady, saved, orphaned>>

(* ShutDown sets the flag under the lock, which the worker holds while it  *)
(* generates, and then joins the worker.                                   *)
ShutDownWorker ==
  /\ gen.pc \in {"begin", "waiting"} /\ ~gen.shut
  /\ gen' = [gen EXCEPT !.shut = TRUE]
  /\ UNCHANGED <<storageVars, file, aggregates, steady, saved, orphaned, begun>>

(* Run, up to its first wait; a wait is over when it is due or shut down.  *)
RunBegins ==
  /\ gen.pc = "begin"
  /\ gen' = [gen EXCEPT !.pc = IF gen.shut THEN "none" ELSE "waiting", !.next = steady]
  /\ begun' = [NotBegun EXCEPT !.at = steady]
  /\ UNCHANGED <<storageVars, file, aggregates, steady, saved, orphaned>>

(* Mutant: the flag is only looked at after a wait that was not due.       *)
BackToLoopUnchecked(g) == IF g.shut /\ steady < g.next THEN [g EXCEPT !.pc = "none"] ELSE [g EXCEPT !.pc = "waiting"]

BackToLoop(g) == [g EXCEPT !.pc = IF g.shut THEN "none" ELSE "waiting"]

(* GenerateObservations, until the first save: every procedure is          *)
(* unimplemented, so that no observation is written.                       *)
GenerateObservations ==
  /\ gen.pc = "waiting" /\ (gen.shut \/ steady >= gen.next)
  /\ IF steady >= gen.next
     THEN /\ gen' = IF registry = {} THEN BackToLoop([gen EXCEPT !.next = @ + GenerateInterval])
                    ELSE [gen EXCEPT !.pc = "saving", !.next = @ + GenerateInterval, !.todo = registry]
          /\ begun' = [begun EXCEPT !.count = @ + 1, !.late = IF gen.shut THEN @ + 1 ELSE @]
     ELSE gen' = BackToLoop(gen) /\ UNCHANGED begun
  /\ UNCHANGED <<storageVars, file, aggregates, steady, saved, orphaned>>

(* The result of a save is not looked at.                                  *)
SaveOne(k) ==
  /\ gen.pc = "saving" /\ k \in gen.todo
  /\ SaveMetricAggregate(k)
  /\ LET left == gen.todo \ {k}
         g == [gen EXCEPT !.todo = left]
     IN  gen' = IF left = {} THEN BackToLoop(g) ELSE g
  /\ UNCHANGED <<storageVars, aggregates, steady, begun>>

SteadyTick ==
  /\ Running /\ steady < MaxTime /\ steady' = steady + 1
  /\ UNCHANGED <<storageVars, file, aggregates, gen, saved, orphaned, begun>>

LocalNext ==
  \/ \E reg \in Registries : Construct11(reg)
  \/ \E k \in Keys : GetMetricAggregate(k) \/ ClientSaves(k) \/ SaveOne(k)
  \/ ProcessEnds
  \/ StartWorker \/ ShutDownWorker \/ RunBegins \/ GenerateObservations
  \/ SteadyTick

LocalSpec == LocalInit /\ [][LocalNext]_localVars
-----------------------------------------------------------------------------
(* GenerateObservations dereferences what GetMetricAggregate returns for   *)
(* every metric of the registry without a test, and AddEvent would find it.*)
EveryMetricHasAnAggregate == Running => registry \subseteq DOMAIN aggregates

(* What a successful save wrote is in memory again after any restarts, with*)
(* other registries in between, unless a process ended when the only file  *)
(* of the metric was its override, which LoadData does not find.           *)
SavedIsLoaded ==
  \A k \in DOMAIN aggregates : k[1] \in dirs /\ k \notin orphaned => aggregates[k] >= saved[k]

(* The worker generates on its schedule however late it wakes: as often as *)
(* intervals have begun and, once it waits for the next one, no less; and  *)
(* at most once more after a shut down.                                    *)
GeneratesOnSchedule ==
  LET due == (steady - begun.at) \div GenerateInterval + 1
  IN  /\ begun.late <= 1
      /\ gen.pc \in {"waiting", "saving"} => begun.count <= due
      /\ gen.pc = "waiting" /\ steady < gen.next => begun.count = due

(* Whatever registries the processes are started with, each finds an       *)
(* aggregate for every metric of its own, and what was saved for it.       *)
RestartsKeepAggregates == EveryMetricHasAnAggregate /\ SavedIsLoaded
=============================================================================
