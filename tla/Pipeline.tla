------------------------------ MODULE Pipeline ------------------------------
(***************************************************************************)
(* tools/python/run_pipeline.py: the steps of phase 0 in their order, the  *)
(* cache of input signatures that skips seven of them, and the tools they  *)
(* start, each reduced to the products it reads and writes.  Runs with     *)
(* different arguments follow one another over one state directory; a step *)
(* may fail half way, a run may be killed anywhere, and people edit,       *)
(* compile and measure the repository meanwhile.                           *)
(*                                                                         *)
(* A class file is known by its stamp (modification time and size) and by  *)
(* what it declares, a contract by the declarations it lists and whether   *)
(* the annotations only the source has were added to it.  Steps whose      *)
(* product never changes here (pom, archetype, generated, classpath,       *)
(* stack, fixtures), --skip, --full-index and the arguments that are in    *)
(* the signatures and only select (module, include, mode, limit) are left  *)
(* out.  A tool killed half way leaves what one leaves that fails there.    *)
(* The variables last, killed, emptied and skipped are not in the program. *)
(***************************************************************************)
EXTENDS Integers, Sequences, FiniteSets

CONSTANTS
  Classes,
  None,          (* no file, no entry, no --sut                              *)
  Annotated,     (* classes with annotations only the source shows           *)
  Uses,          (* Uses[c]: what the constructor of c takes                 *)
  MaxDepth,      (* MAX_REVERSE_DEPTH                                        *)
  Requests,      (* the argument lists runs are started with                 *)
  MaxRuns, MaxEvents   (* bounds: runs; changes of the repository, failures, kills *)

ASSUME PipelineAssumption ==
  /\ None \notin Classes /\ Annotated \subseteq Classes
  /\ None \notin [api : Nat, enriched : BOOLEAN]
  /\ None \notin [classes : [Classes -> Nat], sut : Classes \union {None}]
  /\ None \notin [contracts : [Classes -> [api : Nat, enriched : BOOLEAN] \union {None}]]
  /\ Uses \in [Classes -> SUBSET Classes]
  /\ Requests \subseteq [sut : Classes \union {None}, since : BOOLEAN, xml : BOOLEAN,
                         coe : BOOLEAN]
  /\ MaxDepth \in Nat /\ MaxRuns \in Nat /\ MaxEvents \in Nat

VARIABLES
  sources, classfiles, report,                       (* the repository       *)
  targets, baseline, contracts, index, classification, graph, affected, plan, packs,
  handoff, cache,                                    (* the state directory  *)
  step, phase, request, entries, pending, rc,        (* the process          *)
  last,                                              (* how the last run ended *)
  killed,                                            (* whether one ever was *)
  emptied,                              (* whether an early exit lost a plan *)
  skipped,                       (* classes the last good scan of them left out *)
  runs, events                                       (* bounds               *)

repository == <<sources, classfiles, report>>
products == <<targets, baseline, contracts, index, classification, graph, affected, plan,
              packs, handoff>>
process == <<step, phase, request, entries, pending, rc>>
past == <<killed, emptied, skipped>>
vars == <<repository, products, cache, process, last, past, runs, events>>

Versions == [stamp : Nat, api : Nat]
Contract == [api : Nat, enriched : BOOLEAN]
Order == <<"jacoco", "snapshot", "bytecode", "validate-contracts", "source", "index",
           "validate-index", "classification", "deps", "incremental", "planning",
           "validate", "context", "handoff">>
Cacheable == {"bytecode", "source", "index", "classification", "planning", "context"}
NoRequest == [sut |-> None, since |-> FALSE, xml |-> FALSE, coe |-> FALSE]

(* What is read of a product that is not there.                            *)
NoIndex == [contracts |-> None, graph |-> None,
            annotations |-> [contracts |-> None, merged |-> None]]
NoPlan == [cycle |-> 0, items |-> {}, targets |-> None]
NoPack == [plan |-> NoPlan, contract |-> None]

-----------------------------------------------------------------------------
(* _step_input_signature.                                                  *)
Stamps(files) == [c \in Classes |-> files[c].stamp]
Known == {c \in Classes : contracts[c] # None}

BytecodeSignature(sut) == [classes |-> Stamps(classfiles), sut |-> sut]

PlanInputs_mutant == [classes |-> classification.classes, graph |-> graph,
                      affected |-> affected]

PlanInputs == [targets |-> targets, classes |-> classification.classes, graph |-> graph,
               affected |-> affected]

Signature(s) ==
  CASE s = "bytecode"       -> BytecodeSignature(request.sut)
    [] s = "source"         -> [java |-> Stamps(sources), names |-> Known]
    [] s = "index"          -> [contracts |-> contracts]
    [] s = "classification" -> [index |-> index]
    [] s = "planning"       -> PlanInputs
    [] s = "context"        -> [sut |-> request.sut, plan |-> plan, graph |-> graph,
                                classes |-> classification.classes, targets |-> targets]
-----------------------------------------------------------------------------
(* What the tools compute.                                                 *)

(* extract: the constructor parameters of a class that has a contract, and  *)
(* the methods of those that have one too.                                  *)
GraphOf == [c \in Classes |-> IF contracts[c] = None THEN None
                              ELSE [d \in Uses[c] |-> IF contracts[d] = None THEN None
                                                      ELSE contracts[d].api]]

(* The files of the semantic index are written one after another: classes   *)
(* and methods, the graph an earlier run has left, and annotations.json,    *)
(* which names the classification it has merged.  After n of these three:   *)
IndexAfter(n) ==
  [contracts   |-> IF n >= 1 THEN contracts ELSE index.contracts,
   graph       |-> IF n >= 2 THEN graph ELSE index.graph,
   annotations |-> IF n >= 3 THEN [contracts |-> contracts, merged |-> classification.written]
                   ELSE index.annotations]

(* analyse, from classes.json and annotations.json, or when no class is     *)
(* indexed from the contracts; the coverage it looks for is under a key     *)
(* that no target has.                                                     *)
Enriched(known) == {c \in Classes : known # None /\ known[c] # None /\ known[c].enriched}
ClassesOf ==
  IF index.contracts = None \/ \A c \in Classes : index.contracts[c] = None
  THEN [names |-> Known, enriched |-> Enriched(contracts)]
  ELSE LET names == {c \in Classes : index.contracts[c] # None} IN
       [names |-> names,
        enriched |-> Enriched(index.contracts)
                       \union (names \intersect Enriched(index.annotations.contracts))]

(* _propagate_affected over the reverse of index/dependencies.json, from    *)
(* the sources that git shows changed.                                      *)
Dependents(deps, S) ==
  {c \in Classes : deps # None /\ deps[c] # None /\ Uses[c] \intersect S # {}}
AffectedBy(deps, S) ==
  LET reached[n \in 0..MaxDepth] ==
        IF n = 0 THEN S ELSE reached[n - 1] \union Dependents(deps, reached[n - 1])
  IN  reached[MaxDepth]
Changed == {c \in Classes : sources[c].stamp > 0}

(* The filters of plan; an empty scope narrows nothing.                     *)
ItemsOf ==
  {c \in (IF targets = None THEN {} ELSE targets) :
     /\ request.sut # None => c = request.sut
     /\ request.since /\ affected \notin {None, {}} => c \in affected}
PlanOf == [cycle |-> plan.cycle + 1, items |-> ItemsOf, targets |-> targets]
EmptyPlan == [cycle |-> 1, items |-> {}, targets |-> {}]

(* The classes a pack is built for.                                         *)
Packed_mutant == plan.items

Packed == IF request.sut # None THEN {request.sut} ELSE plan.items

Scanned == IF request.sut # None THEN {request.sut} ELSE Classes

(* validate_handoff: no target, something missing, or ready.                *)
HandoffOf ==
  IF targets = {} \/ (plan # NoPlan /\ plan.items = {}) THEN "NO_TARGETS"
  ELSE IF \/ plan = NoPlan \/ graph = None \/ classification.classes = None
          \/ Known = {} \/ \A c \in Classes : packs[c] = NoPack
       THEN "MISSING" ELSE "READY"
-----------------------------------------------------------------------------
Init ==
  /\ sources = [c \in Classes |-> [stamp |-> 0, api |-> 0]] /\ classfiles = sources
  /\ report \in SUBSET Classes
  /\ targets = None /\ baseline = None /\ contracts = [c \in Classes |-> None]
  /\ index = NoIndex /\ classification = [classes |-> None, written |-> 0]
  /\ graph = None /\ affected = None /\ plan = NoPlan /\ packs = [c \in Classes |-> NoPack]
  /\ handoff = None /\ cache = [s \in Cacheable |-> None]
  /\ step = "idle" /\ phase = "look" /\ request = NoRequest
  /\ entries = [s \in Cacheable |-> None] /\ pending = None /\ rc = 0
  /\ last = [request |-> NoRequest, ended |-> "never"]
  /\ killed = FALSE /\ emptied = FALSE /\ skipped = {} /\ runs = 0 /\ events = 0

(* The step after s, "idle" after the last one.                             *)
Following(s) ==
  LET i == CHOOSE i \in DOMAIN Order : Order[i] = s IN
  IF i = Len(Order) THEN "idle"
  ELSE IF Order[i + 1] = "incremental" /\ ~request.since THEN Order[i + 2] ELSE Order[i + 1]

(* main returns, or run_required_step exits, and the process is gone.       *)
End(how) ==
  /\ step' = "idle" /\ phase' = "look" /\ request' = NoRequest
  /\ entries' = [s \in Cacheable |-> None] /\ pending' = None /\ rc' = 0
  /\ last' = [request |-> request, ended |-> how]

GoOn(code) ==
  IF Following(step) = "idle"
  THEN End(IF code = 0 THEN "ok" ELSE "failed")
  ELSE /\ step' = Following(step)
       /\ phase' = (IF Following(step) \in Cacheable THEN "look" ELSE "run")
       /\ pending' = None /\ rc' = code /\ UNCHANGED <<request, entries, last>>

(* The step has returned: 0, or an error that ends the run unless it was   *)
(* told to continue; only a cacheable step that succeeded has a commit.     *)
Leave_mutant(ok) ==
  IF ~ok /\ ~request.coe THEN End("failed")
  ELSE IF step \in Cacheable
  THEN phase' = "commit" /\ UNCHANGED <<step, request, entries, pending, rc, last>>
  ELSE GoOn(IF ok THEN rc ELSE 1)

Leave(ok) ==
  \/ /\ ok
     /\ IF step \in Cacheable
        THEN phase' = "commit" /\ UNCHANGED <<step, request, entries, pending, rc, last>>
        ELSE GoOn(rc)
  \/ ~ok /\ IF request.coe THEN GoOn(1) ELSE End("failed")

Event == events < MaxEvents /\ events' = events + 1

Return(ok) == Leave(ok) /\ IF ok THEN events' = events ELSE Event

Running(s) == step = s /\ phase = "run" /\ UNCHANGED <<repository, cache, killed, runs>>
At(s) == Running(s) /\ UNCHANGED <<emptied, skipped>>
-----------------------------------------------------------------------------
Start ==
  /\ step = "idle" /\ runs < MaxRuns /\ runs' = runs + 1
  /\ \E r \in Requests :
       LET first == IF r.xml THEN "jacoco" ELSE "bytecode" IN
       /\ request' = r /\ step' = first
       /\ phase' = IF first \in Cacheable THEN "look" ELSE "run"
  /\ entries' = cache
  /\ UNCHANGED <<repository, products, cache, pending, rc, last, past, events>>

(* _try_cache_hit.                                                          *)
Look ==
  /\ step # "idle" /\ phase = "look"
  /\ IF entries[step] # None /\ entries[step] = Signature(step)
     THEN GoOn(rc)
     ELSE /\ entries' = [entries EXCEPT ![step] = None]
          /\ pending' = Signature(step) /\ phase' = "run"
          /\ UNCHANGED <<step, request, rc, last>>
  /\ UNCHANGED <<repository, products, cache, past, runs, events>>

(* _commit_cache_after: the whole dictionary is written.                    *)
Commit ==
  /\ phase = "commit"
  /\ LET committed == [entries EXCEPT ![step] = pending] IN
     /\ cache' = committed
     /\ entries' = committed /\ step' = Following(step)
     /\ phase' = IF Following(step) \in Cacheable THEN "look" ELSE "run"
  /\ pending' = None /\ UNCHANGED <<request, rc, last>>
  /\ UNCHANGED <<repository, products, past, runs, events>>

Jacoco ==
  /\ At("jacoco")
  /\ \E ok \in BOOLEAN : Return(ok) /\ targets' = IF ok THEN report ELSE targets
  /\ UNCHANGED <<baseline, contracts, index, classification, graph, affected, plan, packs,
                 handoff>>

(* snapshot_baseline, and the early exit when there is nothing to cover.    *)
Baseline == IF baseline = None THEN report ELSE baseline

Snapshot ==
  /\ Running("snapshot") /\ UNCHANGED skipped
  /\ baseline' = Baseline /\ events' = events
  /\ IF targets = {}
     THEN /\ plan' = EmptyPlan /\ End(IF rc = 0 THEN "empty" ELSE "failed")
          /\ emptied' = (emptied \/ plan # NoPlan)
     ELSE plan' = plan /\ GoOn(rc) /\ UNCHANGED emptied
  /\ UNCHANGED <<targets, contracts, index, classification, graph, affected, packs, handoff>>

(* A scan that fails has written some of the contracts, in any order.  One  *)
(* that succeeds leaves out the classes javap cannot read, the generated    *)
(* ones and those whose contract is not valid: what they had stays.         *)
ScannedContract(c) == [api |-> classfiles[c].api, enriched |-> FALSE]

Bytecode ==
  /\ Running("bytecode") /\ UNCHANGED emptied
  /\ \E ok \in BOOLEAN, done \in SUBSET Scanned :
       /\ Leave(ok) /\ IF ok /\ done = Scanned THEN events' = events ELSE Event
       /\ contracts' = [c \in Classes |-> IF c \in done THEN ScannedContract(c)
                                          ELSE contracts[c]]
       /\ skipped' = (skipped \union (IF ok THEN Scanned ELSE {})) \ done
  /\ UNCHANGED <<targets, baseline, index, classification, graph, affected, plan, packs,
                 handoff>>

Source ==
  /\ At("source")
  /\ \E ok \in BOOLEAN, done \in SUBSET Known :
       /\ Return(ok) /\ (ok => done = Known)
       /\ contracts' = [c \in Classes |-> IF c \in done \intersect Annotated
                                          THEN [contracts[c] EXCEPT !.enriched = TRUE]
                                          ELSE contracts[c]]
  /\ UNCHANGED <<targets, baseline, index, classification, graph, affected, plan, packs,
                 handoff>>

Index ==
  /\ At("index")
  /\ \E ok \in BOOLEAN, written \in 0 .. 3 :
       Return(ok) /\ (ok => written = 3) /\ index' = IndexAfter(written)
  /\ UNCHANGED <<targets, baseline, contracts, classification, graph, affected, plan, packs,
                 handoff>>

Classify ==
  /\ At("classification")
  /\ \E ok \in BOOLEAN :
       /\ Return(ok)
       /\ classification' = IF ok THEN [classes |-> ClassesOf, written |-> runs]
                            ELSE classification
  /\ UNCHANGED <<targets, baseline, contracts, index, graph, affected, plan, packs, handoff>>

(* dependency_graph_extractor.                                              *)
Deps ==
  /\ At("deps")
  /\ \E ok \in BOOLEAN : Return(ok) /\ graph' = IF ok THEN GraphOf ELSE graph
  /\ UNCHANGED <<targets, baseline, contracts, index, classification, affected, plan, packs,
                 handoff>>

(* incremental_map_writer, from the graph in the index, or when there is no *)
(* index from nothing: the other file has no "classes".                     *)
Incremental ==
  /\ At("incremental")
  /\ \E ok \in BOOLEAN :
       /\ Return(ok)
       /\ affected' = IF ok THEN AffectedBy(index.graph, Changed)
                      ELSE affected
  /\ UNCHANGED <<targets, baseline, contracts, index, classification, graph, plan, packs,
                 handoff>>

Planning ==
  /\ At("planning")
  /\ \E ok \in BOOLEAN : Return(ok) /\ plan' = IF ok THEN PlanOf ELSE plan
  /\ UNCHANGED <<targets, baseline, contracts, index, classification, graph, affected, packs,
                 handoff>>

(* context_pack_builder: fails without a plan, and when some pack fails.    *)
PackOf(c) == [plan |-> plan, contract |-> contracts[c]]

Context ==
  /\ At("context")
  /\ \E ok \in BOOLEAN, done \in SUBSET (IF plan = NoPlan THEN {} ELSE Packed) :
       /\ Return(ok) /\ (ok => plan # NoPlan /\ done = Packed)
       /\ packs' = [c \in Classes |-> IF c \in done THEN PackOf(c) ELSE packs[c]]
  /\ UNCHANGED <<targets, baseline, contracts, index, classification, graph, affected, plan,
                 handoff>>

(* state_validator: changes nothing but may refuse.                         *)
Validate ==
  /\ \/ At("validate-contracts") \/ At("validate-index") \/ At("validate")
  /\ \E ok \in BOOLEAN : Return(ok)
  /\ UNCHANGED products

Handoff ==
  /\ At("handoff") /\ handoff' = HandoffOf /\ events' = events
  /\ GoOn(IF HandoffOf = "MISSING" THEN 1 ELSE rc)
  /\ UNCHANGED <<targets, baseline, contracts, index, classification, graph, affected, plan,
                 packs>>

(* The process is killed, whatever it has in memory is lost.                *)
Kill ==
  /\ step # "idle" /\ Event /\ killed' = TRUE /\ End("killed")
  /\ UNCHANGED <<repository, products, cache, emptied, skipped, runs>>
-----------------------------------------------------------------------------
(* What people do to the repository meanwhile.                              *)
Change == Event /\ UNCHANGED <<products, cache, process, last, past, runs>>

Edit ==
  /\ Change
  /\ \E c \in Classes, declares \in BOOLEAN :
       LET stamp == sources[c].stamp + 1 IN
       sources' = [sources EXCEPT ![c] =
                     [stamp |-> stamp, api |-> IF declares THEN stamp ELSE sources[c].api]]
  /\ UNCHANGED <<classfiles, report>>

Compile == Change /\ classfiles' = sources /\ UNCHANGED <<sources, report>>

Measure == Change /\ report' \in SUBSET Classes /\ UNCHANGED <<sources, classfiles>>

Next ==
  \/ Start \/ Look \/ Commit \/ Jacoco \/ Snapshot \/ Bytecode \/ Source \/ Index \/ Classify
  \/ Deps \/ Incremental \/ Planning \/ Context \/ Validate \/ Handoff \/ Kill
  \/ Edit \/ Compile \/ Measure

Spec == Init /\ [][Next]_vars
-----------------------------------------------------------------------------
(* When the cache says that a full scan of the class files as they are now  *)
(* has been done, every class has a contract that shows what it declares,   *)
(* unless the last good scan of the class left it out: whatever was killed,  *)
(* failed half way, scanned for one class only or compiled meanwhile.       *)
ContractsAreCurrent ==
  cache["bytecode"] = BytecodeSignature(None) =>
    \A c \in Classes \ skipped :
      contracts[c] # None /\ contracts[c].api = classfiles[c].api

(* run_pipeline.py:26: "agents query a single consistent index".  A run     *)
(* that reports success leaves an index whose files show the contracts.     *)
IndexIsCurrent ==
  step = "idle" /\ last.ended = "ok" =>
    index.contracts = contracts /\ index.annotations.contracts = contracts

(* A run that reports success leaves a pack made from the plan on disk for  *)
(* each class it was asked for: those of the plan, or the one of --sut.     *)
(* An early exit that replaces a plan begins its cycles anew, and a plan of *)
(* before may come back when packs were spoilt meanwhile.                   *)
PlannedHavePacks ==
  step = "idle" /\ last.ended = "ok" /\ ~emptied =>
    \A c \in IF last.request.sut = None THEN plan.items ELSE {last.request.sut} :
      packs[c].plan = plan

(* What a successful run leaves as its plan has been chosen from the        *)
(* coverage targets on disk, with the same exception.                       *)
PlanIsFromReport ==
  step = "idle" /\ last.ended = "ok" /\ ~killed =>
    plan.items = {} \/ plan.targets = targets

(* run_pipeline.py:597, on every hit: "skipping (inputs unchanged)".  What a *)
(* skipped step has left is what it would write now.                        *)
HitIsSound ==
  step # "idle" /\ phase = "look" /\ entries[step] = Signature(step) =>
    CASE step = "bytecode"       -> \A c \in Scanned \ skipped : contracts[c] # None
                                      /\ contracts[c].api = classfiles[c].api
      [] step = "source"         -> \A c \in Known \intersect Annotated : contracts[c].enriched
      [] step = "index"          -> IndexAfter(2) = index
      [] step = "classification" -> classification.classes = ClassesOf
      [] step = "planning"       -> plan.items = ItemsOf
      [] step = "context"        -> \A c \in Packed : packs[c] = PackOf(c)
=============================================================================
