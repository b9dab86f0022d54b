------------------------------- MODULE Tools -------------------------------
(***************************************************************************)
(* The tools without a state of their own, one input at a time: a step     *)
(* presents an input to one of them, and the invariants say what it makes  *)
(* of it.                                                                  *)
(***************************************************************************)
EXTENDS Envelopes, ContextPack, FixturePlan

CONSTANTS
  Packs, Items, Sources,      (* a class as packed, as planned and as written *)
  Getters,                    (* the names of getters                         *)
  Requests,                   (* requests, each a set of targets              *)
  AnswerItems, RepairItems,   (* the items of answers to them ...             *)
  Answers, Repairs,           (* ... and the answers, sequences of items      *)
  Builds,                     (* [contracts, needs, packed, mockito], below   *)
  Reports, Modes, Contexts, Limits,   (* what the planner is given            *)
  Lambdas,                    (* the names of methods that are lambdas        *)
  Packings,                   (* [report, context, limit, project]            *)
  Roots, ModuleLists,         (* the poms of a project and of its modules     *)
  Projects, MethodNames, Completions,   (* ... and the gates                  *)
  MaxImports                  (* the cap on the imports of a compact pack     *)

VARIABLE probe   (* [tool |-> ..., input |-> ...], None before the step *)

Probed(tool) == probe # None /\ probe.tool = tool

-----------------------------------------------------------------------------
(* A target before the handoff.                                            *)

(* None and Scalar stand for values that are nothing else the tools tell   *)
(* apart.                                                                  *)
ASSUME NoneIsNoName ==
  None \notin {"no evidence", "no constants", "no body", "descriptor", "no methods", "evidence",
               "target evidence", "omitted", "junit4", "junit5", "mockito"}

(* The answer of a model that does what it is told.                        *)
BestTest(t) ==
  [object |-> TRUE, named |-> TRUE, body |-> TRUE, requires |-> {},
   evidence |-> IF t.targetEvidenceRequired THEN t.targetEvidenceIds ELSE t.allowedEvidenceIds,
   calls |-> IF t.method \in Anonymous \cup {"<init>"} THEN {} ELSE {t.method}]
Best(t) ==
  [object |-> TRUE, targetId |-> t.targetId, status |-> "generated",
   methods |-> <<BestTest(t)>>, legacy |-> None]

ASSUME OnTargets ==
  \A pack \in Packs, item \in Items, source \in Sources :
    LET t == Enriched(item, pack, source)
    IN  /\ t.targetId # Scalar
        /\ \A ids \in SUBSET t.allowedEvidenceIds : ids # Scalar
        /\ <<BestTest(t)>> \notin {None, Scalar}
        /\ Canonical(Request(t), <<BestTest(t)>>) # None

CanBeAnswered(t) ==
  Preflight(t, Getters) = None =>
    Hydrate({Request(t)}, <<Best(t)>>)[Request(t)].status = "generated"

(* Whatever is sent can be answered: no target that passes the pre-flight  *)
(* is one whose every completion the validation must refuse for want of    *)
(* evidence in the request, so no handoff is spent in vain.                *)
SentIsAnswerable ==
  Probed("preflight") => CanBeAnswered(Enriched(probe.item, probe.pack, probe.source))

-----------------------------------------------------------------------------
(* An answer to a request.                                                 *)

Item(id, status, methods, legacy) ==
  [object |-> TRUE, targetId |-> id, status |-> status, methods |-> methods, legacy |-> legacy]

IsList(s) == IsFiniteSet(DOMAIN s) /\ \A i \in DOMAIN s : i \in Nat

(* A request is a dictionary by targetId; an answer is a list, as is what  *)
(* it says of the test methods, if it is of the right kind.                *)
ASSUME OnRequests ==
  \A request \in Requests :
    IsFiniteSet(request) /\ \A t, u \in request : t.targetId = u.targetId => t = u

ASSUME OnAnswers ==
  /\ Answers \subseteq Seq(AnswerItems)
  /\ \A item \in AnswerItems : item.object =>
       CompletionMethods(item) \in {None, Scalar} \/ IsList(CompletionMethods(item))

Total(c) ==
  c.skipped + c.needMoreContext + c.failed + c.generatedValid + c.generatedInvalid + c.omitted

(* A generated descriptor holds what the request allows and nothing else.  *)
Backed(p, t) ==
  /\ p.allowedImports \subseteq t.allowedImports \ Wildcards
  /\ p.requires \subseteq t.allowedImports
  /\ p.testClass = t.canonicalTestClass /\ p.sut = t.sut
  /\ \A i \in DOMAIN p.methods :
       /\ p.methods[i].evidence \subseteq t.allowedEvidenceIds
       /\ t.targetEvidenceRequired => p.methods[i].evidence \intersect t.targetEvidenceIds # {}
       /\ p.methods[i].calls \subseteq Methods(t)

CountsAddUp(request, answer) ==
  LET counts == Counts(request, answer)
  IN  /\ Total(counts) = Cardinality(request)
      /\ counts.received - counts.unknown - counts.duplicated =
           Cardinality(request) - counts.omitted
             + Cardinality({i \in DOMAIN answer : ~answer[i].object})

GenerationIsSettled(request, answer) ==
  LET out == Hydrate(request, answer)
  IN  /\ CountsAddUp(request, answer)
      /\ \A t \in request :
           /\ \A n \in 0 .. Len(answer) :
                LET prefix == SubSeq(answer, 1, n)
                IN  Answering(prefix, t.targetId) # {} => out[t] = Hydrate({t}, prefix)[t]
           /\ out[t].status = "generated" =>
                /\ Backed(out[t].patch, t)
                /\ ValidateGeneration(request,
                     <<Item(t.targetId, "generated", None, out[t].patch)>>)

(* A repair that is accepted is backed, and leaving out what Python fills  *)
(* in would not have changed that.                                         *)
Omit(item) ==
  [item EXCEPT !.legacy = [@ EXCEPT !.schemaVersion = None, !.patchId = None,
                                    !.sut = None, !.testClass = None]]
IsDescriptor(p) ==
  p = [full |-> p.full, schemaVersion |-> p.schemaVersion, patchId |-> p.patchId,
       sut |-> p.sut, testClass |-> p.testClass, allowedImports |-> p.allowedImports,
       requires |-> p.requires, methods |-> p.methods]

ASSUME OnRepairs ==
  /\ Repairs \subseteq Seq(RepairItems)
  /\ \A item \in RepairItems : item.object /\ item.status = "repaired" =>
       /\ item = Item(item.targetId, item.status, item.methods, item.legacy)
       /\ item.legacy # None =>
            /\ IsDescriptor(item.legacy) /\ Omit(item).legacy # None
            /\ item.legacy.methods \in {None, Scalar} \/ IsList(item.legacy.methods)

RepairIsSettled(request, answer) ==
  ValidateRepair(request, answer) => \A i \in DOMAIN answer :
    answer[i].status = "repaired" =>
      /\ \A t \in request :
           t.targetId = answer[i].targetId => Backed(HydrateRepair(answer[i].legacy, t), t)
      /\ ValidateRepair(request, [answer EXCEPT ![i] = Omit(@)])

(* Whatever the answer lists twice, leaves out, makes up or gets wrong,    *)
(* each target of a generation request gets one outcome, that of the first *)
(* item about it alone; what is generated or repaired rests on the         *)
(* evidence and the imports of its request, and the counts add up.         *)
AnswersAreSettled ==
  /\ Probed("generation") /\ ~Raises(probe.request, probe.answer) =>
       GenerationIsSettled(probe.request, probe.answer)
  /\ Probed("repair") => RepairIsSettled(probe.request, probe.answer)

(* batch_protocol.py:1502, "a single bad ITEM never aborts the batch".     *)
BadItemFailsItself ==
  Probed("generation") => Hydrate(probe.request, probe.answer) # None

-----------------------------------------------------------------------------
(* The construction of a class.  A build says what the contracts are, of   *)
(* which classes each class needs the fixtures, and which have a pack.     *)

PackOf(build, class) ==
  LET contract == build.contracts[class]
      catalog  == Catalog(build.contracts, build.mockito)
      near     == build.needs[class] \cup {class}
  IN  IF class \notin build.packed THEN None
      ELSE [constructors |-> contract.constructors,
            fixtures |-> [type \in near \intersect DOMAIN catalog |-> catalog[type]],
            dependencies |-> [type \in build.needs[class] |->
              IF type \in DOMAIN catalog THEN catalog[type].strategy ELSE "mock"]]

PacksOf(build) == [class \in DOMAIN build.contracts |-> PackOf(build, class)]

(* The types of a project are its classes and the literals; each number    *)
(* put behind a name makes another name.                                   *)
Expressions(types) == [of : types, nulls : BOOLEAN]
Recipes(types) == [expression : Expressions(types) \cup {None}]

ASSUME OnBuilds ==
  \A build \in Builds :
    LET types == Literals \cup DOMAIN build.contracts
    IN  /\ IsFiniteSet(DOMAIN build.contracts) /\ build.packed \subseteq DOMAIN build.contracts
        /\ None \notin Expressions(types) /\ None \notin Recipes(types)
        /\ \A class \in build.packed :
             LET ctors == build.contracts[class].constructors
             IN  /\ PackOf(build, class) # None /\ IsList(ctors)
                 /\ \A i \in Public(ctors) :
                      LET params == ctors[i].params
                      IN  /\ params \in Seq(ToSet(params))
                          /\ \A p \in ToSet(params) :
                               /\ p.type \in types
                               /\ IsInjective([n \in 2 .. Len(params) + 1 |->
                                                Numbered(NameOf(p), n)])

(* The classes that can be built where class ctx is built: the least set   *)
(* that holds what the catalog of ctx constructs with values, and, where   *)
(* it says nothing, what a shortest public constructor makes of literals   *)
(* and of members of the set.  Pairs of a ctx and a type.                  *)
ByCatalog(packs, ctx, type) ==
  type \in DOMAIN packs[ctx].fixtures /\ packs[ctx].fixtures[type].strategy # "mock"

CanBuild(packs, sut, known, ctx, type) ==
  /\ packs[ctx] # None
  /\ IF ByCatalog(packs, ctx, type)
     THEN /\ packs[ctx].fixtures[type].strategy = "constructor"
          /\ packs[ctx].fixtures[type].values
     ELSE /\ type # sut /\ packs[type] # None
          /\ Public(packs[type].constructors) # {}
          /\ \A p \in ToSet(Smallest(packs[type].constructors).params) :
               p.type \in Literals \/ <<type, p.type>> \in known

Buildable(packs, sut) ==
  LET pairs == (DOMAIN packs) \X (DOMAIN packs)
      after[n \in 0 .. Cardinality(pairs)] ==
        IF n = 0 THEN {}
        ELSE {q \in pairs : CanBuild(packs, sut, after[n - 1], q[1], q[2])}
  IN  after[Cardinality(pairs)]

(* Whether a pack has a fixture of the catalog with a null in it.          *)
NullsAreGiven(packs) ==
  \E ctx \in DOMAIN packs : packs[ctx] # None /\
    \E type \in DOMAIN packs[ctx].fixtures : packs[ctx].fixtures[type].nulls

HasNull(recipe) == recipe # None /\ recipe.expression # None /\ recipe.expression.nulls

Derived(sut, packs, mockito) ==
  LET plan   == Plan(sut, packs, mockito)
      can    == Buildable(packs, sut)
      ctors  == packs[sut].constructors
      params == IF Public(ctors) = {} THEN <<>> ELSE Smallest(ctors).params
      HasValue(type) ==
        \/ type \in Literals \/ <<sut, type>> \in can
        \/ StrategyIn(packs[sut], type) \in Constructible
        \/ StrategyIn(packs[sut], type) = "mock" /\ mockito
  IN  /\ Len(plan.arguments) = Len(params) /\ IsInjective(plan.arguments)
      /\ plan.complete <=> /\ Public(ctors) = {} => ctors = <<>>
                           /\ \A p \in ToSet(params) : HasValue(p.type)
      /\ \A i \in DOMAIN params :
           LET built == plan.collaborators[i]
           IN  /\ HasNull(built.recipe) => NullsAreGiven(packs)
               /\ built.strategy = "new" =>
                    (built.recipe # None /\ built.recipe.expression # None
                       <=> <<sut, params[i].type>> \in can)

(* The recursion through the packs, which cuts cycles by the path it took, *)
(* gives an expression to exactly the classes that can be built at all; a  *)
(* null in one comes from the catalog, never from the recursion; the plan  *)
(* says it is complete exactly if every parameter has a value, and no two  *)
(* arguments share a name.                                                 *)
PlanIsDerived ==
  Probed("fixtures") =>
    \A sut \in probe.build.packed : Derived(sut, PacksOf(probe.build), probe.build.mockito)

(* batch_runner.py:1175, "Every value is DERIVED": no expression the plan  *)
(* offers has a null in it that stands for nothing known.                  *)
NothingIsInvented ==
  Probed("fixtures") =>
    \A sut \in probe.build.packed :
      LET plan == Plan(sut, PacksOf(probe.build), probe.build.mockito)
      IN  \A i \in DOMAIN plan.collaborators : ~HasNull(plan.collaborators[i].recipe)

-----------------------------------------------------------------------------
(* The plan of a run.                                                      *)

(* The gaps an item of the plan speaks of.                                 *)
Speaks(target) == {target.id} \cup {l.id : l \in target.synthetic}

EveryGapOnce(emitted, targets, context) ==
  \A gap \in ToSet(emitted) :
    LET spoken == {i \in DOMAIN targets : gap.id \in Speaks(targets[i])}
    IN  IF Eligible(gap.sut, context)
        THEN \E i \in DOMAIN targets : spoken = {i} /\ targets[i].sut = gap.sut
        ELSE spoken = {}

(* What an item is said to miss.                                           *)
Misses(emitted, target) ==
  LET gaps == {gap \in ToSet(emitted) : gap.id \in Speaks(target)}
  IN  /\ Lines(target) = SumOver([gap \in gaps |-> gap.lines], gaps)
      /\ Branches(target) = SumOver([gap \in gaps |-> gap.branches], gaps)

OfClass(items, class) == Pick(items, {i \in DOMAIN items : items[i].target.sut = class})

(* A method has a name of its own, the method of a lambda's body never the *)
(* name of a lambda; what is counted is a number; None is not.             *)
ASSUME OnReports ==
  /\ None \notin Int /\ Modes \subseteq {"coverage", "branch-coverage", "mutation-hardening"}
  /\ \A report \in Reports : IsList(report) /\ \A i \in DOMAIN report :
       LET gap == report[i]
       IN  /\ gap.sut \in Int /\ gap.lines \in Nat /\ gap.branches \in Nat
           /\ (IF gap.parent = None THEN gap.method ELSE gap.parent) \notin Lambdas

ASSUME OnContexts ==
  \A context \in Contexts :
    /\ context = [classes |-> context.classes, index |-> context.index, allow |-> context.allow,
                  affected |-> context.affected, affectedOnly |-> context.affectedOnly,
                  failures |-> context.failures]
    /\ IsList(context.failures)
    /\ \A i \in DOMAIN context.failures : context.failures[i].attempts \in Int

ASSUME OnLimits == Limits \subseteq Int

(* first: what the plan would be had no test failed.                       *)
RankedWell(emitted, ranked, first, mode, context) ==
  LET targets == [i \in DOMAIN ranked |-> ranked[i].target]
  IN  /\ \A i \in DOMAIN targets : targets[i].method \notin Lambdas
      /\ \A limit \in Limits :
           LET plan == BatchPlan(ranked, PlanLimit(limit, None))
           IN  /\ IsPrefix(plan.items, ranked) /\ plan.totalEligibleTargets = Len(ranked)
               /\ Len(plan.items) = IF limit < 1 THEN Len(ranked) ELSE Min({limit, Len(ranked)})
      /\ mode # "mutation-hardening" =>
           /\ EveryGapOnce(emitted, targets, context)
           /\ \A i \in DOMAIN targets : Misses(emitted, targets[i])
           /\ \A class \in {gap.sut : gap \in ToSet(emitted)} :
                LET m == OfClass(ranked, class)
                    f == OfClass(first, class)
                IN  Len(m) = Len(f) /\ \A i \in DOMAIN m : m[i].target = f[i].target

(* The plan speaks of every gap, once: of a gap of an eligible class in    *)
(* one item, about that class, whose score it enters, whatever lambda of   *)
(* whatever method it is in; no item is about a lambda or another class; a *)
(* limit takes the head of the ranking; and a class that failed before is  *)
(* ranked lower but loses no target.  Where fully covered methods are      *)
(* targets too, a lambda given to one of them may be lost with it (see     *)
(* README.md).                                                             *)
PlanIsRanked ==
  Probed("planner") =>
    RankedWell(Emit(probe.report, probe.mode), Ranked(probe.report, probe.mode, probe.context),
               Ranked(probe.report, probe.mode, [probe.context EXCEPT !.failures = <<>>]),
               probe.mode, probe.context)

-----------------------------------------------------------------------------
(* The pack of a class, whole and compact.                                 *)

FailuresAreShown(failures, class, rows) ==
  LET Key(row) == <<row.code, row.fix>>
      shown == {Key(row) : row \in ToSet(rows)}
  IN  \A f \in {g \in ToSet(failures) : g.sut = class /\ g.result = "FAILED"} :
        IF Key(f) \in shown
        THEN \E row \in ToSet(rows) : Key(row) = Key(f) /\ row.cycle >= f.cycle
        ELSE Cardinality(shown) = Len(rows) /\ Len(rows) = MaxRows

CompactIsFaithful(compact, pack) ==
  LET leaves == compact.imports.leaves
      read   == (UNION {ToSet(leaves[p]) : p \in DOMAIN leaves}) \cup ToSet(compact.imports.rest)
  IN  /\ compact.imports.truncated <=> Len(pack.imports) > MaxImports
      /\ read \subseteq ToSet(pack.imports)
      /\ Cardinality(read) = Min({MaxImports, Len(pack.imports)})

(* No name is twice in the alphabet; a failure has the number of its cycle. *)
ASSUME OnPackings ==
  /\ IsList(Alphabet) /\ IsInjective(Alphabet) /\ MaxRows \in Nat /\ MaxImports \in Nat
  /\ \A packing \in Packings :
       /\ packing.report \in Reports /\ packing.context \in Contexts /\ packing.limit \in Limits
       /\ IsList(packing.project.failures)
       /\ \A i \in DOMAIN packing.project.failures : packing.project.failures[i].cycle \in Int

PackedWell(project, class, emitted, items) ==
  LET pack == Pack(project, class, emitted, items)
      mine == {items[i].target : i \in {j \in DOMAIN items : items[j].target.sut = class}}
  IN  /\ {<<t.id, t.lines, t.branches>> : t \in pack.coverage}
           = {<<t.id, t.lines, t.branches>> : t \in mine}
      /\ FailuresAreShown(project.failures, class, pack.failures)
      /\ CompactIsFaithful(Compact(pack, MaxImports), pack)

(* Whatever the class, the pack speaks of the gaps of its plan items and   *)
(* of no other; a failed pair of error and fix is left out only for want   *)
(* of rows, and no row is spent on a second case of a pair before that;    *)
(* the imports of the compact pack are imports of the pack, as many as the *)
(* cap allows, and it says when there are more.                            *)
PackIsFaithful ==
  Probed("pack") =>
    LET case    == probe.packing
        emitted == Emit(case.report, "coverage")
        ranked  == Ranked(case.report, "coverage", case.context)
    IN  \A class \in DOMAIN case.project.contracts :
          PackedWell(case.project, class, emitted,
                     BatchPlan(ranked, PlanLimit(case.limit, None)).items)

-----------------------------------------------------------------------------
(* The gates.                                                              *)

(* What the handoff reads of a pack.                                       *)
View(pack) ==
  [constructors |-> {c.id : c \in ToSet(pack.constructors)},
   methods |-> {[name |-> m.name, id |-> m.id] : m \in ToSet(pack.methods)},
   throwable |-> IsThrowable(pack.sut, pack.type), enum |-> FALSE,
   imports |-> ToSet(pack.imports)]
NoSource == [bodies |-> None, truncated |-> FALSE, constants |-> {}]

(* What the detector writes, if it has run.                                *)
Profiles == {None} \cup UNION {Detect(root, modules) : root \in Roots, modules \in ModuleLists}

ASSUME OnGates ==
  /\ IdsOf(Inherited) \subseteq InheritedIds
  /\ \A modules \in ModuleLists : IsList(modules) /\ (modules # <<>> => 1 \in DOMAIN modules)
  /\ \A completion \in Completions : completion \in {None, Scalar} \/ IsList(completion)
  /\ \A project \in Projects :
       /\ project.profile \in Profiles
       /\ \A class \in DOMAIN project.contracts :
            IsList(project.contracts[class].methods)

Agreed(project, class, method, completion) ==
  LET pack    == Pack(project, class, <<>>, <<>>)
      target  == [targetId |-> class, sut |-> class, method |-> method]
      request == Request(Enriched(target, View(pack), NoSource))
      out     == HydrateItem(request, Item(class, "generated", completion, None))
  IN  out.status = "generated" =>
        /\ G1(out.patch, ToSet(pack.imports)) /\ G2(out.patch, project)
        /\ G5(pack) <=> project.profile # None

(* What the request offers, the gates take: a completion the validation    *)
(* lets through passes G1 and G2 on the full pack, the inherited methods   *)
(* of an exception included, and G5 unless the stack profile is missing.   *)
GatesAgree ==
  Probed("gates") => \A class \in DOMAIN probe.project.contracts :
    Agreed(probe.project, class, probe.method, probe.completion)

-----------------------------------------------------------------------------
Init == probe = None

Preflighted ==
  \E pack \in Packs, item \in Items, source \in Sources :
    probe' = [tool |-> "preflight", pack |-> pack, item |-> item, source |-> source]

Answered ==
  \E request \in Requests :
    \/ \E answer \in Answers :
         probe' = [tool |-> "generation", request |-> request, answer |-> answer]
    \/ \E answer \in Repairs :
         probe' = [tool |-> "repair", request |-> request, answer |-> answer]

Built == \E build \in Builds : probe' = [tool |-> "fixtures", build |-> build]

Planned ==
  \E report \in Reports, context \in Contexts, mode \in Modes :
    probe' = [tool |-> "planner", report |-> report, context |-> context, mode |-> mode]

Packed == \E packing \in Packings : probe' = [tool |-> "pack", packing |-> packing]

Gated ==
  \E project \in Projects, method \in MethodNames, completion \in Completions :
    probe' = [tool |-> "gates", project |-> project, method |-> method,
              completion |-> completion]

Next == probe = None /\ (Preflighted \/ Answered \/ Built \/ Planned \/ Packed \/ Gated)

Spec == Init /\ [][Next]_probe
=============================================================================
