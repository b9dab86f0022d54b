------------------------------ MODULE Planner ------------------------------
(***************************************************************************)
(* From a coverage report to a ranked batch plan: the gaps JaCoCo reports  *)
(* (tools/python/jacoco_parser.py), the class they are in                  *)
(* (classification_analyzer.py) and their order in the plan                *)
(* (coverage_planner.py).                                                  *)
(*                                                                         *)
(* report   sequence of [sut, method, parent, lines, branches]: a method   *)
(*          and what it misses; parent is the method a lambda's body was   *)
(*          written in, None for what is no lambda.  A class is named by   *)
(*          its place in the alphabet, a number.                           *)
(* context  [classes, index, allow, affected, affectedOnly, failures],     *)
(*          what the other state files say: classes a function from some   *)
(*          classes to [annotations, kind, abstract, named]; index the     *)
(*          classes the generated-code index matches; allow None or the    *)
(*          classes of --sut; affected those of a git diff; failures       *)
(*          function from some indices to [sut, result, attempts].         *)
(***************************************************************************)
EXTENDS Lists

-----------------------------------------------------------------------------
(* One target per method that misses what the mode is about, the           *)
(* identifiers given in the order of the report.                           *)
Missed(report, mode) ==
  Pick(report, {i \in DOMAIN report : /\ mode = "coverage" => report[i].lines > 0
                                      /\ mode = "branch-coverage" => report[i].branches > 0})
AsTargets(gaps) ==
  [i \in DOMAIN gaps |->
     [sut |-> gaps[i].sut, method |-> gaps[i].method, parent |-> gaps[i].parent,
      lines |-> gaps[i].lines, branches |-> gaps[i].branches, id |-> i, synthetic |-> {}]]
ByWeight(targets) ==
  Sorted(targets, [i \in DOMAIN targets |->
                     <<-(targets[i].lines * 2 + targets[i].branches * 3), 0>>])
Emit(report, mode) == ByWeight(AsTargets(Missed(report, mode)))

-----------------------------------------------------------------------------
TypeOfAnnotation ==
  [RestController |-> "controller", Service |-> "service", Repository |-> "repository",
   Configuration |-> "configuration", Mapper |-> "mapper", Component |-> "component"]

(* The first annotation of the class that is in the map, not the first of  *)
(* the map.                                                                *)
ByAnnotation(annotations) ==
  LET known == {i \in DOMAIN annotations : annotations[i] \in DOMAIN TypeOfAnnotation}
  IN  IF known = {} THEN None ELSE TypeOfAnnotation[annotations[Min(known)]]

ByKind(meta) ==
  CASE meta.kind = "interface" \/ meta.abstract -> "non-instantiable"
    [] meta.kind = "record" /\ ~meta.abstract -> "data-carrier"
    [] meta.kind = "enum" /\ ~meta.abstract -> "enum"
    [] OTHER -> None

(* named is the type the suffix of the name suggests.                      *)
TypeOf(class, context) ==
  LET meta == context.classes[class]
      says == <<IF class \in context.index THEN "generated/excluded" ELSE None,
                ByAnnotation(meta.annotations), ByKind(meta), meta.named, "component">>
  IN  says[Min({i \in DOMAIN says : says[i] # None})]

Risk(type) ==
  CASE type \in {"generated/excluded", "non-instantiable", "configuration"} -> "high"
    [] type = "controller" -> "medium"
    [] OTHER -> "low"

(* A class the classifier has not seen counts as medium.                   *)
RiskPenalty(class, context) ==
  LET risk == IF class \in DOMAIN context.classes THEN Risk(TypeOf(class, context)) ELSE "medium"
  IN  CASE risk = "high" -> 30 [] risk = "medium" -> 10 [] risk = "low" -> 0

FailurePenalty(class, context) ==
  5 * SumOver([i \in DOMAIN context.failures |-> context.failures[i].attempts],
        {i \in DOMAIN context.failures :
           context.failures[i].sut = class /\ context.failures[i].result = "FAILED"})

Boost(class, context) == IF class \in context.affected THEN 20 ELSE 0

-----------------------------------------------------------------------------
(* Generated classes never reach the model; --sut and an incremental run   *)
(* narrow what is left, the latter only if the diff touches anything.      *)
Eligible(class, context) ==
  /\ class \in DOMAIN context.classes => TypeOf(class, context) # "generated/excluded"
  /\ class \notin context.index
  /\ context.allow # None => class \in context.allow
  /\ context.affectedOnly /\ context.affected # {} => class \in context.affected

(* Where the gap of a lambda goes: to the last target of the class that is *)
(* the method the lambda was written in, if there is one.                  *)
Owner(targets, i) ==
  LET same == {j \in DOMAIN targets : /\ targets[j].parent = None
                                      /\ targets[j].sut = targets[i].sut
                                      /\ targets[j].method = targets[i].parent}
  IN  IF same = {} THEN None ELSE Max(same)

(* Which lambdas an owner takes over.                                      *)
TakenOver(targets, i) ==
  {targets[j] : j \in {k \in DOMAIN targets :
                         targets[k].parent # None /\ Owner(targets, k) = i}}

Collapse_mutant(targets) ==  (* a lambda without an owner is simply dropped *)
  LET kept == InOrder({i \in DOMAIN targets : targets[i].parent = None})
  IN  [k \in DOMAIN kept |->
         [targets[kept[k]] EXCEPT !.synthetic = TakenOver(targets, kept[k])]]

(* The target of a lambda disappears into its owner's; without an owner it *)
(* becomes a target for the method its name says it was written in.        *)
Collapse(targets) ==
  LET kept == InOrder({i \in DOMAIN targets :
                         targets[i].parent = None \/ Owner(targets, i) = None})
  IN  [k \in DOMAIN kept |->
         LET t == targets[kept[k]]
         IN  IF t.parent # None
             THEN [t EXCEPT !.method = t.parent, !.synthetic = {t}]
             ELSE [t EXCEPT !.synthetic = TakenOver(targets, kept[k])]]

(* What a target misses itself and what the lambdas given to it miss; the  *)
(* gap of an orphan is its own already.                                    *)
Lines(t) ==
  t.lines + IF t.parent # None THEN 0 ELSE SumOver([l \in t.synthetic |-> l.lines], t.synthetic)
Branches(t) ==
  t.branches + IF t.parent # None THEN 0 ELSE SumOver([l \in t.synthetic |-> l.branches], t.synthetic)

Score(t, context) ==
  Lines(t) * 3 + Branches(t) * 5 + (IF Lines(t) + Branches(t) > 0 THEN 2 ELSE 0)
    - RiskPenalty(t.sut, context) - FailurePenalty(t.sut, context) + Boost(t.sut, context)

EligibleOnes(targets, context) ==
  Pick(targets, {i \in DOMAIN targets : Eligible(targets[i].sut, context)})
Scored(targets, context) ==
  [i \in DOMAIN targets |-> [target |-> targets[i], score |-> Score(targets[i], context)]]

(* A target is left out only if it misses nothing: penalties move a gap    *)
(* down the plan and never out of it.                                      *)
WorthATest(scored) ==
  Pick(scored, {i \in DOMAIN scored :
                  \/ scored[i].score > 0
                  \/ scored[i].target.lines > 0 \/ scored[i].target.branches > 0})
ByScore(scored) ==
  Sorted(scored, [i \in DOMAIN scored |-> <<-scored[i].score, scored[i].target.sut>>])
Ranked(report, mode, context) ==
  ByScore(WorthATest(Scored(Collapse(EligibleOnes(Emit(report, mode), context)), context)))

(* --plan-limit, else the deprecated --batch-size, else no limit.          *)
PlanLimit(limit, batchSize) ==
  CASE limit # None -> limit
    [] limit = None /\ batchSize # None -> batchSize
    [] OTHER -> 0

BatchPlan(ranked, limit) ==
  [items |-> IF limit > 0 /\ limit < Len(ranked) THEN SubSeq(ranked, 1, limit) ELSE ranked,
   totalEligibleTargets |-> Len(ranked),
   planLimit |-> IF limit > 0 THEN limit ELSE 0]
=============================================================================
