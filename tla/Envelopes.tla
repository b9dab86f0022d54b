----------------------------- MODULE Envelopes -----------------------------
(***************************************************************************)
(* The two ends of a handoff (orchestrator/batch_protocol.py, with the     *)
(* enrichment of batch_runner.py): what a request says of a target, which  *)
(* targets are not worth a request, and what becomes of the answer, item   *)
(* by item for a generation and as a whole for a repair.  Pure operators;  *)
(* BatchRun is the loop around them.                                       *)
(*                                                                         *)
(* A class is its name, and so is its test class.  A method of the class   *)
(* under test is its name; "<init>", "<clinit>" and "lambda$" are the      *)
(* names that get special treatment.  An answered test method is           *)
(*   [object, named, body, evidence, calls, requires]                      *)
(* whether it is a JSON object, has a name and a body, the evidence ids it *)
(* cites (Scalar: something Python cannot iterate), the methods its body   *)
(* calls on a variable of the class under test, and the imports that its   *)
(* annotations stand for.                                                  *)
(***************************************************************************)
EXTENDS Lists

CONSTANTS
  Wildcards,   (* the imports that name a whole package                      *)
  Inherited,   (* evidence of the methods every Throwable has                *)
  Scalar       (* a JSON value of the wrong kind: a number where a list is
                  iterated, a list where a key is looked up                  *)

(* The first answer of a list of checks that is not None.                  *)
Earliest(checks) ==
  LET failed == {i \in DOMAIN checks : checks[i] # None}
  IN  IF failed = {} THEN None ELSE checks[Min(failed)]

Check(holds, why) == IF holds THEN None ELSE why

-----------------------------------------------------------------------------
(* The request: a plan item with the evidence of its context pack.         *)

Evidence(pack) ==
  {[kind |-> "constructor", name |-> "constructor", id |-> c] : c \in pack.constructors}
    \cup {[kind |-> "method", name |-> m.name, id |-> m.id] : m \in pack.methods}
    \cup IF pack.throwable THEN Inherited ELSE {}

IdsOf(refs) == {r.id : r \in refs}
Anonymous == {"", "<clinit>", "lambda$"}

TargetEvidence(method, refs) ==
  IdsOf({r \in refs : \/ r.kind = "method" /\ r.name = method
                      \/ method = "<init>" /\ r.kind = "constructor"})

(* source: what _read_sut_source and _enum_constants find in the .java     *)
(* file: the names followed by a "(" in the projected bodies, or None.     *)
Enriched(item, pack, source) ==
  LET refs  == Evidence(pack)
      named == item.method \notin Anonymous
  IN  [targetId |-> item.targetId, sut |-> item.sut, method |-> item.method,
       allowedImports |-> pack.imports,
       allowedEvidenceIds |-> IdsOf(refs), evidenceRefs |-> refs,
       targetEvidenceRequired |-> named,
       targetEvidenceIds |-> IF named THEN TargetEvidence(item.method, refs) ELSE {},
       sutIsEnum |-> pack.enum,
       enumConstants |-> IF pack.enum THEN source.constants ELSE {},
       bodies |-> source.bodies, truncated |-> source.truncated]

HasEnumConstants(t) ==
  t.enumConstants # {} \/ \E r \in t.evidenceRefs : r.kind = "enumConstant"
Methods(t) == {r.name : r \in {x \in t.evidenceRefs : x.kind = "method"}}
IsEnumSurface(t) ==
  t.sutIsEnum \/ HasEnumConstants(t) \/ Methods(t) \intersect {"values", "valueOf"} # {}
BodyMissing(t) ==
  /\ t.method \notin Anonymous
  /\ t.bodies # None /\ ~t.truncated
  /\ (IF t.method = "<init>" THEN t.sut ELSE t.method) \notin t.bodies

(* Why a target is not sent, or None.  A getter makes an enum's            *)
(* constructor testable.                                                   *)
Preflight_mutant(t, getters) ==  (* asks for some evidence only *)
  Check(t.allowedEvidenceIds # {} \/ t.evidenceRefs # {}, "no evidence")

Preflight(t, getters) == Earliest(<<
  Check(t.allowedEvidenceIds # {} \/ t.evidenceRefs # {}, "no evidence"),
  Check(t.targetEvidenceRequired => t.targetEvidenceIds # {}, "no evidence"),
  Check(t.method = "<clinit>" \/ IsEnumSurface(t) => HasEnumConstants(t), "no constants"),
  Check(t.method = "<init>" /\ HasEnumConstants(t) =>
          Methods(t) \intersect ({"values", "valueOf"} \cup getters) # {}, "no constants"),
  Check(~BodyMissing(t), "no body")>>)

(* What build_generation_request ships of a target: everything the         *)
(* validation reads, and the canonical test class.                         *)
Request(t) ==
  [targetId |-> t.targetId, sut |-> t.sut, canonicalTestClass |-> t.sut,
   allowedImports |-> t.allowedImports,
   allowedEvidenceIds |-> t.allowedEvidenceIds, evidenceRefs |-> t.evidenceRefs,
   targetEvidenceRequired |-> t.targetEvidenceRequired,
   targetEvidenceIds |-> t.targetEvidenceIds]

-----------------------------------------------------------------------------
(* A patch descriptor.  A field that is missing is None; full says that it *)
(* is written as a whole file, requires is the imports that the            *)
(* annotations of the fields it declares stand for.                        *)

Concrete(imports) == imports \ Wildcards

Structure(p, t, prefix) ==
  Check(/\ p # None /\ ~p.full
        /\ p.schemaVersion = 1 /\ p.patchId = prefix
        /\ p.sut = t.sut /\ p.testClass = t.canonicalTestClass, "descriptor")

Imports(p, t) ==
  Check(/\ p.allowedImports \cup p.requires \subseteq t.allowedImports
        /\ \A i \in DOMAIN p.methods :
             p.methods[i].object => p.methods[i].requires \subseteq t.allowedImports,
        "descriptor")

MethodEvidence(m, t) ==
  LET cited == IF m.object /\ m.evidence # Scalar THEN m.evidence ELSE {}
  IN  Earliest(<<
        Check(m.object => cited # {} /\ cited \subseteq t.allowedEvidenceIds, "evidence"),
        Check(m.object /\ t.targetEvidenceRequired =>
                cited \intersect t.targetEvidenceIds # {}, "target evidence")>>)

MethodShape(m, t) ==
  Check(m.object /\ m.named /\ m.body /\ m.calls \subseteq Methods(t), "descriptor")

(* Why a descriptor is refused, by the part that is found first, or None.  *)
ValidatePatch(p, t, prefix) ==
  IF Structure(p, t, prefix) # None THEN "descriptor"
  ELSE IF p.methods \in {None, Scalar, <<>>} THEN "no methods"
  ELSE Earliest(<<
    Imports(p, t),
    Check(t.targetEvidenceRequired => t.targetEvidenceIds # {}, "target evidence"),
    Earliest([i \in DOMAIN p.methods |-> MethodEvidence(p.methods[i], t)]),
    Earliest([i \in DOMAIN p.methods |-> MethodShape(p.methods[i], t)])>>)

-----------------------------------------------------------------------------
(* The answer to a generation: a sequence of items                         *)
(*   [object, targetId, status, methods, legacy]                           *)
(* where legacy is a patchDescriptor the model wrote although it need not. *)

CompletionMethods(item) ==
  IF item.methods # None THEN item.methods
  ELSE IF item.legacy # None THEN item.legacy.methods ELSE None

Canonical(t, methods) ==
  [full |-> FALSE, schemaVersion |-> 1, patchId |-> "patch:", sut |-> t.sut,
   testClass |-> t.canonicalTestClass, allowedImports |-> Concrete(t.allowedImports),
   requires |-> {}, methods |-> methods]

(* The second pass: what one target gets for the item that answers it.     *)
Failed(why) == [status |-> "failed", reason |-> why, patch |-> None]
HydrateItem(t, item) ==
  LET methods == CompletionMethods(item)
  IN  CASE item.status \in {"skipped", "NEED_MORE_CONTEXT"} ->
             [status |-> item.status, reason |-> None, patch |-> None]
        [] item.status = "failed" -> Failed("model")
        [] item.status \notin {"skipped", "NEED_MORE_CONTEXT", "failed", "generated"} ->
             Failed("schema")
        [] item.status = "generated" ->
             IF methods \in {None, Scalar, <<>>} THEN Failed("no methods")
             ELSE IF \E i \in DOMAIN methods : ~methods[i].object THEN Failed("schema")
             ELSE LET why == ValidatePatch(Canonical(t, methods), t, "patch:")
                  IN  IF why # None THEN Failed(why)
                      ELSE [status |-> "generated", reason |-> None,
                            patch |-> Canonical(t, methods)]

(* The first pass: the first item of a target answers it.                  *)
Answering(answer, id) ==
  {i \in DOMAIN answer : answer[i].object /\ answer[i].targetId = id}

HydrateTarget_mutant(t, answer) ==  (* the last item of a target answers it *)
  LET mine == Answering(answer, t.targetId)
  IN  IF mine = {} THEN Failed("omitted") ELSE HydrateItem(t, answer[Max(mine)])

HydrateTarget(t, answer) ==
  LET mine == Answering(answer, t.targetId)
  IN  IF mine = {} THEN Failed("omitted") ELSE HydrateItem(t, answer[Min(mine)])

(* Only BatchResponseError is caught: a targetId that cannot be hashed and *)
(* evidence that cannot be iterated end the process (TypeError).           *)
Raises(request, answer) ==
  \/ \E i \in DOMAIN answer : answer[i].object /\ answer[i].targetId = Scalar
  \/ \E t \in request : LET mine == Answering(answer, t.targetId) IN
       /\ mine # {} /\ answer[Min(mine)].status = "generated"
       /\ LET methods == CompletionMethods(answer[Min(mine)])
          IN  /\ methods \notin {None, Scalar}
              /\ \A i \in DOMAIN methods : methods[i].object
              /\ \E i \in DOMAIN methods : methods[i].evidence = Scalar

Hydrate(request, answer) ==
  IF Raises(request, answer) THEN None
  ELSE [t \in request |-> HydrateTarget(t, answer)]

(* Under what an outcome is counted.                                       *)
Counter(outcome) ==
  CASE outcome.status # "failed" -> outcome.status
    [] outcome.status = "failed" /\ outcome.reason \in {"omitted", "model"} -> outcome.reason
    [] OTHER -> "invalid"

Counts(request, answer) ==
  LET ids      == {t.targetId : t \in request}
      objects  == {i \in DOMAIN answer : answer[i].object}
      known    == {i \in objects : answer[i].targetId \in ids}
      answered == {answer[i].targetId : i \in known}
      out      == Hydrate(request, answer)
      Number(counter) == Cardinality({t \in request : Counter(out[t]) = counter})
  IN  [received |-> Len(answer), unknown |-> Cardinality(objects \ known),
       duplicated |-> Cardinality(known) - Cardinality(answered),
       omitted |-> Number("omitted"), skipped |-> Number("skipped"),
       needMoreContext |-> Number("NEED_MORE_CONTEXT"), failed |-> Number("model"),
       generatedValid |-> Number("generated"), generatedInvalid |-> Number("invalid")]

(* The older contract, kept for compatibility: one bad item refuses the    *)
(* whole answer.                                                           *)
ValidateGeneration(request, answer) ==
  \A i \in DOMAIN answer :
    /\ answer[i].object
    /\ \E t \in request :
         /\ t.targetId = answer[i].targetId
         /\ \/ answer[i].status \in {"skipped", "failed", "NEED_MORE_CONTEXT"}
            \/ /\ answer[i].status = "generated"
               /\ ValidatePatch(answer[i].legacy, t, "patch:") = None

-----------------------------------------------------------------------------
(* The answer to a repair.                                                 *)

Filled(value, default) == IF value = None THEN default ELSE value
Empty ==
  [full |-> FALSE, schemaVersion |-> None, patchId |-> None, sut |-> None,
   testClass |-> None, allowedImports |-> None, requires |-> {}, methods |-> None]

HydrateRepair(p, t) ==
  LET d == Filled(p, Empty)
  IN  [full |-> d.full, schemaVersion |-> 1, patchId |-> Filled(d.patchId, "repair:"),
       sut |-> Filled(d.sut, t.sut), testClass |-> Filled(d.testClass, t.canonicalTestClass),
       allowedImports |-> Concrete(t.allowedImports), requires |-> d.requires,
       methods |-> d.methods]

(* One bad item refuses the whole answer, and with it the repair round.    *)
ValidateRepair(requested, answer) ==
  \A i \in DOMAIN answer :
    /\ answer[i].object
    /\ \E t \in requested :
         /\ t.targetId = answer[i].targetId
         /\ \/ answer[i].status \in {"skipped", "abandoned", "failed", "NEED_MORE_CONTEXT"}
            \/ /\ answer[i].status = "repaired"
               /\ ValidatePatch(HydrateRepair(answer[i].legacy, t), t, "repair:") = None
=============================================================================
