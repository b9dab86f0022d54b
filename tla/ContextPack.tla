---------------------------- MODULE ContextPack ----------------------------
(***************************************************************************)
(* What the model is told about a class: the test stack found in the poms  *)
(* (tools/python/stack_profile_detector.py), the context pack that gathers *)
(* the state files (context_pack_builder.py), the compact form of it that  *)
(* is sent, and the gates that hold a patch against the pack               *)
(* (gate_runner.py).                                                       *)
(*                                                                         *)
(* pom       [deps, parent, classpath]: the test libraries it lists, a     *)
(*           sequence of [lib, version]; the namespace its Spring Boot     *)
(*           parent stands for, as a wildcard import; the version of each  *)
(*           library family on the resolved classpath, a function from     *)
(*           some families.                                                *)
(* project   [profile, contracts, graph, catalog, sources, failures,       *)
(*           classes], the state files; contracts, graph and classes are   *)
(*           functions from some classes.  A signature is known by its     *)
(*           types, a set of names of classes.                             *)
(***************************************************************************)
EXTENDS Planner, SequencesExt

CONSTANTS
  Alphabet,     (* the names of importable classes, in alphabetical order    *)
  Package(_),   (* the package of an import, None if it has none             *)
  JavaLang,     (* the names every Java file has without an import           *)
  Supplied,     (* <<slot, framework>> |-> the imports it comes with         *)
  Suffixed,     (* the classes called ...Exception or ...Error               *)
  InheritedIds, (* evidence ids of the methods every Throwable has           *)
  MaxRows       (* FAILURE_MEMORY_MAX_PER_SUT                                *)

-----------------------------------------------------------------------------
(* The test stack.  A profile is [libs, versions, namespace].              *)

Family ==
  [junit |-> {"junit5", "junit4"}, mockito |-> {"mockito", "mockito-inline"},
   assertj |-> {"assertj"}, hamcrest |-> {"hamcrest"}]

(* The starter of Spring Boot stands for three libraries, whose versions   *)
(* it does not say.                                                        *)
Absorb(pom) ==
  LET listed == {pom.deps[i].lib : i \in DOMAIN pom.deps}
      stated(f) == {i \in DOMAIN pom.deps :
                      pom.deps[i].lib \in Family[f] /\ pom.deps[i].version # None}
  IN  [libs |-> listed
         \cup (IF "mockito-inline" \in listed THEN {"mockito"} ELSE {})
         \cup (IF "starter-test" \in listed THEN {"junit5", "mockito", "assertj"} ELSE {}),
       versions |-> [f \in DOMAIN Family |->
                       IF stated(f) = {} THEN None ELSE pom.deps[Min(stated(f))].version],
       namespace |-> pom.parent]

FillVersions(profile, classpath) ==
  [profile EXCEPT !.versions = [f \in DOMAIN Family |->
     IF @[f] = None /\ f \in DOMAIN classpath THEN classpath[f] ELSE @[f]]]

(* What a module takes over from the root, group by group, if it has none  *)
(* of the libraries that decide the group: flags and versions, also the    *)
(* version its own classpath has just been asked for.                      *)
Groups ==
  {[deciding |-> Family.junit, libs |-> Family.junit, versions |-> {"junit"}],
   [deciding |-> {"mockito"}, libs |-> {"mockito", "mockito-inline", "powermock"},
    versions |-> {"mockito"}],
   [deciding |-> {"assertj", "hamcrest"}, libs |-> {"assertj", "hamcrest"},
    versions |-> {"assertj", "hamcrest"}],
   [deciding |-> {"spring-test", "spring-boot-test", "starter-test"},
    libs |-> {"spring-test", "spring-boot-test", "starter-test"}, versions |-> {}]}

Inherit(profile, root) ==
  LET taken == {g \in Groups : profile.libs \intersect g.deciding = {}}
      libs  == UNION {g.libs : g \in taken}
      versions == UNION {g.versions : g \in taken}
  IN  [libs |-> (profile.libs \ libs) \cup (root.libs \intersect libs),
       versions |-> [f \in DOMAIN Family |->
                       IF f \in versions THEN root.versions[f] ELSE profile.versions[f]],
       namespace |-> IF profile.namespace = None THEN root.namespace ELSE profile.namespace]

(* What is written of a module.  There is always a test framework and a    *)
(* mock framework, found or not.                                           *)
Written(profile) ==
  [test |-> IF "junit4" \in profile.libs /\ "junit5" \notin profile.libs
            THEN "junit4" ELSE "junit5",
   mock |-> "mockito",
   assert |-> CASE "assertj" \in profile.libs -> "assertj"
                [] "assertj" \notin profile.libs /\ "hamcrest" \in profile.libs -> "hamcrest"
                [] OTHER -> "junit-builtin",
   spring |-> profile.libs \intersect {"spring-test", "spring-boot-test", "starter-test"} # {},
   versions |-> profile.versions, namespace |-> profile.namespace]

(* The profiles that may be written; a module without a classpath has that *)
(* of the root.  presets: the namespace of most modules, any of several    *)
(* with as many.                                                           *)
Detect(root, modules) ==
  LET top == FillVersions(Absorb(root), root.classpath)
      own(pom) == IF DOMAIN pom.classpath = {} THEN root.classpath ELSE pom.classpath
      written == IF modules = <<>> THEN <<Written(top)>>
                 ELSE [i \in DOMAIN modules |->
                         Written(Inherit(FillVersions(Absorb(modules[i]), own(modules[i])), top))]
      having(n) == Cardinality({i \in DOMAIN written : written[i].namespace = n})
      named == {written[i].namespace : i \in DOMAIN written} \ {None}
      most == {n \in named : \A m \in named : having(m) <= having(n)}
  IN  {[modules |-> written, presets |-> p] : p \in IF most = {} THEN {{}} ELSE {{n} : n \in most}}

-----------------------------------------------------------------------------
(* The pack of a class.                                                    *)

Unknown == [test |-> "unknown", mock |-> "unknown", assert |-> "unknown", spring |-> FALSE]

(* The first module speaks for the project.                                *)
Stack(profile) ==
  IF profile = None \/ profile.modules = <<>> THEN Unknown
  ELSE LET m == profile.modules[1]
       IN  IF None \in {m.test, m.mock} THEN Unknown
           ELSE [test |-> m.test, mock |-> m.mock, assert |-> m.assert, spring |-> m.spring]
Blocked(stack) == stack = Unknown

(* Only what the stack is known to have.                                   *)
FrameworkImports(stack) ==
  LET slots == {<<"test", stack.test>>, <<"mock", stack.mock>>,
                <<stack.mock, stack.test>>, <<"assert", stack.assert>>,
                <<"spring", stack.spring>>}
  IN  UNION {Supplied[s] : s \in slots \intersect DOMAIN Supplied}

Usable(contract) ==
  Pick(contract.methods, {i \in DOMAIN contract.methods : contract.methods[i].usable})

ReferencedTypes(contract, graph) ==
  (UNION ({contract.constructors[i].types : i \in DOMAIN contract.constructors}
          \cup {m.types : m \in ToSet(Usable(contract))}
          \cup {graph.dependencies, graph.used})) \ JavaLang

AllowedImports(project, class, contract, graph) ==
  LET allowed == FrameworkImports(Stack(project.profile))
                 \cup (IF project.profile = None THEN {} ELSE project.profile.presets)
                 \cup project.sources \cup {class} \cup ReferencedTypes(contract, graph)
  IN  Pick(Alphabet, {i \in DOMAIN Alphabet : Alphabet[i] \in allowed})

(* The gaps the plan asks for, by their identifiers, as the report has     *)
(* them: without what lambdas added to them.                               *)
Coverage(class, emitted, items) ==
  LET asked == {item.target.id : item \in {i \in ToSet(items) : i.target.sut = class}}
  IN  {t \in ToSet(emitted) : t.sut = class /\ t.id \in asked}

(* The strategy of a type is that of the last fixture of the catalog.      *)
Strategy(catalog, type) ==
  LET of == {i \in DOMAIN catalog : catalog[i].type = type}
  IN  IF of = {} THEN "mock" ELSE catalog[Max(of)].strategy
Fixtures(catalog, class, dependencies) ==
  Pick(catalog, {i \in DOMAIN catalog : catalog[i].type \in dependencies \cup {class}})

(* The failures of a class, the latest first; one of each pair of error    *)
(* and fix before a second one of any.                                     *)
Latest(failures, class) ==
  LET mine == Pick(failures, {i \in DOMAIN failures :
                                failures[i].sut = class /\ failures[i].result = "FAILED"})
  IN  Sorted(mine, [i \in DOMAIN mine |-> <<-mine[i].cycle, 0>>])

FailureRows_mutant(failures, class) ==  (* the latest, whatever they are *)
  LET rows == Latest(failures, class)
  IN  SubSeq(rows, 1, Min({MaxRows, Len(rows)}))

FailureRows(failures, class) ==
  LET rows == Latest(failures, class)
      Same(i, j) == rows[i].code = rows[j].code /\ rows[i].fix = rows[j].fix
      first == {i \in DOMAIN rows : \A j \in 1 .. i - 1 : ~Same(i, j)}
  IN  SubSeq(Pick(rows, first) \o Pick(rows, DOMAIN rows \ first),
             1, Min({MaxRows, Len(rows)}))

Nothing == [constructors |-> <<>>, methods |-> <<>>, builders |-> {}]
Alone == [dependencies |-> {}, used |-> {}]

Pack(project, class, emitted, items) ==
  LET contract == IF class \in DOMAIN project.contracts THEN project.contracts[class] ELSE Nothing
      graph == IF class \in DOMAIN project.graph THEN project.graph[class] ELSE Alone
  IN  [sut |-> class, stack |-> Stack(project.profile), blocked |-> Blocked(Stack(project.profile)),
       type |-> IF class \in DOMAIN project.classes THEN project.classes[class] ELSE None,
       coverage |-> Coverage(class, emitted, items),
       constructors |-> contract.constructors, methods |-> Usable(contract),
       dependencies |-> [t \in graph.dependencies |-> Strategy(project.catalog, t)],
       fixtures |-> Fixtures(project.catalog, class, graph.dependencies),
       imports |-> AllowedImports(project, class, contract, graph),
       failures |-> FailureRows(project.failures, class)]

-----------------------------------------------------------------------------
(* The compact pack.  Of too many imports the alphabetically first stay; a *)
(* package with three or more of them is written once.                     *)
CompactImports(imports, max) ==
  LET kept == SubSeq(imports, 1, Min({max, Len(imports)}))
      In(p) == Pick(kept, {i \in DOMAIN kept : Package(kept[i]) = p})
      prefixes == {p \in {Package(i) : i \in ToSet(kept)} \ {None} : Len(In(p)) >= 3}
  IN  [leaves |-> [p \in prefixes |-> In(p)],
       rest |-> Pick(kept, {i \in DOMAIN kept : Package(kept[i]) \notin prefixes}),
       truncated |-> Len(imports) > max]

(* Evidence ids are pooled: a row cites the place of its id in the pool.   *)
Compact(pack, max) ==
  LET ids == [i \in DOMAIN pack.constructors |-> pack.constructors[i].id]
             \o [i \in DOMAIN pack.methods |-> pack.methods[i].id]
      pool == Pick(ids, {i \in DOMAIN ids : \A j \in 1 .. i - 1 : ids[j] # ids[i]})
  IN  [pool |-> pool,
       rows |-> [i \in DOMAIN ids |-> CHOOSE k \in DOMAIN pool : pool[k] = ids[i]],
       imports |-> CompactImports(pack.imports, max),
       coverage |-> pack.coverage, blocked |-> pack.blocked, failures |-> pack.failures]

-----------------------------------------------------------------------------
(* The gates.                                                              *)
G1(patch, imports) == patch.allowedImports \subseteq imports

ContractEvidence(contracts) ==
  UNION {{c.constructors[i].id : i \in DOMAIN c.constructors}
         \cup {c.methods[i].id : i \in DOMAIN c.methods} \cup c.builders
         : c \in {contracts[class] : class \in DOMAIN contracts}}

IsThrowable(class, type) == type = "exception" \/ class \in Suffixed

G2_mutant(patch, project) ==  (* takes the contracts for all there is *)
  \A i \in DOMAIN patch.methods :
    /\ patch.methods[i].evidence # {}
    /\ patch.methods[i].evidence \subseteq ContractEvidence(project.contracts)

G2(patch, project) ==
  LET type == IF patch.sut \in DOMAIN project.classes THEN project.classes[patch.sut] ELSE None
      known == ContractEvidence(project.contracts)
               \cup IF IsThrowable(patch.sut, type) THEN InheritedIds ELSE {}
  IN  \A i \in DOMAIN patch.methods :
        patch.methods[i].evidence # {} /\ patch.methods[i].evidence \subseteq known

(* A version may be unknown, a framework may not.                          *)
G5(pack) ==
  ~pack.blocked /\ "unknown" \notin {pack.stack.test, pack.stack.mock, pack.stack.assert}
=============================================================================
