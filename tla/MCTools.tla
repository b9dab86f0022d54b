------------------------------ MODULE MCTools ------------------------------
(***************************************************************************)
(* The inputs that TLC presents to the tools.                              *)
(***************************************************************************)
EXTENDS Tools

Map(types, value) == [type \in types |-> value]
MCInherited == {[kind |-> "method", name |-> "getMessage", id |-> "inherited"]}
MCLimits == -1 .. 3

-----------------------------------------------------------------------------
(* Targets before the handoff.                                             *)
MCPacks ==
  [constructors : SUBSET {"new"}, throwable : BOOLEAN, enum : BOOLEAN,
   methods : SUBSET {[name |-> "m", id |-> "m1"], [name |-> "m", id |-> "m2"],
                     [name |-> "values", id |-> "v"]},
   imports : {{1, 2}}]
MCItems ==
  [targetId : {"A#m"}, sut : {"A"}, method : {"m", "values", "<init>", "<clinit>", "lambda$"}]
MCSources ==
  [bodies : {None, {}, {"m"}, {"m", "A"}}, truncated : BOOLEAN, constants : {{}, {"X"}}]

-----------------------------------------------------------------------------
(* Answers.  Target a needs evidence of its own method, b does not.        *)
Asked(id, required) ==
  [targetId |-> id, sut |-> id, canonicalTestClass |-> id,
   allowedImports |-> {1, 2}, allowedEvidenceIds |-> {"m1", "new"},
   evidenceRefs |-> {[kind |-> "method", name |-> "m", id |-> "m1"],
                     [kind |-> "constructor", name |-> "constructor", id |-> "new"]},
   targetEvidenceRequired |-> required,
   targetEvidenceIds |-> IF required THEN {"m1"} ELSE {}]
MCRequests == {{Asked("a", TRUE), Asked("b", FALSE)}}

Test(evidence, calls, requires) ==
  [object |-> TRUE, named |-> TRUE, body |-> TRUE, evidence |-> evidence,
   calls |-> calls, requires |-> requires]
Good == Test({"m1"}, {"m"}, {})
Bodies ==
  {<<Good>>, <<Test({"new"}, {}, {})>>, <<Good, Test({"m1"}, {"unheard"}, {})>>,
   <<Good, Test({"m1", "else"}, {}, {})>>, <<Test({"m1"}, {}, {9})>>,
   <<[Good EXCEPT !.body = FALSE]>>, <<[Good EXCEPT !.object = FALSE]>>,
   <<Test(Scalar, {}, {})>>, <<>>, Scalar, None}

NoObject == [Item(None, None, None, None) EXCEPT !.object = FALSE]
Patch(version, id, sut, imports, requires, methods) ==
  [full |-> FALSE, schemaVersion |-> version, patchId |-> id, sut |-> sut, testClass |-> sut,
   allowedImports |-> imports, requires |-> requires, methods |-> methods]

Others(id) ==
  {Item(id, s, None, None) : s \in {"skipped", "failed", "NEED_MORE_CONTEXT", "else"}}
VariedItems ==
  {NoObject} \cup UNION {Others(id) : id \in {"a", "b", "unknown", Scalar}}
    \cup {Item(id, "generated", m, None) : id \in {"a", "b", "unknown"}, m \in Bodies}
    \cup {Item("a", "generated", None, Patch(7, "x", "x", {"x"}, {9}, <<Good>>))}
FewItems ==
  {NoObject} \cup {Item(id, s, <<Good>>, None) : id \in {"a", "b"}, s \in {"generated", "failed"}}
MCAnswerItems == VariedItems \cup FewItems
MCAnswers == SeqOf(VariedItems, 2) \cup SeqOf(FewItems, 3)

MCRepairItems ==
  {NoObject} \cup UNION {Others(id) : id \in {"a", "b", "unknown"}}
    \cup {Item(id, "repaired", None, Patch(v, p, s, i, r, <<m>>)) :
            id \in {"a", "b"}, v \in {None, 7}, p \in {None, "repair:", "patch:"},
            s \in {None, "a"}, i \in {None, {9}}, r \in {{2}, {9}},
            m \in {Good, Test({"new"}, {"unheard"}, {})}}
    \cup {Item("a", "repaired", None, None)}
MCRepairs == SeqOf(MCRepairItems, 2)

-----------------------------------------------------------------------------
(* Builds: a class S under test, two other classes and one literal.        *)
Visible(types) ==
  [public |-> TRUE, params |-> [i \in DOMAIN types |-> [type |-> types[i], name |-> None]]]
Private == [public |-> FALSE, params |-> <<>>]
Contract(kind, ctors, builders, factories) ==
  [kind |-> kind, test |-> FALSE, constructors |-> ctors, builders |-> builders,
   factories |-> factories]
Plain(ctors) == Contract("class", ctors, <<>>, <<>>)

SutContracts ==
  {Plain(c) : c \in {<<>>, <<Private>>, <<Visible(<<"X", "X", "Y">>), Visible(<<"int", "X">>)>>,
                     <<Visible(<<"X", "int", "X">>)>>, <<Private, Visible(<<"Y">>)>>}}
OtherContracts ==
  {Plain(c) : c \in {<<Private>>, <<Visible(<<>>)>>, <<Visible(<<"X">>), Visible(<<"Y">>)>>,
                     <<Visible(<<"Y", "int">>)>>, <<Visible(<<"S">>)>>}}
    \cup {Contract("class", <<Private>>,
                   <<[valid |-> TRUE, setters |-> <<[type |-> "int", required |-> TRUE]>>]>>, <<>>),
          Contract("class", <<>>, <<[valid |-> FALSE, setters |-> <<>>]>>,
                   <<Visible(<<"int">>).params>>),
          Contract("abstract", <<Visible(<<>>)>>, <<>>, <<>>),
          Contract("interface", <<>>, <<>>, <<>>)}
MCBuilds ==
  [contracts : {[c \in {"S", "X", "Y"} |-> CASE c = "S" -> s [] c = "X" -> x [] OTHER -> y] :
                  s \in SutContracts, x \in OtherContracts, y \in OtherContracts},
   needs : {[c \in {"S", "X", "Y"} |-> IF c = "S" THEN near ELSE further] :
              near \in SUBSET {"X", "Y"}, further \in {{}, {"Y"}, {"S", "X", "Y"}}},
   packed : {{"S"} \cup packed : packed \in SUBSET {"X", "Y"}}, mockito : BOOLEAN]

MCLiterals == {"int"}
MCVariableOf(type) == <<type, 1>>
MCNumbered(name, n) == <<name[1], name[2] * 10 + n>>

-----------------------------------------------------------------------------
(* Reports on classes 1 and 2, of which the second is unknown to the       *)
(* classifier.                                                             *)
Gap(class, method, parent, lines, branches) ==
  [sut |-> class, method |-> method, parent |-> parent, lines |-> lines, branches |-> branches]
Gaps ==
  {Gap(c, "m", None, n, b) : c \in {1, 2}, n \in {0, 2, 9}, b \in {0, 1}} \cup
  {Gap(c, "lambda", parent, 1, 1) : c \in {1, 2}, parent \in {"m", "o"}}
MCReports == SeqOf(Gaps, 2) \cup
  {<<g, Gap(1, "lambda", "m", 1, 1), h>> : g \in Gaps, h \in {Gap(1, "m", None, 2, 0), Gap(1, "n", None, 5, 0)}}
MCModes == {"coverage", "branch-coverage", "mutation-hardening"}

Meta(annotations, kind, named) ==
  [annotations |-> annotations, kind |-> kind, abstract |-> FALSE, named |-> named]
MCContexts ==
  [classes : {Map({1}, m) : m \in {Meta(<<"Test", "Service">>, "class", "controller"),
                                   Meta(<<>>, "class", "controller"),
                                   Meta(<<>>, "interface", "service")}},
   index : {{}, {1}}, allow : {None, {1}}, affected : {{}, {1}, {2}}, affectedOnly : BOOLEAN,
   failures : {<<[sut |-> 1, result |-> "FIXED", attempts |-> 2],
                 [sut |-> 2, result |-> "FAILED", attempts |-> 3]>>}]
Wide == CHOOSE c \in MCContexts : c.allow = None /\ ~c.affectedOnly

-----------------------------------------------------------------------------
(* Context packs.  Imports are numbers in alphabetical order: 1 is the     *)
(* class under test, 2 the wildcard of a namespace, 3 and 4 are the two    *)
(* test frameworks, 5 is the mock framework; 6, 7 and 9 are one package,   *)
(* 8 and 10 another, 11 has none; 0 is in java.lang.  Two rows of failure  *)
(* memory, eight imports.                                                  *)
MCAlphabet == [i \in 1 .. 11 |-> i]
MCPackage(i) ==
  CASE i \in {6, 7, 9} -> 6 [] i \in {8, 10} -> 8 [] i \in {1, 11} -> None [] OTHER -> i
MCSupplied ==
  [s \in {<<"test", "junit4">>, <<"test", "junit5">>, <<"mock", "mockito">>} |->
     CASE s[2] = "junit4" -> {3} [] s[2] = "junit5" -> {4} [] OTHER -> {5}]

Pom(libs, parent, classpath) == [deps |-> libs, parent |-> parent, classpath |-> classpath]
Lib(lib, version) == [lib |-> lib, version |-> version]
MCRoots ==
  [deps : SeqOf({Lib("junit4", 4), Lib("junit5", None), Lib("mockito-inline", 5),
                 Lib("starter-test", None), Lib("hamcrest", None)}, 2),
   parent : {None, 2}, classpath : {Map({}, 0), Map({"junit", "mockito"}, 9)}]
MCModuleLists == SeqOf({Pom(<<Lib("junit4", None)>>, None, Map({}, 0))}, 1)
Profile == CHOOSE profile \in Detect(Pom(<<>>, None, Map({}, 0)), <<>>) : TRUE

Signature(id, types) == [id |-> id, types |-> types]
Method(id, usable) == [id |-> id, name |-> "m", types |-> {0}, usable |-> usable]
Symbols(u) ==
  [constructors |-> <<Signature("new", {10})>>, methods |-> <<Method("m1", TRUE), Method("m2", u)>>,
   builders |-> {"build"}]
ProjectsOf(profiles, contracts, sources, failures, classes) ==
  [profile : profiles, contracts : contracts, sources : sources, failures : failures,
   classes : classes, catalog : {<<[id |-> "f", type |-> 8, strategy |-> "new"]>>},
   graph : {Map({1}, [dependencies |-> {8}, used |-> {6, 0}])}]

Failure(result, code, fix, cycle) ==
  [sut |-> 1, result |-> result, code |-> code, fix |-> fix, cycle |-> cycle, attempts |-> 1]
Failures ==
  {Failure("FAILED", code, fix, n) : code \in {"e", "f"}, fix \in {"x", "y"}, n \in {1, 2}}
    \cup {Failure("FIXED", "e", "x", 3)}

PackingsOf(reports, limits, profiles, sources, failures) ==
  [report : reports, limit : limits, context : {Wide},
   project : ProjectsOf(profiles, {Map({1}, Symbols(TRUE))}, sources, failures, {Map({}, "")})]
MCPackings ==
  PackingsOf(MCReports, 0 .. 2, {Profile}, {{}}, {<<>>})
    \cup PackingsOf({<<>>}, {0}, {Profile}, {{}}, SeqOf(Failures, 4))
    \cup PackingsOf({<<>>}, {0}, Profiles \ {None},
                    SUBSET {6, 7, 9, 8, 10, 11}, {<<>>})

MCProjects ==
  ProjectsOf(Profiles, {Map({1}, Symbols(u)) : u \in BOOLEAN},
             {{}}, {<<>>}, {Map({}, ""), Map({1}, "exception"), Map({1}, "service")})
MCMethodNames == {"m", "<init>", "lambda$", "other"}
MCCompletions ==
  {<<Test(evidence, calls, {})>> : evidence \in SUBSET {"new", "m1", "m2", "inherited", "build"},
                                   calls \in {{}, {"m"}, {"getMessage"}}}
=============================================================================
