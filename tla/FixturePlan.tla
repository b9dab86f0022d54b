---------------------------- MODULE FixturePlan ----------------------------
(***************************************************************************)
(* How the runner tells the model to build the class under test            *)
(* (orchestrator/batch_runner.py:864-1258): which constructor, and for     *)
(* each of its parameters a literal, a mock, or an expression derived from *)
(* the fixture catalog and from the context packs of other classes.        *)
(* What cannot be derived is reported as unresolved, but the null that the *)
(* catalog gives for a type it does not know counts as derived.            *)
(*                                                                         *)
(* packs[c], for a class c, is None or a record                            *)
(*   constructors  sequence of [public, params], params a sequence of      *)
(*                 [type, name], name None when the bytecode has none      *)
(*   fixtures      function from some types to [strategy, values, nulls]   *)
(*   dependencies  function from some types to a strategy                  *)
(* Types are told apart by their simple names, as in the code.             *)
(***************************************************************************)
EXTENDS FixtureCatalog

CONSTANTS
  Literals,       (* primitives, their boxes, String, CharSequence          *)
  VariableOf(_),  (* the conventional variable name of a type               *)
  Numbered(_, _)  (* a name with a number put behind it                     *)

Constructible == {"constructor", "new", "builder", "factory"}

StrategyIn(pack, type) ==
  IF type \in DOMAIN pack.fixtures THEN pack.fixtures[type].strategy
  ELSE IF type \in DOMAIN pack.dependencies THEN pack.dependencies[type] ELSE None

CreationStrategy(type, pack, mockito) ==
  CASE type \in Literals -> "literal"
    [] type \notin Literals /\ StrategyIn(pack, type) \in Constructible -> "new"
    [] type \notin Literals /\ StrategyIn(pack, type) = "mock" /\ mockito -> "mock"
    [] OTHER -> "unresolved"

-----------------------------------------------------------------------------
(* A recipe says how to build a type; its expression, if it has one, is    *)
(* [of |-> the type, nulls |-> whether there is a null in it].             *)

RecipeFromFixture(fixture, type) ==
  IF fixture.strategy \notin {"constructor", "builder", "factory"} THEN None
  ELSE [expression |->
          IF fixture.strategy = "constructor" /\ fixture.values
          THEN [of |-> type, nulls |-> fixture.nulls] ELSE None]

FromCatalog(pack, type) ==
  IF pack # None /\ type \in DOMAIN pack.fixtures
  THEN RecipeFromFixture(pack.fixtures[type], type) ELSE None

FromConstructor_mutant(type, nested) ==  (* a null for what cannot be derived *)
  [expression |-> [of |-> type, nulls |-> TRUE]]

FromConstructor(type, nested) ==
  IF \E i \in DOMAIN nested : nested[i] = None \/ nested[i].expression = None THEN None
  ELSE [expression |->
          [of |-> type,
           nulls |-> \E i \in DOMAIN nested : nested[i].expression.nulls]]

Literal(type) == [expression |-> [of |-> type, nulls |-> FALSE]]

(* The recipe of a type where class ctx is built, seen being the classes   *)
(* whose constructors are being followed: a cycle of them ends in None.    *)
Derivation(packs) ==
  LET derive[asked \in (DOMAIN packs) \X (DOMAIN packs) \X SUBSET (DOMAIN packs)] ==
        LET ctx     == asked[1]
            type    == asked[2]
            seen    == asked[3]
            fixture == FromCatalog(packs[ctx], type)
            params  == Smallest(packs[type].constructors).params
        IN  IF fixture # None THEN fixture
            ELSE IF type \in seen \/ packs[type] = None THEN None
            ELSE IF Public(packs[type].constructors) = {} THEN None
            ELSE FromConstructor(type, [i \in DOMAIN params |->
                   IF params[i].type \in Literals THEN Literal(params[i].type)
                   ELSE derive[<<type, params[i].type, seen \cup {type}>>]])
  IN  derive

-----------------------------------------------------------------------------
(* A parameter keeps its name, or gets that of its type, with a number     *)
(* behind it when an earlier parameter has it.                             *)
NameOf(param) == IF param.name = None THEN VariableOf(param.type) ELSE param.name

NameFor(param, used) ==
  LET name == NameOf(param)
      free == {n \in 2 .. Cardinality(used) + 2 : Numbered(name, n) \notin used}
  IN  IF name \notin used THEN name
      ELSE Numbered(name, CHOOSE n \in free : \A m \in free : n <= m)

NamesOf(params) ==
  LET names[i \in 0 .. Len(params)] ==
        IF i = 0 THEN <<>>
        ELSE Append(names[i - 1],
                    NameFor(params[i], {names[i - 1][j] : j \in 1 .. i - 1}))
  IN  names[Len(params)]

(* What the catalog cannot build may still have a context pack of its own. *)
Collaborator(sut, type, packs, mockito) ==
  LET strategy == CreationStrategy(type, packs[sut], mockito)
      recipe   == IF strategy \in {"new", "unresolved"}
                  THEN Derivation(packs)[<<sut, type, {sut}>>] ELSE None
      rescued  == recipe # None /\ recipe.expression # None
  IN  [strategy |-> IF strategy = "unresolved" /\ rescued THEN "new" ELSE strategy,
       recipe |-> IF strategy = "new" \/ rescued THEN recipe ELSE None]

(* No constructor at all is left to the model: statics, enums, a default   *)
(* constructor.  Constructors none of which is public are a dead end.      *)
Plan(sut, packs, mockito) ==
  LET pack  == packs[sut]
      found == Public(pack.constructors) # {}
      params == IF found THEN Smallest(pack.constructors).params ELSE <<>>
      collaborators ==
        [i \in DOMAIN params |-> Collaborator(sut, params[i].type, packs, mockito)]
  IN  [arguments |-> NamesOf(params), collaborators |-> collaborators,
       complete |-> /\ found \/ pack.constructors = <<>>
                    /\ \A i \in DOMAIN params : collaborators[i].strategy # "unresolved"]
=============================================================================
