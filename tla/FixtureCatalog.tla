--------------------------- MODULE FixtureCatalog ---------------------------
(***************************************************************************)
(* How the objects of a class may be made in a test, decided in phase 0    *)
(* from its symbol contract (tools/python/fixture_catalog_builder.py).     *)
(*                                                                         *)
(* A contract is a record                                                  *)
(*   kind          "class", "interface", "abstract", "annotation", ...     *)
(*   test          the class is named like a test                          *)
(*   constructors  sequence of [public, params], params a sequence of      *)
(*                 records with a type                                     *)
(*   builders      sequence of [valid, setters]: whether the entry is a    *)
(*                 Type.Builder() and not the generated class itself, and  *)
(*                 for each setter its type and whether it is required     *)
(*   factories     sequence of its static methods that return the class,   *)
(*                 each by its parameters                                  *)
(***************************************************************************)
EXTENDS Lists

CONSTANT Defaults   (* the types _TYPE_DEFAULTS has a value for *)

Uninstantiable == {"interface", "abstract"}

(* The fixture gives a value for each of these types: a default, or the    *)
(* literal null when the table has none.                                   *)
Made(strategy, types) ==
  [strategy |-> strategy, values |-> types # {}, nulls |-> ~(types \subseteq Defaults),
   cycleSafe |-> TRUE]
Degraded == [Made("mock", {}) EXCEPT !.cycleSafe = FALSE]

TypesOf(params) == {params[i].type : i \in DOMAIN params}
Required(builder) == {builder.setters[i].type : i \in
                        {j \in DOMAIN builder.setters : builder.setters[j].required}}

ValidBuilders(contract) == {i \in DOMAIN contract.builders : contract.builders[i].valid}
Public(ctors) == {i \in DOMAIN ctors : ctors[i].public}

(* min by number of parameters: the first of the shortest.                 *)
Smallest(ctors) ==
  ctors[CHOOSE i \in Public(ctors) : \A j \in Public(ctors) :
          \/ Len(ctors[i].params) < Len(ctors[j].params)
          \/ Len(ctors[i].params) = Len(ctors[j].params) /\ i <= j]

(* The first builder, the smallest public constructor, the first factory;  *)
(* what is left is mocked, and the fixture says how far that can be relied *)
(* on.                                                                     *)
Fixture(contract, mockito) ==
  LET builder == contract.builders[Min(ValidBuilders(contract))]
      concrete == contract.kind \notin Uninstantiable
  IN  IF concrete /\ ValidBuilders(contract) # {} THEN Made("builder", Required(builder))
      ELSE IF concrete /\ contract.kind # "annotation" /\ Public(contract.constructors) # {}
      THEN Made("constructor", TypesOf(Smallest(contract.constructors).params))
      ELSE IF concrete /\ contract.factories # <<>>
      THEN Made("factory", TypesOf(contract.factories[1]))
      ELSE IF ~concrete /\ mockito THEN Made("mock", {})
      ELSE Degraded

(* contracts is a function from classes to contracts; one fixture for each *)
(* that is no test.                                                        *)
Catalog(contracts, mockito) ==
  [class \in {c \in DOMAIN contracts : ~contracts[c].test} |-> Fixture(contracts[class], mockito)]
=============================================================================
