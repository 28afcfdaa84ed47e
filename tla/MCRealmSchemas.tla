------------------------- MODULE MCRealmSchemas -------------------------
(* Instances of RealmSchemas for TLC. *)
EXTENDS RealmSchemas

Mapping(endpoint, type) == [endpoint |-> endpoint, type |-> type, shared |-> 1]

Doc(name, major, minor, mappings) ==
  [name |-> name, major |-> major, minor |-> minor, type |-> "datastream",
   ownership |-> "device", aggregation |-> "individual", mappings |-> mappings]

A == Mapping(<<Lit("a")>>, "integer")

\* An interface, two upgrades of it that disagree, and a second interface.
MCDocuments ==
  {Doc("i", 0, 1, <<A>>),
   Doc("i", 0, 2, <<A, Mapping(<<Lit("b")>>, "integer")>>),
   Doc("i", 0, 3, <<A, Mapping(<<Lit("c")>>, "string")>>),
   Doc("j", 1, 0, <<A>>)}

MCInitial == {Doc("i", 0, 1, <<A>>), Doc("j", 1, 0, <<A>>)}

MCTriggers == {[name |-> "t", policy |-> p] : p \in {"p", NoPolicy}}

MCCollide(a, b) == {a, b} = {"i", "j"}
=============================================================================
