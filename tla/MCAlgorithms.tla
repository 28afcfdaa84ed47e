-------------------------- MODULE MCAlgorithms --------------------------
(* The bounded inputs of Algorithms for TLC. *)
EXTENDS Algorithms

SomeSegments == {Lit("a"), Lit("b"), Param("x"), Param("y")}

\* Endpoints of one and two levels over two literals and two placeholders.
MCEndpoints == {<<s>> : s \in SomeSegments} \cup (SomeSegments \X SomeSegments)

MCFewEndpoints ==
  {<<Lit("a")>>, <<Param("x")>>, <<Lit("a"), Lit("b")>>, <<Param("x"), Lit("b")>>,
   <<Param("y"), Lit("b")>>, <<Param("x"), Lit("a")>>}

MCSegments == {"a", "b", "c", "", Unfit}

MCBuiltIn == {"s", "t"}
=============================================================================
