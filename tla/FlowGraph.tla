--------------------------- MODULE FlowGraph ---------------------------
(***************************************************************************)
(* How a flow is built: a stored pipeline definition gets the flow's       *)
(* configuration, its composite blocks are inlined, and its blocks are     *)
(* constructed in topological order and run as one chain.                  *)
(*                                                                         *)
(* A definition is [blocks, conns]: a sequence of nodes and a set of pairs *)
(* of names (ports are never read).  A node is [name, type, config].  A    *)
(* name is a sequence of the parts between its dots, config the value of   *)
(* the one configuration key.  A realm's composites are a function from    *)
(* names to [source, schema], schema being the configurations it allows.   *)
(***************************************************************************)
EXTENDS Integers, Sequences, FiniteSets
LOCAL INSTANCE SequencesExt

CONSTANTS
  BuiltIn,           \* the registered block types
  MaxCompositeDepth  \* bound of the code on nested composites

Unset == "unset"        \* no value for the key
Null == "null"          \* a value that is no text
FromConfig == "${k}"    \* a text that asks for the key's value

Names(def) == {def.blocks[i].name : i \in DOMAIN def.blocks}

UniqueNames(def) ==
  \A i, j \in DOMAIN def.blocks :
    def.blocks[i].name # <<>> /\ (def.blocks[i].name = def.blocks[j].name => i = j)

EndpointsExist(def) == \A c \in def.conns : c[1] \in Names(def) /\ c[2] \in Names(def)

Before(def, n) == {c[1] : c \in {c \in def.conns : c[2] = n}}

\* blockIndex: the names of a set in the order of their declaration.
Declared(def, ns) ==
  SelectSeq([i \in DOMAIN def.blocks |-> def.blocks[i].name], LAMBDA n : n \in ns)

\* What becomes ready waits behind what was ready before it.
RECURSIVE Kahn(_, _, _)
Kahn(def, queue, order) ==
  IF queue = <<>> THEN order
  ELSE LET done == Append(order, Head(queue))
           ready == {n \in Names(def) : Head(queue) \in Before(def, n) /\ Before(def, n) \subseteq ToSet(done)}
       IN Kahn(def, Tail(queue) \o Declared(def, ready), done)

\* Shorter than the definition if that has a cycle.
TopoOrder(def) ==
  Kahn(def, Declared(def, {n \in Names(def) : Before(def, n) = {}}), <<>>)

Acyclic(def) == Len(TopoOrder(def)) = Len(def.blocks)

\* ParseDefinition with Pipeline.Validate.
Valid(def) ==
  /\ def.blocks # <<>> /\ UniqueNames(def) /\ EndpointsExist(def)
  /\ \A c \in def.conns : c[1] # c[2]
  /\ Acyclic(def)

-----------------------------------------------------------------------------
(* Configuration and composites *)

Substitutes(def, config) ==
  \A i \in DOMAIN def.blocks :
    FromConfig \in {def.blocks[i].type, def.blocks[i].config} => config \notin {Unset, Null, FromConfig}

Replaced(text, config) == IF text = FromConfig THEN config ELSE text

SubstituteConfig(def, config) ==
  [def EXCEPT !.blocks = [i \in DOMAIN @ |->
     [@[i] EXCEPT !.type = Replaced(@, config), !.config = Replaced(@, config)]]]

NoGraph == [ok |-> FALSE, blocks |-> <<>>, conns |-> {}]

Prefixed(prefix, def) ==
  [def EXCEPT !.blocks = [i \in DOMAIN @ |-> [@[i] EXCEPT !.name = prefix \o @]],
              !.conns = {<<prefix \o c[1], prefix \o c[2]>> : c \in @}]

\* Mutant: connections out of a composite leave from its first block.
SpliceAtFirst(out, name, sub) ==
  LET first == Head(TopoOrder(sub))
      moved(n) == IF n = name THEN first ELSE n
  IN [out EXCEPT !.blocks = @ \o sub.blocks,
                 !.conns = {<<moved(c[1]), moved(c[2])>> : c \in @} \cup sub.conns]

\* Connections of a composite's node move to the ends of its blocks.
Splice(out, name, sub) ==
  LET order == TopoOrder(sub)
      moved(n, end) == IF n = name THEN end ELSE n
  IN [out EXCEPT !.blocks = @ \o sub.blocks,
                 !.conns = {<<moved(c[1], order[Len(order)]), moved(c[2], order[1])>> : c \in @} \cup sub.conns]

InnerOk(def) == def.blocks # <<>> /\ UniqueNames(def) /\ EndpointsExist(def) /\ Acyclic(def)

\* expandComposites, with the composites being expanded around it in stack.
RECURSIVE Expand(_, _, _)
Expand(stored, def, stack) ==
  FoldLeft(
    LAMBDA out, node :
      LET inner == SubstituteConfig(stored[node.type].source, node.config)
          sub == Expand(stored, inner, stack \cup {node.type})
      IN IF ~out.ok THEN out
         ELSE IF node.type \in BuiltIn THEN [out EXCEPT !.blocks = Append(@, node)]
         ELSE IF /\ node.type \in DOMAIN stored \ stack
                 /\ Cardinality(stack) < MaxCompositeDepth
                 /\ Substitutes(stored[node.type].source, node.config)
                 /\ InnerOk(inner) /\ sub.ok
              THEN Splice(out, node.name, Prefixed(node.name, sub))
         ELSE NoGraph,
    [ok |-> TRUE, blocks |-> <<>>, conns |-> def.conns], def.blocks)

-----------------------------------------------------------------------------
(* Starting a flow *)

CheckBlockTypes(def, stored) ==
  \A i \in DOMAIN def.blocks : def.blocks[i].type \in BuiltIn \cup DOMAIN stored

\* Only the nodes of the pipeline itself are held against a schema.
ConfigsMatch(def, stored) ==
  \A i \in DOMAIN def.blocks : LET node == def.blocks[i] IN
    node.type \in DOMAIN stored => node.config \in stored[node.type].schema

\* With no composites at all the definition is taken as it is.
ExpandStoredComposites(def, stored) ==
  IF (\A i \in DOMAIN def.blocks : def.blocks[i].type \in BuiltIn) \/ DOMAIN stored = {}
  THEN [ok |-> TRUE, blocks |-> def.blocks, conns |-> def.conns]
  ELSE IF ConfigsMatch(def, stored) THEN Expand(stored, def, {}) ELSE NoGraph

NothingBuilt == [ok |-> FALSE, chain |-> <<>>, left |-> {}]

\* Mutant: a constructor that fails leaves the blocks before it alone.
InstantiateLeaves(def, failing) ==
  LET order == TopoOrder(def)
      node(i) == def.blocks[CHOOSE j \in DOMAIN def.blocks : def.blocks[j].name = order[i]]
      bad == {i \in DOMAIN order : node(i).type \notin BuiltIn \/ node(i).type \in failing}
      first == CHOOSE i \in bad : \A j \in bad : i <= j
  IN IF bad = {} THEN [ok |-> TRUE, chain |-> [i \in DOMAIN order |-> node(i)], left |-> {}]
     ELSE [NothingBuilt EXCEPT !.left = {order[i] : i \in 1..first - 1}]

\* Blocks are constructed up to the first that cannot be; the ones before it
\* are stopped if its constructor failed, left if its type has none.
Instantiate(def, failing) ==
  LET order == TopoOrder(def)
      node(i) == def.blocks[CHOOSE j \in DOMAIN def.blocks : def.blocks[j].name = order[i]]
      bad == {i \in DOMAIN order : node(i).type \notin BuiltIn \/ node(i).type \in failing}
      first == CHOOSE i \in bad : \A j \in bad : i <= j
  IN IF bad = {} THEN [ok |-> TRUE, chain |-> [i \in DOMAIN order |-> node(i)], left |-> {}]
     ELSE [NothingBuilt EXCEPT !.left =
             IF node(first).type \in BuiltIn THEN {} ELSE {order[i] : i \in 1..first - 1}]

\* resolveAndBuild; the composites are read twice, and what other requests do
\* to them in between makes them checked and then expanded.
ResolveAndBuild(def, config, checked, expanded, failing) ==
  LET body == SubstituteConfig(def, config)
      graph == ExpandStoredComposites(body, expanded)
  IN IF /\ Substitutes(def, config) /\ CheckBlockTypes(body, checked)
        /\ graph.ok /\ Valid(graph)
     THEN Instantiate(graph, failing)
     ELSE NothingBuilt

\* resolveAndBuildDryRun: the same without the constructors.
DryRun(def, config, stored) == ResolveAndBuild(def, config, stored, stored, {}).ok

-----------------------------------------------------------------------------
(* The operations on what is stored *)

\* CreatePipeline and UpdatePipeline.
PipelineAccepted(def, stored) == Valid(def) /\ CheckBlockTypes(def, stored)

SourceAccepted(source, stored) == Expand(stored, source, {}).ok

CreateUserBlock(stored, name, block) ==
  IF name \notin BuiltIn \cup DOMAIN stored /\ SourceAccepted(block.source, stored)
  THEN [n \in DOMAIN stored \cup {name} |-> IF n = name THEN block ELSE stored[n]]
  ELSE stored

UpdateUserBlock(stored, name, block) ==
  IF name \in DOMAIN stored /\ SourceAccepted(block.source, stored)
  THEN [stored EXCEPT ![name] = block]
  ELSE stored

DeleteUserBlock(stored, name) == [n \in DOMAIN stored \ {name} |-> stored[n]]
=============================================================================
