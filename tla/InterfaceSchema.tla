------------------------- MODULE InterfaceSchema -------------------------
(***************************************************************************)
(* Interface definitions: which documents parse, which parsed ones compile *)
(* into an endpoint trie, what the trie matches, and which definition may  *)
(* replace another as a minor upgrade.                                     *)
(*                                                                         *)
(* An endpoint is a non-empty sequence of segments.  The attributes of a   *)
(* mapping that object aggregation wants uniform are one value, shared;    *)
(* its type is another.  Descriptions and wire syntax are left out.        *)
(***************************************************************************)
EXTENDS Integers, Sequences

Lit(s) == [literal |-> s, param |-> FALSE]

Param(s) == [literal |-> s, param |-> TRUE]

Indices(ms) == DOMAIN ms

Segs(m) == m.endpoint

-----------------------------------------------------------------------------
(* Parsing *)

\* Two segments some concrete segment satisfies both of.
Meet(a, b) == a.param \/ b.param \/ a.literal = b.literal

\* Two endpoints some concrete path satisfies both of.
Overlap(a, b) == Len(a) = Len(b) /\ \A k \in DOMAIN a : Meet(a[k], b[k])

EndpointsUnique(ms) ==
  \A i, j \in Indices(ms) : i < j => ~Overlap(Segs(ms[i]), Segs(ms[j]))

\* All endpoints of an object differ in their last segment only, a literal.
ObjectAggregated(ms) ==
  LET first == Segs(ms[1]) IN
  \A i \in Indices(ms) : LET segs == Segs(ms[i]) IN
    /\ Len(segs) = Len(first)
    /\ \A k \in 1..Len(segs) - 1 : segs[k] = first[k]
    /\ ~segs[Len(segs)].param
    /\ ms[i].shared = ms[1].shared

\* The documents ParseInterface accepts.
Parses(def) ==
  /\ def.major >= 0 /\ def.minor >= 0
  /\ ~(def.major = 0 /\ def.minor = 0)
  /\ ~(def.type = "properties" /\ def.aggregation = "object")
  /\ def.mappings # <<>>
  /\ EndpointsUnique(def.mappings)
  /\ def.aggregation = "object" => ObjectAggregated(def.mappings)

-----------------------------------------------------------------------------
(* Compiling *)

\* Add refuses two names for one parametric child, and the same endpoint twice.
TrieAccepts(ms) ==
  \A i, j \in Indices(ms) : i < j =>
    LET a == Segs(ms[i])  b == Segs(ms[j]) IN
    /\ a # b
    /\ \A k \in DOMAIN a \cap DOMAIN b :
         (\A l \in 1..k - 1 : a[l] = b[l]) /\ a[k].param /\ b[k].param => a[k] = b[k]

\* Definitions Compile accepts; an object's leaves are its literal last segments.
Compilable(def) ==
  LET ms == def.mappings IN
  /\ TrieAccepts(ms)
  /\ def.aggregation = "object" =>
       \A i, j \in Indices(ms) :
         LET a == Segs(ms[i])  b == Segs(ms[j]) IN
         ~a[Len(a)].param /\ (i # j => a[Len(a)] # b[Len(b)])

\* Values a placeholder does not stand for: too long, or with a wildcard.
Unfit == "#"

\* An empty segment matches nothing.
PlaceholderValueOK(seg) == seg # "" /\ seg # Unfit

\* The nodes of the trie, each named by the segments that lead to it.
Nodes(ms) ==
  UNION {{SubSeq(Segs(ms[i]), 1, k) : k \in 0..Len(Segs(ms[i]))} : i \in Indices(ms)}

ParamChildren(ms, n) ==
  {c \in Nodes(ms) : Len(c) = Len(n) + 1 /\ SubSeq(c, 1, Len(n)) = n /\ c[Len(c)].param}

\* Mutant: a literal child that leads nowhere is not left for the parametric one.
MatchGreedy(ms, path) ==
  LET node[n \in Nodes(ms)] ==
        IF Len(n) = Len(path)
        THEN {i \in Indices(ms) : Segs(ms[i]) = n}
        ELSE LET seg == path[Len(n) + 1] IN
             IF Append(n, Lit(seg)) \in Nodes(ms) THEN node[Append(n, Lit(seg))]
             ELSE UNION {node[c] : c \in ParamChildren(ms, n)}
  IN node[<<>>]

\* The mapping Match finds for a concrete path, as a set of at most one index:
\* the literal child of a node first, the parametric one when that finds nothing.
Match(ms, path) ==
  LET node[n \in Nodes(ms)] ==
        IF Len(n) = Len(path)
        THEN {i \in Indices(ms) : Segs(ms[i]) = n}
        ELSE LET seg == path[Len(n) + 1]
                 exact == IF Append(n, Lit(seg)) \in Nodes(ms)
                          THEN node[Append(n, Lit(seg))] ELSE {}
             IN IF exact # {} \/ ~PlaceholderValueOK(seg) THEN exact
                ELSE UNION {node[c] : c \in ParamChildren(ms, n)}
  IN node[<<>>]

-----------------------------------------------------------------------------
(* Minor upgrades *)

\* Placeholder names are not semantic.
NormalizedKey(m) ==
  [k \in DOMAIN Segs(m) |-> IF Segs(m)[k].param THEN Param("") ELSE Segs(m)[k]]

\* Mutant: the type of a kept mapping may change.
SameSharedAttributes(om, nm) == om.shared = nm.shared

SameMappingAttributes(om, nm) == om.shared = nm.shared /\ om.type = nm.type

CheckMinorUpgrade(old, next) ==
  /\ next.name = old.name /\ next.major = old.major
  /\ next.minor > old.minor
  /\ next.type = old.type /\ next.ownership = old.ownership
  /\ next.aggregation = old.aggregation
  /\ \A i \in Indices(old.mappings) : \E j \in Indices(next.mappings) :
       /\ NormalizedKey(next.mappings[j]) = NormalizedKey(old.mappings[i])
       /\ SameMappingAttributes(old.mappings[i], next.mappings[j])

-----------------------------------------------------------------------------
(* References *)

\* What an endpoint says of a concrete path, whatever else is declared.
Satisfies(path, segs) ==
  /\ Len(path) = Len(segs)
  /\ \A k \in DOMAIN path :
       IF segs[k].param THEN PlaceholderValueOK(path[k]) ELSE segs[k].literal = path[k]
=============================================================================
