--------------------------- MODULE Algorithms ---------------------------
(***************************************************************************)
(* The pure algorithms, each checked against a reference definition on     *)
(* every input of a bounded set.  A behaviour starts with an algorithm and *)
(* picks one input for it; the properties are about that input.            *)
(***************************************************************************)
EXTENDS Topics, TriggerMatch, SessionStore, FlowGraph, Payload, Listings, Access, Housekeeping, FlowBlocks
SX == INSTANCE SequencesExt

CONSTANTS
  Endpoints,      \* endpoints of the definitions that are matched
  FewEndpoints,   \* endpoints of the definitions that are upgraded
  Segments        \* segments of concrete paths

VARIABLE input

Mappings(endpoints, types, shared) ==
  [endpoint : endpoints, type : types, shared : shared]

\* Interface documents with 1..n mappings.
Documents(mappings, n, minors, aggregations) ==
  [name : {"i"}, major : {0}, minor : minors, type : {"datastream"},
   ownership : {"device"}, aggregation : aggregations,
   mappings : UNION {[1..m -> mappings] : m \in 1..n}]

ConcretePaths == UNION {[1..n -> Segments] : n \in 1..3}

Init == input \in [kind : {"none"}, for : {"topics", "schemas", "upgrades", "triggers", "sessions",
                                           "flows", "payloads", "listings", "requests", "streams"}]

PickIndividual ==
  \E def \in Documents(Mappings(Endpoints, {"integer"}, {1}), 3, {1}, {"individual"}) :
    input' = [kind |-> "interface", def |-> def]

PickObject ==
  \E def \in Documents(Mappings(Endpoints, {"integer"}, {1, 2}), 2, {1}, {"object"}) :
    input' = [kind |-> "interface", def |-> def]

PickUpgrade ==
  LET versions == Documents(Mappings(FewEndpoints, {"integer", "string"}, {1}), 2, {0, 1, 2}, {"individual"}) IN
  \E old, next \in versions :
    /\ old.minor = 1
    /\ input' = [kind |-> "upgrade", old |-> old, next |-> next]

Conditions ==
  [type : {"data_trigger"}, on : DataOns, device : {None, "d", "e"}, group : {None, "g"},
   iface : {Any, "i"}, major : {-1, 0, 1},
   path : {AnyPath, <<Lit("a")>>, <<Param("x")>>, <<Param("x"), Lit("b")>>},
   op : {Any, "==", "!=", ">"}, known : {Absent, Number(1)}]

Commits ==
  [kind : {"individual", "object", "set", "unset"}, device : {"d"}, iface : {"i"},
   major : {0}, path : {<<"a">>, <<"b">>, <<"a", "b">>},
   prev : {Absent, Number(1), Number(2)}, value : {Absent, Number(1), Number(2)}]

Actions ==
  [post : {None, "http"}, url : {None, "http", "ftp"}, method : {None, "post"},
   headers : {None, "blocked"}, template : {None}, other : {None}]

Definitions(conditions) == [conditions : {<<c>> : c \in conditions}, action : Actions]

PickChange ==
  \E cond \in Conditions, op \in Commits :
    /\ \E def \in Definitions({cond}) : TriggerCompiles(def)
    /\ op.kind = "unset" <=> op.value = Absent
    /\ input' = [kind |-> "change", cond |-> cond, op |-> op]

Entries == [name : {"i", "j"}, major : {0, 1}, minor : {0}]

Introspections == UNION {[1..n -> Entries] : n \in 0..2}

Watchers ==
  [type : {"device_trigger"}, on : IntrospectionOns, device : {None, "e"},
   group : {None}, iface : {None, Any, "i"}, major : {-1, 0, 1}]

\* The row and the shard's copy of it need not be the same.
PickIntrospection ==
  \E cond \in Watchers, new \in Introspections :
  \E row, cached \in {ParseIntrospection(old) : old \in Introspections} :
    /\ \E def \in Definitions({cond}) : TriggerCompiles(def)
    /\ input' = [kind |-> "introspection", cond |-> cond, row |-> row, cached |-> cached,
                 new |-> ParseIntrospection(new)]

Published == {ParseIntrospection(intro) : intro \in {i \in Introspections :
                   \A k \in DOMAIN i : i[k].name = "j" => i[k].major = 0}}

\* What happens to a device's introspection: it publishes one, or disconnects.
Handlings ==
  [outcome : {"done", "again", "refused", "torn", "cut"}, intro : Published]
    \cup {[outcome |-> "evict"]}

PickDeclarations ==
  \E n \in 1..3 : \E handled \in [1..n -> Handlings] :
    input' = [kind |-> "declarations", handled |-> handled]

\* Messages of one session; body n is the n-th that could be queued.
Message(n, pid, created, expiry) ==
  [client |-> "c", pid |-> pid, created |-> created, expiry |-> expiry, body |-> n]

QueueCalls ==
  {[op |-> "publish", m |-> Message(created, pid, created, expiry)] :
     pid \in {1, 2, 3}, created \in {5, 6, 15}, expiry \in {0, 7}}
  \cup {[op |-> "complete", m |-> Message(0, pid, 0, 0)] : pid \in {1, 2}}
  \cup {[op |-> "connect", m |-> Message(0, 0, 0, 0), queued |-> q, now |-> 7] : q \in BOOLEAN}
  \cup {[op |-> "disconnect", m |-> Message(0, 0, 0, 0), expire |-> e, takenOver |-> FALSE] : e \in BOOLEAN}

\* The queue in memory that the file stands for, as the calls changed it.
Enqueue(queue, call) ==
  CASE call.op = "publish" ->
         IF \E i \in DOMAIN queue : SameKey(queue[i], call.m) THEN queue ELSE Append(queue, call.m)
    [] call.op = "complete" -> SelectSeq(queue, LAMBDA m : ~SameKey(m, call.m))
    [] call.op = "connect" -> SelectSeq(queue, LAMBDA m : ~Expired(m, call.now))
    [] call.op = "disconnect" -> IF call.expire THEN <<>> ELSE queue

\* A packet identifier in use is only published again with its message.
Legal(queue, call) ==
  /\ call.op = "publish" =>
       \A i \in DOMAIN queue : SameKey(queue[i], call.m) => queue[i] = call.m
  /\ call.op = "connect" => call.queued = (queue # <<>>)

LegalCalls(calls) ==
  \A n \in DOMAIN calls : Legal(SX!FoldLeft(Enqueue, <<>>, SubSeq(calls, 1, n - 1)), calls[n])

PickCalls ==
  \E n \in 1..4 : \E calls \in [1..n -> QueueCalls] :
    /\ LegalCalls(calls)
    /\ input' = [kind |-> "calls", calls |-> calls]

\* The graphs on the blocks of a given list; chains are the ones with one path.
Graphs(blocks) ==
  LET names == {blocks[i].name : i \in DOMAIN blocks} IN
  [blocks : {blocks}, conns : SUBSET {c \in names \X names : c[1] # c[2]}]

Chain(def) ==
  /\ InnerOk(def)
  /\ LET order == TopoOrder(def)
     IN def.conns = {<<order[i], order[i + 1]>> : i \in 1..Len(order) - 1}

Node(name, type, config) == [name |-> <<name>>, type |-> type, config |-> config]

PickGraph ==
  \E n \in 1..4 : \E def \in Graphs([i \in 1..n |-> Node(i, "t", Unset)]) :
    input' = [kind |-> "graph", def |-> def]

\* One block x, or x and a block y that reads the configuration.
Inner(types, configs, conns) ==
  LET one(t, k) == [blocks |-> <<Node("x", t, k)>>, conns |-> {}]
      two(t, k, c) == [blocks |-> <<Node("x", t, k), Node("y", "s", FromConfig)>>, conns |-> c]
  IN {one(t, k) : t \in types, k \in configs} \cup {two(t, k, c) : t \in types, k \in configs, c \in conns}

Forth == {<<<<"x">>, <<"y">>>>}
Back == {<<<<"y">>, <<"x">>>>}

Composite(source, schema) == [source |-> source, schema |-> schema]

\* Realms with up to three composites that refer to one another.
StoredAfter(u, v, w, again) ==
  LET Configs == {Unset, Null, "s", "u"}
      one == CreateUserBlock([n \in {} |-> {}], "w", Composite(w, Configs))
      two == CreateUserBlock(one, "v", Composite(v, Configs \ {Unset}))
      three == CreateUserBlock(two, "u", Composite(u, Configs))
  IN IF again THEN UpdateUserBlock(three, "w", Composite(u, Configs)) ELSE three

PickFlow ==
  \E u \in Inner({"t", "u", "v", FromConfig}, {"s", FromConfig}, {{}, Forth, Back, Forth \cup Back}),
     v \in Inner({"t", "w"}, {FromConfig}, {Back}),
     w \in Inner({"s", FromConfig}, {FromConfig}, {Forth}), again \in BOOLEAN :
    LET stored == StoredAfter(u, v, w, again) IN
    \E def \in UNION {Graphs(<<Node("a", "u", k), Node("b", t, FromConfig)>>) : k \in {"s", FromConfig}, t \in {"t", "v"}},
       config \in {Unset, "s", "u"}, gone \in {{}, {"u"}, {"v"}, {"w"}, {"u", "v", "w"}} :
      /\ PipelineAccepted(def, stored)
      /\ input' = [kind |-> "flow", def |-> def, config |-> config, checked |-> stored,
                   expanded |-> [n \in DOMAIN stored \ gone |-> stored[n]]]

\* Documents of both formats with one value, one array or one object.
Scalars == {"double", "integer", "longinteger", "boolean", "string", "binaryblob", "datetime"}

AllStrings ==
  {Val("decimal", n) : n \in -MaxInt64 - 2..MaxInt64 + 1} \cup {Val("time", h) : h \in -2 * MaxTime - 1..2 * MaxTime + 1}
  \cup {Val(s, 1) : s \in {"text", "base64", "long", "not UTF-8"}}

JSONTokens ==
  {Digits(n) : n \in -MaxInt64 - 2..MaxInt64 + 1} \cup {Val("fraction", h) : h \in -2 * MaxInt64 - 3..2 * MaxInt64 + 3}
  \cup AllStrings \cup {Val("boolean", 1), Val("null", 0)}

BSONTokens ==
  {Val("int64", n) : n \in -MaxInt64 - 1..MaxInt64} \cup {Val("int32", n) : n \in {-MaxInt32 - 1, MaxInt32}}
  \cup {Val("double", FloatOf(h)) : h \in -2 * MaxInt64..2 * MaxInt64} \cup {Val("not finite", 0)}
  \cup AllStrings \cup {Val("boolean", 1), Val("binary", 1)}
  \cup {Val("datetime", ms) : ms \in -MaxTime - 1..MaxTime + 1}

Tokens(format) == IF format = "json" THEN JSONTokens ELSE BSONTokens

Mapping(type, array, explicit) == [type |-> type, array |-> array, explicit |-> explicit, unset |-> FALSE, required |-> TRUE]

PickPayload ==
  \E format \in {"json", "bson"}, type \in Scalars, explicit \in BOOLEAN :
    \E token \in Tokens(format), t \in {Missing, Val("datetime", 1), Val("time", 3), Digits(MaxTime)} :
      \/ input' = [kind |-> "payload", doc |-> [format |-> format, v |-> token, t |-> t],
                   mapping |-> Mapping(type, FALSE, explicit)]
      \/ /\ t = Missing
         /\ \E n \in 0..MaxArrayLen + 1 :
              input' = [kind |-> "payload", mapping |-> Mapping(type, TRUE, explicit),
                        doc |-> [format |-> format, v |-> Val("array", [i \in 1..n |-> token]), t |-> t]]
      \/ \E keys \in {{"k"}, {"k", "l"}, {"m"}} :
           input' = [kind |-> "object", leaves |-> [k \in {"k", "l"} |-> [Mapping(type, FALSE, explicit) EXCEPT !.required = k = "k"]],
                     doc |-> [format |-> format, v |-> Val("object", [k \in keys |-> token]), t |-> t]]

\* What the pages of one client find: the tables between their queries.
Tables(S) == {<<a, b, c, c, c, c>> : a, b, c \in SUBSET S}

Sample(path, ts) == [path |-> path, ts |-> ts, v |-> ts]

Opts(since, to, limit, descending) ==
  [since |-> since, sinceAfter |-> NoTime, to |-> to, limit |-> limit, points |-> 0, descending |-> descending]

PickListing ==
  \E limit \in 0..2 :
    \/ \E tables \in Tables(1..4) : input' = [kind |-> "devices", tables |-> tables, limit |-> limit]
    \/ \E members \in SUBSET (1..5) : input' = [kind |-> "members", members |-> members, limit |-> limit]
    \/ \E times \in SUBSET (1..4), later \in SUBSET {5, 6}, since \in {NoTime, 2}, to \in {NoTime, 3}, path \in {<<"a">>, <<"b">>} :
         LET old == {Sample(<<"a">>, t) : t \in times}
             new == old \cup {Sample(path, t) : t \in later}
         IN input' = [kind |-> "series", first |-> old, tables |-> <<old, new, new, new, new, new, new>>,
                      opts |-> Opts(since, to, limit, FALSE)]

\* Requests of a route of one realm and of one of the instance, before each of
\* which the clock may advance and the realm may be changed, deleted or made
\* again with other keys.
Bearer(signer, exp, nbf, claim, paths) ==
  [signer |-> signer, exp |-> exp, nbf |-> nbf,
   grants |-> [c \in {claim} |-> <<[parts |-> 2, verb |-> ".*", verbs |-> {"GET"}, paths |-> {<<"x">>, <<"r", "x">>}],
                                [parts |-> 3, verb |-> ".*", verbs |-> {"GET"}, paths |-> paths]>>]]

Bearers ==
  {NoBearer, Bearer("k", 1, 0, "a_rma", {<<"x">>}), Bearer("l", 0, 1, "a_f", {<<"x">>}), Bearer("k", 2, 0, "a_ha", {<<"r", "x">>})}

OneRealm == [n \in {"r"} |-> [keys |-> <<<<"k">>>>, limit |-> <<3>>, retention |-> NoNumber]]

InstanceKeys == <<<<"l">>, <<"k">>>>

Patches ==
  {<<>>, [key |-> <<"l", "k">>], [key |-> BlankKey, limit |-> <<1>>], [key |-> <<"k", "unreadable">>, limit |-> NoNumber],
   [limit |-> <<0>>, retention |-> <<5>>], [retention |-> <<0>>], [key |-> <<"l">>, retention |-> <<-1>>],
   [key |-> <<"l">>, other |-> NoNumber]}

Administrations ==
  {[is |-> "none"]} \cup [is : {"patch"}, body : Patches] \cup [is : {"rotate"}, key : {BlankKey, <<"l">>}]
    \cup [is : {"create"}, key : {<<"l">>}] \cup [is : {"delete"}, disabled : BOOLEAN, connected : BOOLEAN]

Administer(realms, op) ==
  CASE op.is = "none" -> Answer("ok", realms)
    [] op.is = "patch" -> PatchRealm(realms, "r", op.body)
    [] op.is = "rotate" -> SetAuthKey(realms, "r", op.key)
    [] op.is = "create" -> CreateRealm(realms, "r", op.key, NoNumber, NoNumber, <<7>>)
    [] op.is = "delete" -> DeleteRealm(realms, "r", op.disabled, op.connected)

Requests(ops, bearers, waits) == [op : ops, bearer : bearers, wait : waits, static : BOOLEAN]

PickRequests ==
  \E first \in Requests({[is |-> "none"]}, Bearers \ {NoBearer}, {0}),
    second \in Requests(Administrations, Bearers \ {NoBearer}, 0..1), third \in Requests(Administrations, Bearers, 0..1) :
    input' = [kind |-> "requests", calls |-> <<first, second, third>>]

\* Events of two devices, each an object of a number and a text or a whole
\* number, on their way through chains that split them, reshape them, send
\* them to a container and put them in order.
Event(n, ts) ==
  [key |-> <<IF n = 1 THEN "d" ELSE "e", "i">>, ts |-> ts, path |-> "p",
   value |-> <<"map", [f \in {"a", "b"} |->
               IF f = "a" THEN <<"float64", n>> ELSE IF n = 1 THEN <<"whole", MaxInt64>> ELSE <<"string", <<"plain", "x">>>>]>>]

Block(is) == [is |-> is]
Container(refuses) == [is |-> "container", refuses |-> refuses]
Split(order) == [is |-> "split_map", order |-> order]
Reshape == [is |-> "json_path_map", template |-> [f \in {"a", "b"} |-> <<"$MESSAGE", <<f>>>>]]
Label == [is |-> "update_metadata", set |-> [n \in {"q"} |-> "x"], delete |-> {"path"}]
Redirect == [is |-> "map", key |-> <<"e", "i", "{metadata.path}">>, set |-> NoNames, delete |-> {}]
Keep == [is |-> "filter", prefix |-> <<"e">>, type |-> "map", meta |-> [n \in {"path"} |-> "p"]]
Sorter(window, dedup) == [is |-> "sort", window |-> window, dedup |-> dedup]
Sink(refuses) == [is |-> "http_sink", refuses |-> refuses]
Pool(says, refuses) ==
  [is |-> "virtual_device_pool", autoRegister |-> TRUE, refuses |-> refuses,
   says |-> [d \in {"d", "e"} |-> IF d = "d" THEN says ELSE "ok"]]

\* What runs before the sort block, what runs after it, and the sink.
ChainEnds(refuses) ==
  LET to(pre, post, sink) == [pre |-> pre, post |-> Append(post, sink)]
      parts == {<<Split(<<"a", "b">>)>>, <<Container({}), Split(<<"b", "a">>), Container({})>>,
                <<Reshape, Label, Split(<<"a", "b">>)>>}
  IN {to(pre, post, Sink(refuses)) : pre \in parts \cup {<<Redirect, Reshape>>, <<Keep>>}, post \in {<<>>, <<Block("to_json"), Container({})>>}}
     \cup {to(pre, <<>>, Pool(says, refuses)) : pre \in parts, says \in {"ok", "registered", "error"}}

PickStream ==
  \E n \in 1..3 : \E ns \in [1..n -> 1..2], times \in [1..n -> 1..3], window \in 0..2, dedup \in BOOLEAN, refuses \in {{}, {2}} :
    \E ends \in ChainEnds(refuses) :
      input' = [kind |-> "stream", events |-> [i \in 1..n |-> Event(ns[i], times[i])],
                window |-> window, dedup |-> dedup, ends |-> ends]

\* The realm's interfaces: i is device-owned in its first major and
\* server-owned in its second, o is a flat object, one is called control.
Installed ==
  LET def(ownership, aggregation, endpoints) ==
        [ownership |-> ownership, aggregation |-> aggregation,
         mappings |-> [k \in DOMAIN endpoints |-> [endpoint |-> endpoints[k]]]]
  IN [v \in {<<<<"i">>, 0>>, <<<<"i">>, 1>>, <<<<"o">>, 0>>, <<<<"control">>, 0>>} |->
        IF v[1] = <<"o">> THEN def("device", "object", <<<<Lit("a")>>>>)
        ELSE def(IF v[2] = 0 THEN "device" ELSE "server", "individual",
                 <<<<Lit("a")>>, <<Param("x"), Lit("b")>>>>)]

\* i in no, an installed or a missing major; control declared or not.
Declarations ==
  UNION {[{<<"o">>, <<"i">>} \cup names -> {0}] \cup
         {[n \in {<<"o">>, <<"i">>} \cup names |-> IF n = <<"i">> THEN v ELSE 0] : v \in {1, 2}} \cup
         [{<<"o">>} \cup names -> {0}] : names \in SUBSET {<<"control">>}}

TopicsTried ==
  LET roots == {<<"r", "d">>, <<"r", "e">>, <<"q", "d">>}
      first == {"i", "o", "n", "control", "capabilities", "", Unfit}
      second == {"a", "b", "", "emptyCache", "producer", "consumer", Unfit}
      third == {"b", "", "properties"}
      rests == {<<>>} \cup {<<f>> : f \in first} \cup first \X second \cup first \X second \X third
  IN {root \o rest : root \in roots, rest \in rests} \cup {<<"r">>, <<"">>}

\* A publish or a read of device r/d, whose session loaded its introspection
\* as it was before; age is how long ago.
PickTopic ==
  \E topic \in TopicsTried, before, intro \in Declarations, age \in 0..1, write \in BOOLEAN :
    input' = [kind |-> "topic", topic |-> topic, before |-> before, intro |-> intro,
              age |-> age, write |-> write]

Next ==
  /\ input.kind = "none"
  /\ \/ input.for = "topics" /\ PickTopic
     \/ input.for = "schemas" /\ (PickIndividual \/ PickObject)
     \/ input.for = "upgrades" /\ PickUpgrade
     \/ input.for = "triggers" /\ (PickChange \/ PickIntrospection \/ PickDeclarations)
     \/ input.for = "sessions" /\ PickCalls
     \/ input.for = "flows" /\ (PickGraph \/ PickFlow)
     \/ input.for = "payloads" /\ PickPayload
     \/ input.for = "listings" /\ PickListing
     \/ input.for = "requests" /\ PickRequests
     \/ input.for = "streams" /\ PickStream

Spec == Init /\ [][Next]_input

-----------------------------------------------------------------------------
(* Properties *)

Served(def) == Parses(def) /\ Compilable(def)

\* Whatever the order of the mappings, the trie finds for a concrete path the
\* one mapping whose endpoint the path satisfies, and finds nothing for a path
\* that satisfies none (matchNode, with the conflicts checkEndpointUniqueness
\* refuses).  An object interface that parses also compiles, so installing one
\* never leaves the engine without it (checkObjectAggregation, Compile).
MatchFindsTheEndpoint ==
  input.kind = "interface" =>
    LET ms == input.def.mappings IN
    /\ Served(input.def) =>
         \A path \in ConcretePaths :
           /\ Match(ms, path) = {i \in DOMAIN ms : Satisfies(path, Segs(ms[i]))}
           /\ Cardinality(Match(ms, path)) <= 1
    /\ input.def.aggregation = "object" /\ Parses(input.def) => Compilable(input.def)

\* The broker and the engine read a topic alike: a publish the broker lets
\* through is below the device's own root and, while the session's view of the
\* introspection is current, the engine finds the interface the broker looked
\* at, installed and device-owned (an interface called control excepted: its
\* topics go to the control handler).  Conversely, a publish the engine would
\* store is let through once the debounce is over, unless the session holds
\* another ownership under that name, or the object is flat and has no path
\* (checkACL and refreshIfStale against classify, matchInterface, processData).
BrokerAgreesWithEngine ==
  input.kind = "topic" =>
    LET base == <<"r", "d">>
        held == LoadOwnership(input.before, Installed)
        current == LoadOwnership(input.intro, Installed)
        allowed == OnACLCheck([ownership |-> held, age |-> input.age], base, input.topic,
                              input.write, input.intro, Installed)
        did == Dispatch(input.topic, base, input.intro, Installed)
    IN /\ allowed => SX!IsPrefix(base, input.topic)
       /\ allowed /\ input.write /\ input.before = input.intro =>
            \/ did.is = "introspection" /\ input.topic = base
            \/ did.is = "capabilities"
            \/ did.is = "control" /\ did.path \in {<<"emptyCache">>, <<"producer", "properties">>}
            \/ did.is = "control" /\ <<"control">> \in DOMAIN current
            \/ did.is = "unexpected_path"
            \/ did.is = "data" /\ did.name = <<input.topic[3]>>
       /\ did.is = "data" /\ did.path # <<>> /\ input.write =>
            \/ allowed
            \/ did.name \in DOMAIN held /\ held[did.name] # "device"
            \/ did.name \notin DOMAIN held /\ input.age < introspectionReloadDebounce

\* Where a publish arrives: the handler the broker allowed it for, and the one
\* mapping its path satisfies.
PublishesResolve == MatchFindsTheEndpoint /\ BrokerAgreesWithEngine

\* A path a device may publish on under one minor version it may publish on
\* under every minor upgrade of it, and with the same attributes
\* (CheckMinorUpgrade against Match).
UpgradeKeepsPaths ==
  input.kind = "upgrade" /\ Served(input.old) /\ Served(input.next)
    /\ CheckMinorUpgrade(input.old, input.next) =>
    \A path \in ConcretePaths : \A i \in Match(input.old.mappings, path) :
      \E j \in Match(input.next.mappings, path) :
        LET om == input.old.mappings[i]  nm == input.next.mappings[j] IN
        om.type = nm.type /\ om.shared = nm.shared

\* TracksChanges, which decides about the lookup of the previous value before
\* the write, misses no change event MatchesData selects after it.
ChangesAreTracked ==
  input.kind = "change" /\ input.op.kind # "object" =>
    \A on \in Changes(input.op) :
      MatchesData(input.cond, EventOf(on, input.op)) => on \in FireData({input.cond}, input.op)

Pairs(intro) == {<<n, intro[n].major>> : n \in DOMAIN intro}

InterfacesAreMatched ==
  input.kind = "introspection" =>
    LET c == input.cond
        gone == Pairs(input.row) \ Pairs(input.new)
        fresh == Pairs(input.new) \ Pairs(input.cached)
        wanted == {x \in (CASE c.on = "interface_added" -> fresh
                             [] c.on = "interface_removed" -> gone
                             [] OTHER -> {}) :
                     (c.iface \in {None, Any} \/ x[1] = c.iface) /\ (c.iface = Any \/ x[2] = c.major)}
        fired == {ev \in InterfaceEvents("d", input.row, input.cached, input.new) : MatchesDevice(c, ev)}
    IN c.device = None => {<<ev.iface, ev.major>> : ev \in fired} = wanted

Handle(s, h) ==
  IF h.outcome = "evict" THEN EvictDevice(s) ELSE HandleIntrospection(s, "d", h.intro, h.outcome)

Handled(n) == SX!FoldLeft(Handle, Undeclared, SubSeq(input.handled, 1, n))

\* What a subscriber to the interface events takes for declared.
Believe(known, events) ==
  LET of(on) == {<<ev.iface, ev.major>> : ev \in {e \in events : e.on = on}}
  IN (known \ of("interface_removed")) \cup of("interface_added")

Known == SX!FoldLeft(Believe, {}, Handled(Len(input.handled)).events)

\* The handlings that declared pair x or dropped it.
Turns(x) ==
  {n \in DOMAIN input.handled :
     (x \in Pairs(Handled(n).row)) # (x \in Pairs(Handled(n - 1).row))}

\* The shard's copy at handling n is older than the row.
StaleAt(n) ==
  \E m \in 1..(n - 1) :
    /\ input.handled[m].outcome = "torn"
    /\ \A k \in (m + 1)..(n - 1) : input.handled[k].outcome = "refused"

InterfacesAreReported ==
  input.kind = "declarations" =>
    \A x \in UNION {Pairs(intro) : intro \in Published} :
      LET declared == x \in Pairs(Handled(Len(input.handled)).row)
          last == CHOOSE n \in Turns(x) : \A m \in Turns(x) : m <= n
          outcome == input.handled[last].outcome
      IN IF Turns(x) = {} THEN x \notin Known
         ELSE ~StaleAt(last) =>
                /\ outcome = "done" => (x \in Known <=> declared)
                /\ outcome = "again" /\ declared => x \in Known

\* A trigger on a change of value gets every change event it would match had
\* all previous values been looked up (TracksChanges).  A trigger on added or
\* removed interfaces fires once for each pair of name and major version its
\* filter names that the introspection adds to the shard's cached copy or
\* drops from the locked row, and for nothing else (handleIntrospection,
\* UpdateIntrospection, MatchesDevice).  Whoever follows the events knows
\* whether a pair is declared once the handling that declared or dropped it is
\* done.  If that one was committed twice, the addition is still reported and
\* only the removal is lost; if it was committed and then refused, or the
\* process ended first, neither need be, and in the first case the copy is
\* stale for the next handling too.
TriggersFire == ChangesAreTracked /\ InterfacesAreMatched /\ InterfacesAreReported

\* After a restart a device gets the messages that were queued for it and
\* neither completed nor expired, in the order they were queued, whatever the
\* resends, reused packet identifiers and steps of the clock before: the
\* library sorts by the low bits of Created, which normalizeInflightOrder
\* prepares for as long as the queue does not straddle a multiple of their
\* range.
ReplayKeepsOrder ==
  input.kind = "calls" =>
    LET db == After(Empty, input.calls)
        queue == SelectSeq(SX!FoldLeft(Enqueue, <<>>, input.calls), LAMBDA m : ~Expired(m, 7))
        sent == NormalizeInflightOrder(StoredInflightMessages(db, 7))
        replayed == Replayed(db, "c", 7)
    IN (\A i, j \in DOMAIN sent : sent[i].created \div CreatedWidth = sent[j].created \div CreatedWidth) =>
         /\ Len(replayed) = Len(queue)
         /\ \A i \in DOMAIN queue : replayed[i].pid = queue[i].pid /\ replayed[i].body = queue[i].body

\* The blocks of a definition in the order they run in, each composite
\* replaced where it stands by its own, under the configuration of its node.
RECURSIVE Inlined(_, _)
Inlined(stored, def) ==
  LET order == TopoOrder(def)
      node(i) == def.blocks[CHOOSE j \in DOMAIN def.blocks : def.blocks[j].name = order[i]]
      inner(i) == Inlined(stored, SubstituteConfig(stored[node(i).type].source, node(i).config))
  IN SX!FlattenSeq([i \in DOMAIN order |->
       IF node(i).type \in BuiltIn THEN <<node(i)>>
       ELSE [k \in DOMAIN inner(i) |-> [inner(i)[k] EXCEPT !.name = order[i] \o @]]])

AllChains(def, stored) == Chain(def) /\ \A n \in DOMAIN stored : Chain(stored[n].source)

\* A graph that Validate accepts runs every block once and after the blocks
\* it is connected from; a flow of chains runs the blocks of its composites
\* where the composite stands, with the configuration of the node that names
\* it, however deep they are nested (topoOrder, expandComposites).
FlowRunsInOrder ==
  /\ input.kind = "graph" /\ Valid(input.def) =>
       LET order == TopoOrder(input.def) IN
       /\ SX!ToSet(order) = Names(input.def)
       /\ \A i, j \in DOMAIN order : <<order[i], order[j]>> \in input.def.conns => i < j
  /\ input.kind = "flow" /\ AllChains(input.def, input.checked) =>
       LET built == ResolveAndBuild(input.def, input.config, input.checked, input.checked, {}) IN
       built.ok => built.chain = Inlined(input.checked, SubstituteConfig(input.def, input.config))

\* A start that fails leaves no block running, although Instantiate stops
\* nothing when it meets a type it does not know: checkBlockTypes and the
\* expansion keep such types from it even if composites are deleted between
\* the two reads, short of the deletion of the realm's last one.
FailedBuildLeavesNothing ==
  input.kind = "flow" /\ DOMAIN input.expanded # {} =>
    \A failing \in {{}, {"s"}, {"t"}} :
      LET built == ResolveAndBuild(input.def, input.config, input.checked, input.expanded, failing) IN
      built.left = {} /\ (built.ok => \A i \in DOMAIN built.chain : built.chain[i].type \in BuiltIn \ failing)

\* The number a document's token stands for, in halves.
Meant(token) ==
  CASE token.is \in {"digits", "fraction", "double"} -> token.v
    [] token.is \in {"int32", "int64", "decimal"} -> 2 * token.v

\* A whole number a device publishes is the one it wrote, a double the nearest
\* to what it wrote; the value reads the same after any of the ways it travels: encoded for a
\* device in either format, stored as JSON and sent again after an empty
\* cache, or read from the API and published back.  Two stored values compare
\* equal exactly when the values are, although JSON numbers are compared as
\* float64 (Individual, Encode, encodeValueJSON, rehydrateValue, jsonEqual,
\* individualValue).
ValueSurvives ==
  LET same(a, b) == Ok(b) /\ b.v = a IN
  /\ input.kind = "payload" =>
       LET got == Individual(input.doc, input.mapping)
           plain == [input.mapping EXCEPT !.explicit = FALSE]
           other(token) == Individual([input.doc EXCEPT !.v = IF @.is = "array" THEN Val("array", [i \in DOMAIN @.v |-> token]) ELSE token],
                                      input.mapping)
       IN Ok(got) =>
            /\ input.doc.v.is # "array" /\ input.mapping.type \in {"integer", "longinteger"} /\ Meant(input.doc.v) % 2 = 0 =>
                 2 * got.v.v = Meant(input.doc.v)
            /\ input.doc.v.is # "array" /\ input.mapping.type = "double" => got.v.v = FloatOf(Meant(input.doc.v))
            /\ \A f \in {"json", "bson"} :
                 LET again == Individual(Encode(got.v, got.t, f), input.mapping)
                 IN same(got.v, again) /\ again.t = got.t
            /\ same(got.v, RehydrateValue(EncodeValueJSON(got.v), input.mapping))
            /\ same(got.v, Individual([format |-> "json", v |-> IndividualValue(got.v), t |-> Missing], plain))
            /\ \A token \in Tokens(input.doc.format) :
                 LET o == other(token)
                 IN Ok(o) => (JsonEqual(EncodeValueJSON(got.v), EncodeValueJSON(o.v)) <=> got.v = o.v)
  /\ input.kind = "object" =>
       LET got == Object(input.doc, input.leaves) IN
       Ok(got) =>
         /\ \A f \in {"json", "bson"} : same(got.v, Object(Encode(got.v, got.t, f), input.leaves))
         /\ \A k \in DOMAIN got.v.v : got.v.v[k].is = "longinteger" =>
              \A allow, safe \in BOOLEAN :
                DecodeJSONScalar(BigInteger(EncodeValueJSON(got.v).v[k], allow, safe), "longinteger") = got.v.v[k]

\* A page of the series from the one before, as a client asks for it.
SeriesPage(opts, samples, after) ==
  LET o == IF after = NoTime THEN opts ELSE [opts EXCEPT !.since = NoTime, !.sinceAfter = after]
      got == GetData([type |-> "datastream", aggregation |-> "individual"], samples, <<"a">>, o)
  IN [got EXCEPT !.next = IF got.rows = <<>> THEN after ELSE got.rows[Len(got.rows)].ts]

Rising(s) == \A i \in 2..Len(s) : s[i - 1] < s[i]

\* A client that follows the pages to the end sees every device that was
\* there all the time, and none twice, whatever is registered or deleted
\* between two pages; every member of a group that does not change; and every
\* sample its query asked for and found first, when no two have one
\* timestamp, while new samples arrive.  The newest of a path is what the
\* snapshot and the descending series show, and no view answers a request to
\* downsample with all its rows (ListDevices, ListGroupDevices, SeriesQuery,
\* IndividualSnapshot, GetData).
PagesCoverAll ==
  /\ input.kind = "devices" =>
       LET page(devices, after) == ListDevices(devices, after, input.limit)
           w == Walk(page, LAMBDA p : p.next # 0, 0, input.tables)
       IN /\ w.done /\ Rising(w.rows)
          /\ input.tables[1] \cap input.tables[2] \cap input.tables[3] \subseteq SX!ToSet(w.rows)
  /\ input.kind = "members" =>
       LET page(members, token) == ListGroupDevices(members, members, FALSE, token, input.limit)
           w == Walk(page, LAMBDA p : p.next # NoToken, NoToken, [i \in 1..6 |-> input.members])
       IN w.done /\ w.rows = InOrder(input.members)
  /\ input.kind = "series" =>
       LET page(samples, after) == SeriesPage(input.opts, samples, after)
           w == Walk(page, LAMBDA p : input.opts.limit > 0 /\ Len(p.rows) = input.opts.limit, NoTime, input.tables)
           newest(samples) == GetData([type |-> "datastream", aggregation |-> "individual"], samples, <<"a">>, Opts(NoTime, NoTime, 1, TRUE))
       IN /\ w.done /\ Rising([i \in DOMAIN w.rows |-> w.rows[i].ts])
          /\ Selected(input.first, <<"a">>, input.opts) \subseteq SX!ToSet(w.rows)
          /\ SX!ToSet(newest(input.tables[2]).rows) = {s \in IndividualSnapshot(input.tables[2]) : s.path = <<"a">>}
          /\ \A iface \in [type : {"datastream", "properties"}, aggregation : {"individual", "object"}], path \in {Root, <<"a">>} :
               GetData(iface, input.first, path, [input.opts EXCEPT !.points = 3]).rows = <<>>

Respond(cache, realms, call, now) ==
  LET req == [bearer |-> call.bearer, method |-> "GET", segments |-> <<"s", "v1", "r", "x">>]
      keys == [n \in DOMAIN realms |-> realms[n].keys]
  IN IF call.static THEN RequireStatic(cache, req, "a_ha", InstanceKeys, now)
     ELSE RequireRealmAny(cache, keys, req, "r", <<"a_f", "a_rma">>, now)

\* What an administration that is carried out leaves of a realm, field by field.
Carried(before, op, after) ==
  CASE op.is = "patch" ->
         /\ after.keys = (IF "key" \in DOMAIN op.body THEN <<op.body.key>> ELSE before.keys)
         /\ after.limit = (IF "limit" \in DOMAIN op.body THEN op.body.limit ELSE before.limit)
         /\ "retention" \notin DOMAIN op.body => after.retention = before.retention
         /\ "retention" \in DOMAIN op.body => after.retention = SelectSeq(op.body.retention, LAMBDA n : n > 0)
    [] op.is = "rotate" -> after = [before EXCEPT !.keys = <<op.key>>]
    [] OTHER -> after = before

\* Every request gets the answer it would get if its token were verified anew
\* under the keys of that moment: the cache never outlives an expiry, a
\* rotation of the keys or the realm they belonged to, and a token that was
\* refused before it was valid is accepted after (Cache.Verify, cacheKey,
\* tryAuthorize).  An administration that is refused leaves the realm as it
\* was, and one that is carried out changes what it names and nothing else
\* (patchRealm, UpdateRealm, SetAuthKey, DeleteRealm).
CacheIsTransparent ==
  input.kind = "requests" =>
    LET calls == input.calls
        now(i) == IF i = 2 THEN calls[2].wait ELSE calls[2].wait + calls[3].wait
        changed == Administer(OneRealm, calls[2].op)
        again == Administer(changed.realms, calls[3].op)
        first == Respond(<<>>, OneRealm, calls[1], 0)
        second == Respond(first.cache, changed.realms, calls[2], now(2))
        third == Respond(second.cache, again.realms, calls[3], now(3))
        exact(before, op, done) ==
          /\ done.is # "ok" => done.realms = before
          /\ done.is = "ok" =>
               \A n \in DOMAIN before \cap DOMAIN done.realms : Carried(before[n], op, done.realms[n])
    IN /\ second.is = Respond(<<>>, changed.realms, calls[2], now(2)).is
       /\ third.is = Respond(<<>>, again.realms, calls[3], now(3)).is
       /\ exact(OneRealm, calls[2].op, changed) /\ exact(changed.realms, calls[3].op, again)

\* The runs of a stream: the state after each message, and what came out.
Ran(acc, run) == [st |-> run.st, outs |-> Append(acc.outs, run.out), ok |-> acc.ok /\ run.ok]

Runs(graph, events) ==
  SX!FoldLeft(LAMBDA acc, ev : Ran(acc, Run(graph, acc.st, ToFlowMessage(ev))),
              [st |-> [buf |-> <<>>, sent |-> <<>>, devices |-> {"e"}, registered |-> <<>>], outs |-> <<>>, ok |-> TRUE],
              events)

\* The value a payload stands for, whatever its form.
Said(payload) ==
  CASE payload[1] = "json" -> payload[2]
    [] payload[1] = "text" -> <<"string", payload[2]>>
    [] OTHER -> <<"string", <<"base64", payload>>>>

\* The values of an event as a sink should send them.
Meanings(ev, pre) ==
  LET data == ToFlowMessage(ev).data
      split == \E i \in DOMAIN pre : pre[i].is = "split_map"
      order == pre[CHOOSE i \in DOMAIN pre : pre[i].is = "split_map"].order
      one(json) == [ts |-> ev.ts, said |-> json]
  IN IF \E i \in DOMAIN pre : pre[i].is = "filter" /\ ev.key[1] # "e" THEN <<>>
     ELSE IF split THEN [i \in 1..2 |-> one(JsonOf(data[2][order[i]]))]
     ELSE <<one(JsonOf(data))>>

InTime(ts) == \A i, j \in DOMAIN ts : i < j => ts[i] - input.window <= ts[j]

\* By timestamp, those of one instant in the order they came in.
Stable(items) ==
  LET before(j, i) == items[j].ts < items[i].ts \/ (items[j].ts = items[i].ts /\ j <= i)
  IN [k \in DOMAIN items |-> items[CHOOSE i \in DOMAIN items : Cardinality({j \in DOMAIN items : before(j, i)}) = k]]

Times(items, x) == Cardinality({i \in DOMAIN items : items[i] = x})

Item(m, payload) == [ts |-> m.ts, said |-> Said(payload)]

\* Of the messages released in one step, those the sink takes: the ones before
\* the first it refuses, without those of a device it may not publish as.
Taken(sink, batch) ==
  LET pool(m, says) == sink.is = "virtual_device_pool" /\ m.key[1] = "d" /\ sink.says["d"] = says
      refused == {i \in DOMAIN batch : ~pool(batch[i], "registered") /\ (batch[i].ts \in sink.refuses \/ pool(batch[i], "error"))}
  IN SelectSeq(SubSeq(batch, 1, Cardinality({i \in DOMAIN batch : \A j \in refused : i < j})),
               LAMBDA m : ~pool(m, "registered"))

\* What was sent, and what the sort block holds, against what was meant.
EachOnce(sent, held, wanted) ==
  /\ \A x \in SX!ToSet(wanted) :
       LET n == Times(sent \o held, x) IN
       n >= 1 /\ n <= Times(wanted, x) /\ (~input.dedup => n = Times(wanted, x))
  /\ SX!ToSet(sent \o held) \subseteq SX!ToSet(wanted)
  /\ ~input.dedup /\ InTime([i \in DOMAIN input.events |-> input.events[i].ts]) => sent \o held = Stable(wanted)

Kept(sink, all, released, wanted) ==
  LET sent == [i \in DOMAIN all.st.sent |-> Item(all.st.sent[i].m, all.st.sent[i].payload)]
      held == [i \in DOMAIN all.st.buf |-> Item(all.st.buf[i], SinkPayload(all.st.buf[i]))]
      expected == SX!FlattenSeq([k \in DOMAIN released.outs |-> Taken(sink, released.outs[k])])
  IN /\ sent = [i \in DOMAIN expected |-> Item(expected[i], SinkPayload(expected[i]))]
     /\ all.ok /\ sink.is = "http_sink" => EachOnce(sent, held, wanted)
     /\ \A i, j \in DOMAIN all.st.registered : all.st.registered[i] = all.st.registered[j] => i = j

\* A chain sends every value of its events once and unaltered, whichever
\* blocks it passes and however it is encoded on the way; by timestamp, and
\* in the order of arrival within an instant, if none arrives later than the
\* window allows.  Only what the sort block still holds is missing, only
\* repeated values are dropped as duplicates, and a message a sink refuses
\* takes with it no more than what was released behind it in the same step.
\* A pool registers no device twice (BlockGraph.Run, Sort, SplitMap,
\* MarshalJSON, UnmarshalJSON, sinkPayload, resolveDevice).
StreamIsKept ==
  input.kind = "stream" =>
    LET before == input.ends.pre \o <<Sorter(input.window, input.dedup)>> IN
    Kept(input.ends.post[Len(input.ends.post)],
         Runs(before \o input.ends.post, input.events), Runs(before, input.events),
         SX!FlattenSeq([i \in DOMAIN input.events |-> Meanings(input.events[i], input.ends.pre)]))
=============================================================================
