--------------------------- MODULE FlowBlocks ---------------------------
(***************************************************************************)
(* The blocks of a flow: how a device's event becomes a message, what each *)
(* transform does to it, how it crosses to a container and back, and what  *)
(* a sink sends.                                                           *)
(*                                                                         *)
(* A message is [key, meta, type, sub, ts, data, ftypes, fsubs]; a key is  *)
(* the sequence of its segments.  Data is a pair of a Go type and what it  *)
(* holds, JSON a pair of a form and what it holds; a float64 and a JSON    *)
(* number are counted in halves, as in Payload.  Text is a pair of what it *)
(* can be read as and what is then read.  meta, ftypes, fsubs and a map's  *)
(* data are functions on the names that are set.                           *)
(***************************************************************************)
EXTENDS Payload, FiniteSets
LOCAL INSTANCE SequencesExt

NoMessages == [ok |-> TRUE, out |-> <<>>]

Failure == [ok |-> FALSE, out |-> <<>>]

One(m) == [NoMessages EXCEPT !.out = <<m>>]

NoNames == [n \in {} |-> ""]

Lookup(f, n, default) == IF n \in DOMAIN f THEN f[n] ELSE default

\* f with the names of g added and the names of D left out.
Overlaid(f, g, D) ==
  [n \in (DOMAIN f \cup DOMAIN g) \ D |-> IF n \in DOMAIN g THEN g[n] ELSE f[n]]

-----------------------------------------------------------------------------
(* The wire form *)

\* encoding/json, whose bytes and times read as dataWireScalar's do.
RECURSIVE JsonOf(_)
JsonOf(data) ==
  CASE data[1] = "int64" -> <<"number", 2 * data[2]>>
    [] data[1] = "float64" -> <<"number", data[2]>>
    [] data[1] = "bytes" -> <<"string", <<"base64", data[2]>>>>
    [] data[1] = "time" -> <<"string", <<"rfc3339", data[2]>>>>
    [] data[1] = "map" -> <<"object", [n \in DOMAIN data[2] |-> JsonOf(data[2][n])]>>
    [] OTHER -> data

\* JSON decoded into an interface.
AnyOf(json) == IF json[1] = "number" THEN <<"float64", FloatOf(json[2])>> ELSE json

MarshalJSON(m) ==
  [key |-> m.key, meta |-> m.meta, ts |-> m.ts, data |-> JsonOf(m.data),
   type |-> IF m.type = "map" THEN <<"fields", m.ftypes>> ELSE <<"name", m.type>>,
   sub |-> IF m.type = "map" THEN <<"fields", m.fsubs>> ELSE <<"name", m.sub>>]

NoData == <<"error", 0>>

\* The whole part of a float64, towards zero.
Truncated(halves) == IF halves < 0 THEN -(-halves \div 2) ELSE halves \div 2

TextAs(json, enc, go) ==
  IF json[1] = "string" /\ json[2][1] = enc THEN <<go, json[2][2]>> ELSE NoData

SetDataFromWire(type, json) ==
  CASE type = "integer" /\ json[1] = "number" -> <<"int64", Truncated(FloatOf(json[2]))>>
    [] type = "real" /\ json[1] = "number" -> AnyOf(json)
    [] type = "boolean" /\ json[1] = "bool" -> json
    [] type = "datetime" -> TextAs(json, "rfc3339", "time")
    [] type = "binary" -> TextAs(json, "base64", "bytes")
    [] type = "string" /\ json[1] = "string" -> json
    [] OTHER -> NoData

\* Only the fields that are text on the wire are converted.
SetDataFromWireMap(ftypes, json) ==
  LET field(n) ==
        CASE Lookup(ftypes, n, "integer") = "binary" -> TextAs(json[2][n], "base64", "bytes")
          [] Lookup(ftypes, n, "integer") = "datetime" -> TextAs(json[2][n], "rfc3339", "time")
          [] OTHER -> AnyOf(json[2][n])
  IN IF json[1] # "object" \/ \E n \in DOMAIN json[2] : field(n) = NoData THEN NoData
     ELSE <<"map", [n \in DOMAIN json[2] |-> field(n)]>>

UnmarshalJSON(w) ==
  LET fields == w.type[1] = "fields"
      data == IF fields THEN SetDataFromWireMap(w.type[2], w.data) ELSE SetDataFromWire(w.type[2], w.data)
  IN IF data = NoData THEN Failure
     ELSE One([key |-> w.key, meta |-> w.meta, ts |-> w.ts, data |-> data,
               type |-> IF fields THEN "map" ELSE w.type[2], sub |-> IF fields THEN "" ELSE w.sub[2],
               ftypes |-> IF fields THEN w.type[2] ELSE NoNames,
               fsubs |-> IF fields THEN w.sub[2] ELSE NoNames])

\* The answer is a status and the messages in its body; one that cannot be
\* read fails them all.
RoundTrip(answer) ==
  LET read == [i \in DOMAIN answer.body |-> UnmarshalJSON(answer.body[i])] IN
  IF answer.status = 204 THEN NoMessages
  ELSE IF answer.status \notin 200..299 \/ \E i \in DOMAIN read : ~read[i].ok THEN Failure
  ELSE [NoMessages EXCEPT !.out = FlattenSeq([i \in DOMAIN read |-> read[i].out])]

-----------------------------------------------------------------------------
(* From an event to a message *)

\* An event's value is a pair as data is; its whole numbers are int32 or
\* json.Number, which setValue renders as text.
SetValue(v) ==
  CASE v[1] = "nil" -> [type |-> "string", data |-> <<"string", <<"plain", "">>>>, ftypes |-> NoNames]
    [] v[1] = "bool" -> [type |-> "boolean", data |-> v, ftypes |-> NoNames]
    [] v[1] = "float64" -> [type |-> "real", data |-> v, ftypes |-> NoNames]
    [] v[1] = "string" -> [type |-> "string", data |-> v, ftypes |-> NoNames]
    [] v[1] = "map" ->
         [type |-> "map",
          data |-> <<"map", [n \in DOMAIN v[2] |->
                       IF v[2][n][1] = "whole" THEN <<"string", <<"digits", v[2][n][2]>>>> ELSE v[2][n]]>>,
          ftypes |-> [n \in DOMAIN v[2] |->
                        CASE v[2][n][1] = "bool" -> "boolean" [] v[2][n][1] = "float64" -> "real" [] OTHER -> "string"]]
    [] v[1] = "whole" -> [type |-> "string", data |-> <<"string", <<"quoted digits", v[2]>>>>, ftypes |-> NoNames]

ToFlowMessage(ev) ==
  LET value == SetValue(ev.value)
  IN [key |-> ev.key, ts |-> ev.ts, meta |-> [n \in {"path"} |-> ev.path], type |-> value.type,
      sub |-> "", data |-> value.data, ftypes |-> value.ftypes, fsubs |-> NoNames]

-----------------------------------------------------------------------------
(* Transforms *)

FilterMatch(conf, m) ==
  /\ conf.prefix # <<>> => IsPrefix(conf.prefix, m.key)
  /\ conf.type # "" => m.type = conf.type
  /\ \A n \in DOMAIN conf.meta : Lookup(m.meta, n, "") = conf.meta[n]

Filter(conf, m) == IF FilterMatch(conf, m) THEN One(m) ELSE NoMessages

\* Set first, then delete.
UpdateMetadata(conf, m) == One([m EXCEPT !.meta = Overlaid(@, conf.set, conf.delete)])

\* A template is a sequence of segments, {key} and {metadata.x} among them;
\* no value holds a placeholder.
ExpandTemplate(template, m) ==
  FlattenSeq([i \in DOMAIN template |->
    CASE template[i] = "{key}" -> m.key
      [] template[i] = "{metadata.path}" -> <<Lookup(m.meta, "path", "")>>
      [] OTHER -> <<template[i]>>])

Map(conf, m) ==
  One([m EXCEPT !.key = IF conf.key = <<>> THEN @ ELSE ExpandTemplate(conf.key, m),
                !.meta = Overlaid(@, conf.set, conf.delete)])

InferredType(data) ==
  CASE data[1] = "bool" -> "boolean" [] data[1] = "int64" -> "integer"
    [] data[1] = "float64" -> "real" [] OTHER -> "string"

\* The fields come in the order a Go map yields, which is an argument; a
\* field without a type that is neither number nor truth value is text.
SplitMap(order, m) ==
  LET fields == SelectSeq(order, LAMBDA n : n \in DOMAIN m.data[2])
      part(n) == [m EXCEPT !.key = Append(@, n), !.data = m.data[2][n], !.ftypes = NoNames, !.fsubs = NoNames,
                           !.type = Lookup(m.ftypes, n, InferredType(m.data[2][n])), !.sub = Lookup(m.fsubs, n, "")]
  IN IF m.type # "map" \/ m.data[1] # "map" THEN NoMessages
     ELSE [NoMessages EXCEPT !.out = [i \in DOMAIN fields |-> part(fields[i])]]

ToJSON(m) ==
  One([m EXCEPT !.type = "binary", !.sub = "application/json", !.data = <<"bytes", <<"json", JsonOf(m.data)>>>>,
                !.ftypes = NoNames, !.fsubs = NoNames])

\* A template's value is the whole message, a path into it or a name of the
\* metadata.  The paths end at the first level that is no map.
ResolveMessagePath(m, segs) ==
  FoldLeft(LAMBDA cur, seg : IF cur[1] = "map" /\ seg \in DOMAIN cur[2] THEN cur[2][seg] ELSE NoData, m.data, segs)

ExpandJSONTemplate(token, m) ==
  CASE token[1] = "$MESSAGE" ->
         LET found == ResolveMessagePath(m, token[2]) IN IF found = NoData THEN NoData ELSE JsonOf(found)
    [] token[1] = "$METADATA" ->
         IF token[2] \in DOMAIN m.meta THEN <<"string", <<"plain", m.meta[token[2]]>>>> ELSE NoData

\* What is neither number, truth value nor text becomes the text of its JSON.
JSONPathMap(template, m) ==
  LET value == [n \in DOMAIN template |-> ExpandJSONTemplate(template[n], m)]
      data == [n \in DOMAIN template |->
                 IF value[n][1] = "object" THEN <<"string", <<"json", value[n]>>>> ELSE AnyOf(value[n])]
  IN IF \E n \in DOMAIN template : value[n] = NoData THEN Failure
     ELSE One([m EXCEPT !.type = "map", !.sub = "", !.data = <<"map", data>>, !.fsubs = NoNames,
                        !.ftypes = [n \in DOMAIN template |-> InferredType(data[n])]])

-----------------------------------------------------------------------------
(* The sort block; buf holds messages in the order they will leave in *)

\* How many of the first messages are behind the window; one always stays.
Behind(buf, edge) ==
  LET n == Len(buf)
      due == {i \in 0..n - 1 : \A j \in 1..i : buf[j].ts <= edge}
  IN CHOOSE i \in due : \A j \in due : j <= i

\* Mutant: a message goes before the ones of its own instant.
SortBefore(conf, buf, m) ==
  LET at == Cardinality({i \in DOMAIN buf : buf[i].ts < m.ts})
      all == SubSeq(buf, 1, at) \o <<m>> \o SubSeq(buf, at + 1, Len(buf))
      n == Behind(all, all[Len(all)].ts - conf.window)
  IN IF conf.dedup /\ \E i \in DOMAIN buf : MarshalJSON(buf[i]) = MarshalJSON(m)
     THEN [buf |-> buf, out |-> <<>>]
     ELSE [buf |-> SubSeq(all, n + 1, Len(all)), out |-> SubSeq(all, 1, n)]

Sort(conf, buf, m) ==
  LET at == Cardinality({i \in DOMAIN buf : buf[i].ts <= m.ts})
      all == SubSeq(buf, 1, at) \o <<m>> \o SubSeq(buf, at + 1, Len(buf))
      n == Behind(all, all[Len(all)].ts - conf.window)
  IN IF conf.dedup /\ \E i \in DOMAIN buf : MarshalJSON(buf[i]) = MarshalJSON(m)
     THEN [buf |-> buf, out |-> <<>>]
     ELSE [buf |-> SubSeq(all, n + 1, Len(all)), out |-> SubSeq(all, 1, n)]

-----------------------------------------------------------------------------
(* Sinks *)

\* The state of a chain's blocks is [buf, sent, devices, registered].
Stateless(st, result) == [st |-> st, ok |-> result.ok, out |-> result.out]

\* sinkPayload and mqttPayload: the bytes that are sent.
SinkPayload(m) ==
  CASE m.type = "binary" /\ m.data[1] = "bytes" -> m.data[2]
    [] m.type = "string" /\ m.data[1] = "string" -> <<"text", m.data[2]>>
    [] OTHER -> <<"json", JsonOf(m.data)>>

\* The devices a pool may publish as grow by the ones it registers; what the
\* pairing service says to each is in the block.
ResolveDevice(block, st, device) ==
  CASE device \in st.devices -> [go |-> "publish", st |-> st]
    [] device \notin st.devices /\ ~block.autoRegister -> [go |-> "drop", st |-> st]
    [] device \notin st.devices /\ block.autoRegister /\ block.says[device] = "ok" ->
         [go |-> "publish", st |-> [st EXCEPT !.devices = @ \cup {device}, !.registered = Append(@, device)]]
    [] OTHER -> [go |-> IF block.says[device] = "registered" THEN "drop" ELSE "fail", st |-> st]

\* A key is a device, an interface and a path.
Publish(block, st, m) ==
  LET asked == ResolveDevice(block, st, m.key[1])
      sent == [m |-> m, payload |-> <<"json", JsonOf(m.data)>>]
  IN IF Len(m.key) < 3 THEN Stateless(st, NoMessages)
     ELSE IF asked.go = "drop" THEN Stateless(asked.st, NoMessages)
     ELSE IF asked.go = "fail" \/ m.ts \in block.refuses THEN Stateless(asked.st, Failure)
     ELSE Stateless([asked.st EXCEPT !.sent = Append(@, sent)], NoMessages)

-----------------------------------------------------------------------------
(* The chain, with at most one sort block and one sink *)

\* A block's refuses are the instants of the messages its outside refuses.
Process(block, st, m) ==
  CASE block.is = "filter" -> Stateless(st, Filter(block, m))
    [] block.is = "update_metadata" -> Stateless(st, UpdateMetadata(block, m))
    [] block.is = "map" -> Stateless(st, Map(block, m))
    [] block.is = "split_map" -> Stateless(st, SplitMap(block.order, m))
    [] block.is = "to_json" -> Stateless(st, ToJSON(m))
    [] block.is = "json_path_map" -> Stateless(st, JSONPathMap(block.template, m))
    [] block.is = "container" ->
         Stateless(st, RoundTrip([status |-> IF m.ts \in block.refuses THEN 500 ELSE 200, body |-> <<MarshalJSON(m)>>]))
    [] block.is = "sort" ->
         LET done == Sort(block, st.buf, m) IN [st |-> [st EXCEPT !.buf = done.buf], ok |-> TRUE, out |-> done.out]
    [] block.is = "http_sink" ->
         IF m.ts \in block.refuses THEN Stateless(st, Failure)
         ELSE Stateless([st EXCEPT !.sent = Append(@, [m |-> m, payload |-> SinkPayload(m)])], NoMessages)
    [] block.is = "virtual_device_pool" -> Publish(block, st, m)

\* An error ends the stage with what is still to be processed.
Collect(acc, done) ==
  IF ~acc.ok THEN acc ELSE [st |-> done.st, ok |-> done.ok, out |-> acc.out \o done.out]

\* One message's outputs are the next one's inputs.
Stage(run, block) ==
  FoldLeft(LAMBDA acc, m : Collect(acc, Process(block, acc.st, m)), [run EXCEPT !.out = <<>>], run.out)

\* What the blocks did before the error stays done.
Run(graph, st, m) ==
  FoldLeft(LAMBDA run, block : IF run.ok THEN Stage(run, block) ELSE run,
           [st |-> st, ok |-> TRUE, out |-> <<m>>], graph)
=============================================================================
