-------------------------- MODULE TriggerMatch --------------------------
(***************************************************************************)
(* Trigger conditions: which conditions and actions compile, which events  *)
(* a compiled condition matches, which messages it makes the engine look   *)
(* up the previous value for, and the events of an introspection.          *)
(*                                                                         *)
(* A condition is a record of the fields of simpleTriggerConfig.  An       *)
(* absent text is None, an absent major -1, an absent known value Absent.  *)
(* A match_path is a sequence of endpoint segments, an event's path a      *)
(* sequence of names; numbers are the values float64 holds exactly.        *)
(***************************************************************************)
EXTENDS InterfaceSchema

None == ""

Any == "*"

AnyPath == <<Lit(Any)>>

Absent == [t |-> "absent", v |-> 0]

Number(n) == [t |-> "number", v |-> n]

DataOns ==
  {"incoming_data", "value_change", "value_change_applied", "path_created",
   "path_removed", "value_stored"}

PrevOns == {"value_change", "value_change_applied", "path_created", "path_removed"}

DeviceOns ==
  {"device_registered", "device_connected", "device_disconnected",
   "device_deletion_started", "device_deletion_finished",
   "device_empty_cache_received", "device_error", "incoming_introspection",
   "interface_added", "interface_removed", "interface_minor_updated"}

NotEvaluated == {"device_empty_cache_received", "interface_minor_updated"}

IntrospectionOns == {"interface_added", "interface_removed", "interface_minor_updated"}

ValueOperators == {Any, "==", "!=", ">", ">=", "<", "<=", "contains", "not_contains"}

\* A text the regular expression for its field refuses.
Malformed == "?"

-----------------------------------------------------------------------------
(* Compiling *)

DeviceFilterOk(c) ==
  /\ c.device = None \/ c.group = None
  /\ c.device # Malformed

\* The conditions compileData has no complaint about.
DataOk(c) ==
  /\ c.on \in DataOns
  /\ c.iface # None /\ c.path # <<>> /\ c.op \in ValueOperators
  /\ IF c.iface = Any
     THEN c.on = "incoming_data" /\ c.path = AnyPath
     ELSE c.iface # Malformed /\ c.major # -1
  /\ DeviceFilterOk(c)
  /\ IF c.path = AnyPath
     THEN c.op = Any
     ELSE \A k \in DOMAIN c.path : c.path[k].literal # Malformed
  /\ c.op # Any => c.known # Absent

\* The conditions compileDevice has no complaint about.
DeviceOk(c) ==
  /\ c.on \in DeviceOns
  /\ DeviceFilterOk(c)
  /\ c.on \notin IntrospectionOns => c.iface = None
  /\ c.on \in IntrospectionOns =>
       /\ c.iface # Malformed
       /\ c.iface # Any => c.major # -1
       /\ c.on = "interface_minor_updated" => c.iface \notin {None, Any}

\* An action is [post, url, method, headers, template, other]: the two kinds
\* of URL, what the other fields hold, and what is there in place of a URL.
HeadersOk(h) == h \notin {"blocked", "oversized"}

UrlOk(u) == u = "http"

\* Actions parseAction accepts: the legacy field first, then the modern one.
ActionOk(a) ==
  IF a.post # None
  THEN /\ a.url = None /\ a.method = None /\ a.headers = None
       /\ UrlOk(a.post) /\ a.template # "oversized"
  ELSE IF a.url # None
  THEN /\ a.method \in {"delete", "get", "head", "options", "patch", "post", "put"}
       /\ UrlOk(a.url) /\ HeadersOk(a.headers) /\ a.template # "oversized"
  ELSE a.other = "custom"

\* Definitions Compile accepts: every condition of it has to.
TriggerCompiles(def) ==
  /\ def.conditions # <<>>
  /\ ActionOk(def.action)
  /\ \A i \in DOMAIN def.conditions : LET c == def.conditions[i] IN
       \/ c.type = "data_trigger" /\ DataOk(c)
       \/ c.type = "device_trigger" /\ DeviceOk(c)

\* A compiled condition reacts to events, or was accepted for its form only.
Evaluated(c) == c.on \notin NotEvaluated /\ c.group = None

-----------------------------------------------------------------------------
(* Matching *)

DeviceIdMatches(filter, d) == filter \in {None, Any, d}

\* A placeholder stands for any one segment, an empty one excepted.
PathMatches(segs, path) ==
  /\ Len(segs) = Len(path)
  /\ \A k \in DOMAIN segs :
       IF segs[k].param THEN path[k] # "" ELSE path[k] = segs[k].literal

Numeric(v) == v.t = "number"

\* Comparable values of scalar type.
ValueEquals(v, known) == v.t = known.t /\ v.v = known.v

Comparable(v, known) == v.t = known.t /\ v.t \in {"number", "string", "bool"}

\* Text is a sequence of characters, an array a sequence of scalars.
Containable(v) == v.t \in {"string", "array"}

Contains(v, known) ==
  IF v.t = "string"
  THEN /\ known.t = "string"
       /\ \E i \in 0..Len(v.v) - Len(known.v) : SubSeq(v.v, i + 1, i + Len(known.v)) = known.v
  ELSE \E i \in DOMAIN v.v : Comparable(v.v[i], known) /\ ValueEquals(v.v[i], known)

\* A value outside an operator's domain does not match, an unset only "*".
ValueMatches(op, v, known) ==
  \/ op = Any
  \/ op = "==" /\ Comparable(v, known) /\ ValueEquals(v, known)
  \/ op = "!=" /\ Comparable(v, known) /\ ~ValueEquals(v, known)
  \/ /\ Numeric(v) /\ Numeric(known)
     /\ \/ op = ">" /\ v.v > known.v
        \/ op = ">=" /\ v.v >= known.v
        \/ op = "<" /\ v.v < known.v
        \/ op = "<=" /\ v.v <= known.v
  \/ op = "contains" /\ Containable(v) /\ Contains(v, known)
  \/ op = "not_contains" /\ Containable(v) /\ ~Contains(v, known)

\* One data condition against an event [on, device, iface, major, path, value].
MatchesData(c, ev) ==
  /\ Evaluated(c) /\ c.on = ev.on
  /\ DeviceIdMatches(c.device, ev.device)
  /\ c.iface = Any \/ (c.iface = ev.iface /\ c.major = ev.major)
  /\ c.path = AnyPath \/ PathMatches(c.path, ev.path)
  /\ ev.on = "path_removed" \/ ValueMatches(c.op, ev.value, c.known)

\* The gate of trackPrevious: messages nobody watches are spared the lookup.
TracksChanges(c, ev) ==
  /\ Evaluated(c) /\ c.on \in PrevOns
  /\ DeviceIdMatches(c.device, ev.device)
  /\ c.iface = Any \/ (c.iface = ev.iface /\ c.major = ev.major)
  /\ c.path = AnyPath \/ PathMatches(c.path, ev.path)

\* The change events a committed op [kind, prev, value, ...] amounts to.
Changes(op) ==
  (IF op.prev = Absent \/ op.prev # op.value THEN {"value_change", "value_change_applied"} ELSE {})
  \cup (IF op.prev = Absent /\ op.value # Absent THEN {"path_created"} ELSE {})
  \cup (IF op.prev # Absent /\ op.value = Absent THEN {"path_removed"} ELSE {})

EventOf(on, op) ==
  [on |-> on, device |-> op.device, iface |-> op.iface, major |-> op.major,
   path |-> op.path, value |-> op.value]

\* The events of a committed op that are delivered to a trigger with the
\* conditions cs, the only one of the realm: changes if the op was tracked.
FireData(cs, op) ==
  LET tracked == op.kind # "object" /\ \E c \in cs : TracksChanges(c, EventOf(None, op))
      fired == {"incoming_data"}
               \cup (IF op.kind = "individual" THEN {"value_stored"} ELSE {})
               \cup (IF tracked THEN Changes(op) ELSE {})
  IN {on \in fired : \E c \in cs : MatchesData(c, EventOf(on, op))}

\* "*" and no name stand for every interface; only "*" drops the major.
MatchesDevice(c, ev) ==
  /\ Evaluated(c)
  /\ c.on = ev.on
  /\ DeviceIdMatches(c.device, ev.device)
  /\ c.on \in IntrospectionOns =>
       /\ c.iface \in {None, Any, ev.iface}
       /\ c.iface = Any \/ c.major = ev.major

-----------------------------------------------------------------------------
(* Introspections *)

\* A published introspection is a sequence of entries [name, major, minor];
\* the entry of a name that comes last counts.
ParseIntrospection(entries) ==
  [n \in {entries[i].name : i \in DOMAIN entries} |->
     LET i == CHOOSE i \in DOMAIN entries :
                /\ entries[i].name = n
                /\ \A j \in DOMAIN entries : entries[j].name = n => j <= i
     IN [major |-> entries[i].major, minor |-> entries[i].minor]]

\* UpdateIntrospection: declarations of the row that the new one drops.
Removed(row, intro) ==
  {n \in DOMAIN row : n \notin DOMAIN intro \/ intro[n].major # row[n].major}

\* What is new against the declarations the shard has cached.
Added(prev, intro) ==
  {n \in DOMAIN intro : n \notin DOMAIN prev \/ prev[n].major # intro[n].major}

\* The interface events of one introspection, for a row and a cached copy.
InterfaceEvents(d, row, prev, intro) ==
  {[on |-> "interface_added", device |-> d, iface |-> n, major |-> intro[n].major] :
     n \in Added(prev, intro)}
  \cup
  {[on |-> "interface_removed", device |-> d, iface |-> n, major |-> row[n].major] :
     n \in Removed(row, intro)}

\* A device's row, the shard's copy of it (none, or one) and the events so far.
Undeclared == [row |-> <<>>, cached |-> {}, events |-> <<>>]

\* deviceCache.get
CachedIntrospection(s) == IF s.cached = {} THEN s.row ELSE CHOOSE copy \in s.cached : TRUE

\* Mutant: additions too are found against the locked row.
HandleIntrospectionByRow(s, d, intro, outcome) ==
  LET prev == CachedIntrospection(s)
      locked == IF outcome = "again" THEN intro ELSE s.row
  IN CASE outcome \in {"done", "again"} ->
            [row |-> intro, cached |-> {intro},
             events |-> Append(s.events, InterfaceEvents(d, locked, locked, intro))]
       [] outcome = "refused" -> [s EXCEPT !.cached = {prev}]
       [] outcome = "torn" -> [s EXCEPT !.row = intro, !.cached = {prev}]
       [] outcome = "cut" -> [s EXCEPT !.row = intro, !.cached = {}]

\* handleIntrospection.  retryStore runs UpdateIntrospection until it is "done";
\* "again": a first attempt was committed, although it reported an error;
\* "refused": the database refuses it for good; "torn": after such a commit;
\* "cut": the process ends between the commit and the events.
HandleIntrospection(s, d, intro, outcome) ==
  LET prev == CachedIntrospection(s)
      locked == IF outcome = "again" THEN intro ELSE s.row
  IN CASE outcome \in {"done", "again"} ->
            [row |-> intro, cached |-> {intro},
             events |-> Append(s.events, InterfaceEvents(d, locked, prev, intro))]
       [] outcome = "refused" -> [s EXCEPT !.cached = {prev}]
       [] outcome = "torn" -> [s EXCEPT !.row = intro, !.cached = {prev}]
       [] outcome = "cut" -> [s EXCEPT !.row = intro, !.cached = {}]

\* The device disconnects: deviceCache.evict.
EvictDevice(s) == [s EXCEPT !.cached = {}]
=============================================================================
