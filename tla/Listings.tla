--------------------------- MODULE Listings ---------------------------
(***************************************************************************)
(* What the API reads in pages: the devices of a realm, the members of a   *)
(* group and the samples of a datastream.  A page is one query; between    *)
(* two pages the tables change.                                            *)
(*                                                                         *)
(* Devices are numbers in the order of their ids, 0 is no cursor.  A       *)
(* sample is [path, ts, v]; a bound of time that is not given is NoTime.   *)
(***************************************************************************)
EXTENDS Integers, Sequences, FiniteSets
LOCAL INSTANCE SequencesExt

CONSTANTS
  DefaultDeviceLimit, \* the page size when the client names none
  TokenRange          \* offsets a group token can hold

NoTime == -1

InOrder(ids) == [i \in 1..Cardinality(ids) |-> CHOOSE d \in ids : Cardinality({e \in ids : e < d}) = i - 1]

Take(s, n) == SubSeq(s, 1, IF n < Len(s) THEN n ELSE Len(s))

Page(rows, next) == [is |-> "page", rows |-> rows, next |-> next]

Rows(view, rows) == [is |-> view, rows |-> rows, next |-> 0]

Refused(why) == Rows(why, <<>>)

-----------------------------------------------------------------------------
(* Devices: the cursor is the last device shown *)

\* The query of store.ListDevices.
DevicesAfter(devices, after, limit) == Take(InOrder({d \in devices : d > after}), limit)

PageSize(limit) == IF limit <= 0 THEN DefaultDeviceLimit ELSE limit

\* Mutant: the cursor is the first device of the next page.
ListDevicesFromNext(devices, after, limit) ==
  LET n == PageSize(limit)
      devs == DevicesAfter(devices, after, n + 1)
  IN Page(Take(devs, n), IF Len(devs) > n THEN devs[n + 1] ELSE 0)

\* One device more than the page is read, to know whether there is a next page.
ListDevices(devices, after, limit) ==
  LET n == PageSize(limit)
      devs == DevicesAfter(devices, after, n + 1)
  IN Page(Take(devs, n), IF Len(devs) > n THEN devs[n] ELSE 0)

-----------------------------------------------------------------------------
(* Groups: the cursor is a number of rows, written as a version 1 UUID *)

NoToken == [low |-> 0, version |-> 0]

GroupTokenFor(offset) == [low |-> offset % TokenRange, version |-> 1]

TokenOk(token) == token = NoToken \/ token.version = 1

\* The query of store.ListGroupDevicesPage.
MembersFrom(members, offset, limit) ==
  LET all == InOrder(members) IN Take(SubSeq(all, offset + 1, Len(all)), limit)

\* With details the members come all at once; each is read by a query of its
\* own, so one that was deleted since makes the listing fail.
ListGroupDevices(members, devices, details, token, limit) ==
  LET n == PageSize(limit)
      rows == MembersFrom(members, token.low, n + 1)
  IN IF ~TokenOk(token) \/ limit < 0 THEN [Refused("refused") EXCEPT !.next = NoToken]
     ELSE IF details /\ ~(members \subseteq devices) THEN [Refused("not found") EXCEPT !.next = NoToken]
     ELSE IF details THEN Page(InOrder(members), NoToken)
     ELSE Page(Take(rows, n), IF Len(rows) > n THEN GroupTokenFor(token.low + n) ELSE NoToken)

-----------------------------------------------------------------------------
(* Datastreams *)

\* Options of a query: [since, sinceAfter, to, limit, points, descending].
OptsOk(o) ==
  /\ o.since = NoTime \/ o.sinceAfter = NoTime
  /\ o.limit >= 0
  /\ o.points = 0 \/ o.points > 2

\* SeriesQuery.where
Selected(samples, path, o) ==
  {s \in samples : /\ s.path = path
                   /\ o.since = NoTime \/ s.ts >= o.since
                   /\ o.sinceAfter = NoTime \/ s.ts > o.sinceAfter
                   /\ o.to = NoTime \/ s.ts <= o.to}

\* SeriesQuery.tail; nothing orders samples of one instant.
Arranged(rows, o) ==
  LET all == SetToSortSeq(rows, LAMBDA a, b : IF o.descending THEN a.ts > b.ts ELSE a.ts < b.ts)
  IN IF o.limit > 0 THEN Take(all, o.limit) ELSE all

Series(samples, path, o) == Arranged(Selected(samples, path, o), o)

\* LatestIndividual, which the triggers on changes compare with.
LatestIndividual(samples, path) ==
  {s \in samples : s.path = path /\ \A t \in samples : t.path = path => t.ts <= s.ts}

\* IndividualSnapshot: a newest sample of every path.
IndividualSnapshot(samples) ==
  {CHOOSE s \in LatestIndividual(samples, p) : TRUE : p \in {s.path : s \in samples}}

Root == <<>>

\* propertiesData: the one value of a path, or all values at the root.
PropertiesData(values, path) ==
  LET at == {v \in values : v.path = path} IN
  IF path = Root THEN Rows("values", SetToSeq(values))
  ELSE IF at = {} THEN Refused("not found")
  ELSE Rows("values", SetToSeq(at))

\* datastreamData.  The root of an interface of single values is a snapshot,
\* every other path a series; only a series of single values is downsampled
\* (to which points is left open).
DatastreamData(iface, samples, path, o) ==
  LET object == iface.aggregation = "object" IN
  IF o.points > 0
  THEN IF object \/ path = Root THEN Refused("refused") ELSE Rows("downsampled", <<>>)
  ELSE IF ~object /\ path = Root THEN Rows("snapshot", SetToSeq(IndividualSnapshot(samples)))
  ELSE IF object /\ path # Root /\ Selected(samples, path, o) = {} THEN Refused("not found")
  ELSE Rows("series", Series(samples, path, o))

GetData(iface, rows, path, o) ==
  IF ~OptsOk(o) \/ (iface.type = "properties" /\ o.points > 0) THEN Refused("refused")
  ELSE IF iface.type = "properties" THEN PropertiesData(rows, path)
  ELSE DatastreamData(iface, rows, path, o)

-----------------------------------------------------------------------------
(* A client that reads page after page; tables[n] is what page n finds. *)

Walk(page(_, _), more(_), start, tables) ==
  FoldLeft(LAMBDA w, table :
             IF w.done THEN w
             ELSE LET p == page(table, w.cursor)
                  IN [rows |-> w.rows \o p.rows, cursor |-> p.next, done |-> ~more(p)],
           [rows |-> <<>>, cursor |-> start, done |-> FALSE], tables)
=============================================================================
