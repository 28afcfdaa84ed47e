-------------------------- MODULE ServerProperties --------------------------
(***************************************************************************)
(* Server-owned properties of one device: the rows the AppEngine calls     *)
(* write, the retained message of each topic, the session queue the broker *)
(* keeps for the device, and the copy the device holds.  Three kinds of    *)
(* job publish on that queue concurrently: the PUT and DELETE handlers,    *)
(* the goroutine started by every connect, and the emptyCache handler on   *)
(* the device's shard.  Each of them reads or writes the rows first and    *)
(* publishes afterwards.                                                   *)
(*                                                                         *)
(* A value on the wire is its row's value; None is the empty payload.  The *)
(* device (external) asks for a resync whenever the broker has no session  *)
(* for it, and re-sends a request that was not acknowledged.               *)
(***************************************************************************)
EXTENDS Integers, Sequences, FiniteSets, Functions

CONSTANTS Paths,      \* paths of the device's server-owned properties
          Values,
          Calls,      \* concurrent PUT and DELETE requests
          MaxCalls,   \* bound on the requests of a behaviour
          MaxFaults   \* bound on failed attempts, crashes and lost sessions

None == 0

ASSUME ValuesAreSet == Values \subseteq Nat \ {None}

ASSUME PathsAreFinite == IsFiniteSet(Paths)

Greeting == "greeting"
Shard == "shard"

ASSUME CallsAreRequests == Greeting \notin Calls /\ Shard \notin Calls

Jobs == Calls \cup {Greeting, Shard}

VARIABLES rows,       \* the properties table
          declared,   \* the stored introspection names the interface
          retained,   \* the broker's retained message of each topic
          session,    \* the broker keeps a session of the device
          online,
          granted,    \* the live session's ownership cache has the interface
          offline,    \* offlineACL's entry: "none", "claimed", "has", "lacks"
          queue,      \* what the session's queued messages do to each path
          uplink,     \* requests of the device that are not acknowledged
          held,       \* the device's copy
          job,        \* what each job has left to do
          calls, faults,
          trust       \* history: "no" once two jobs conflicted, one was cut short or
                      \* given up or a delivery was denied; a resync free of that
                      \* restores it

broker == <<retained, session, online, granted, offline, queue>>
bounds == <<calls, faults>>
vars == <<rows, declared, broker, uplink, held, job, bounds, trust>>

Rest == [pc |-> "idle", op |-> "none", path |-> None, todo |-> <<>>, next |-> "idle",
         cut |-> FALSE]

Idle(j) == job[j].pc = "idle"

SetPaths == {p \in Paths : rows[p] # None}

Value(p, v, retain) == [kind |-> "value", path |-> p, value |-> v, retain |-> retain]

Purge(ps) == [kind |-> "purge", paths |-> ps, retain |-> FALSE]

\* The session delivers in order, so all that is queued amounts to one effect on
\* each path: keep the copy, or replace it by a value or by None.
Keep == -1

Nothing == [p \in Paths |-> Keep]

Queued(m) ==
  [p \in Paths |-> IF m.kind = "purge" THEN (IF p \in m.paths THEN queue[p] ELSE None)
                  ELSE IF p = m.path THEN m.value ELSE queue[p]]

Init ==
  /\ rows = [p \in Paths |-> None] /\ retained = rows /\ held = rows
  /\ declared = FALSE /\ session = FALSE /\ online = FALSE /\ granted = FALSE
  /\ offline = "none"
  /\ queue = Nothing /\ uplink = <<>>
  /\ job = [j \in Jobs |-> Rest]
  /\ calls = 0 /\ faults = 0
  /\ trust = "yes"

Distrust(bad) == trust' = IF bad THEN "no" ELSE trust

IsCall(k) == job[k].op \in {"set", "unset"}

\* What makes the order of two jobs' reads, writes and publishes matter: they
\* write the same row, or one writes a row the other's list may name.
Conflict(op, path, k) ==
  /\ ~Idle(k)
  /\ \/ op \in {"set", "unset"} /\ IsCall(k) /\ (path = job[k].path \/ "unset" \in {op, job[k].op})
     \/ op \in {"set", "unset"} /\ ~IsCall(k)
     \/ op \in {"greet", "resync"} /\ IsCall(k)

Begin(j, op, path, pc, todo, next) ==
  /\ Idle(j)
  /\ job' = [job EXCEPT ![j] = [pc |-> pc, op |-> op, path |-> path, todo |-> todo, next |-> next,
                               cut |-> FALSE]]
  /\ trust' = IF \E k \in Jobs \ {j} : Conflict(op, path, k) THEN "no"
              ELSE IF op = "resync" /\ trust = "no" /\ \A k \in Jobs \ {j} : Idle(k)
              THEN "restoring" ELSE trust

-----------------------------------------------------------------------------
(* The requests. *)

\* Staging a value before the device ever declared the interface is allowed.
PublishServerValue(c, p, v) ==
  /\ calls < MaxCalls /\ calls' = calls + 1
  /\ rows' = [rows EXCEPT ![p] = v]
  /\ Begin(c, "set", p, "publish", <<Value(p, v, TRUE)>>, "idle")
  /\ UNCHANGED <<declared, broker, uplink, held, faults>>

UnsetServerProperty(c, p) ==
  /\ calls < MaxCalls /\ calls' = calls + 1
  /\ rows' = [rows EXCEPT ![p] = None]
  /\ Begin(c, "unset", p, "publish", <<Value(p, None, TRUE)>>, "list")
  /\ UNCHANGED <<declared, broker, uplink, held, faults>>

-----------------------------------------------------------------------------
(* Publishing *)

\* What an offline device's cached entry says; one still being loaded is empty.
OfflineAllows == offline = "has"

MayDeliver(m) ==
  m.kind = "purge" \/ (IF online THEN granted ELSE OfflineAllows)

\* InjectPacket: the retained message of the topic, then the subscriber's queue.
Inject(m, allowed) ==
  /\ retained' = IF m.retain THEN [retained EXCEPT ![m.path] = m.value] ELSE retained
  /\ queue' = IF session /\ allowed THEN Queued(m) ELSE queue

\* The first delivery to an offline device finds no entry and has to load it.
MustLoad(m) == session /\ ~online /\ m.kind = "value" /\ offline = "none"

After(j) ==
  IF job[j].next = "idle" THEN Rest ELSE [job[j] EXCEPT !.pc = job[j].next, !.todo = <<>>]

Advance(j) ==
  LET left == Tail(job[j].todo) IN
  job' = [job EXCEPT ![j] = IF left = <<>> THEN After(j) ELSE [@ EXCEPT !.todo = left, !.pc = "publish"]]

Publish(j) ==
  LET m == Head(job[j].todo) IN
  /\ job[j].pc = "publish"
  /\ ~MustLoad(m)
  /\ Inject(m, MayDeliver(m))
  /\ Advance(j)
  /\ Distrust(session /\ ~MayDeliver(m))
  /\ UNCHANGED <<rows, declared, session, online, granted, offline, uplink, held, bounds>>

\* offlineACL.ownershipOf: the slot is claimed with an empty entry ...
ClaimEntry(j) ==
  /\ job[j].pc = "publish" /\ MustLoad(Head(job[j].todo))
  /\ offline' = "claimed"
  /\ job' = [job EXCEPT ![j].pc = "load"]
  /\ UNCHANGED <<rows, declared, retained, session, online, granted, queue, uplink, held, bounds, trust>>

\* ... and filled once the device row is read; the caller uses what it read.
LoadEntry(j) ==
  LET m == Head(job[j].todo) IN
  /\ job[j].pc = "load"
  /\ offline' = IF offline = "claimed" THEN (IF declared THEN "has" ELSE "lacks") ELSE offline
  /\ Inject(m, declared)
  /\ Advance(j)
  /\ Distrust(session /\ ~declared)
  /\ UNCHANGED <<rows, declared, session, online, granted, uplink, held, bounds>>

\* The entry's ten seconds are over.
EntryExpires ==
  /\ offline \in {"has", "lacks"}
  /\ offline' = "none"
  /\ UNCHANGED <<rows, declared, retained, session, online, granted, queue, uplink, held, job, bounds, trust>>

-----------------------------------------------------------------------------
(* Reading the rows *)

\* sendConsumerProperties: the list is read here and published in a later step.
ConsumerProperties == Purge(SetPaths)

SendConsumerProperties(j) ==
  /\ job[j].pc = "list"
  /\ job' = [job EXCEPT ![j] = [@ EXCEPT !.pc = "publish", !.todo = <<ConsumerProperties>>,
                                         !.next = IF j = Shard THEN "ack" ELSE "idle"]]
  /\ UNCHANGED <<rows, declared, broker, uplink, held, bounds, trust>>

\* Mutant: the values are not sent again, only listed.
ResendNothing == <<>>

\* One message per row, in the order of the paths; none is retained.
Resend ==
  LET messages == {Value(p, rows[p], FALSE) : p \in SetPaths}
  IN CHOOSE s \in Bijection(1..Cardinality(messages), messages) : TRUE

ResendServerProperties ==
  /\ job[Shard].pc = "resend"
  /\ job' = [job EXCEPT ![Shard] = [@ EXCEPT !.pc = IF Resend = <<>> THEN "list" ELSE "publish",
                                         !.todo = Resend, !.next = "list"]]
  /\ UNCHANGED <<rows, declared, broker, uplink, held, bounds, trust>>

\* Mutant: a failed resync is left where it stopped.
RetryParks(j) == IF j = Shard THEN [job[j] EXCEPT !.pc = "parked"] ELSE Rest

\* retryStore runs the whole resync again; the other jobs end with the error.
RetryFrom(j) == IF j = Shard THEN [job[j] EXCEPT !.pc = "resend", !.todo = <<>>] ELSE Rest

\* A read of the rows fails, or a publish.
AttemptFails(j) ==
  /\ faults < MaxFaults /\ faults' = faults + 1
  /\ job[j].pc \in {"list", "resend", "publish"}
  /\ job' = [job EXCEPT ![j] = RetryFrom(j)]
  /\ Distrust(IsCall(j))
  /\ UNCHANGED <<rows, declared, broker, uplink, held, calls>>

-----------------------------------------------------------------------------
(* The device's requests on its shard. *)

\* handleIntrospection: the row, then the live session's ownership cache.
HandleIntrospection ==
  /\ online /\ uplink # <<>> /\ Head(uplink) = "introspection"
  /\ Idle(Shard)
  /\ declared' = TRUE /\ granted' = TRUE
  /\ uplink' = Tail(uplink)
  /\ UNCHANGED <<rows, retained, session, online, offline, queue, held, job, bounds, trust>>

\* retryStore's other exits, the device is unknown or the database refuses for
\* good: the message is consumed as if it had been handled.
RejectIntrospection ==
  /\ faults < MaxFaults /\ faults' = faults + 1
  /\ online /\ uplink # <<>> /\ Head(uplink) = "introspection"
  /\ Idle(Shard)
  /\ uplink' = Tail(uplink)
  /\ UNCHANGED <<rows, declared, broker, held, job, calls, trust>>

HandleEmptyCache ==
  /\ online /\ uplink # <<>> /\ Head(uplink) = "emptyCache"
  /\ Begin(Shard, "resync", None, "resend", <<>>, "list")
  /\ UNCHANGED <<rows, declared, broker, uplink, held, bounds>>

\* The acknowledgement is lost on a connection that ended meanwhile.
Ack ==
  /\ job' = [job EXCEPT ![Shard] = Rest]
  /\ uplink' = IF job[Shard].cut THEN uplink ELSE Tail(uplink)

AckEmptyCache ==
  /\ job[Shard].pc = "ack"
  /\ Ack
  /\ trust' = IF trust = "restoring" THEN "yes" ELSE trust
  /\ UNCHANGED <<rows, declared, broker, held, bounds>>

RejectEmptyCache ==
  /\ faults < MaxFaults /\ faults' = faults + 1
  /\ job[Shard].pc \in {"resend", "list"}
  /\ Ack
  /\ Distrust(TRUE)
  /\ UNCHANGED <<rows, declared, broker, held, calls>>

-----------------------------------------------------------------------------
(* The device and its connection (external), and handleLifecycle. *)

\* What a fresh subscription receives, as far as the ownership loaded with the
\* connection allows it.
Subscribed ==
  [p \in Paths |-> IF declared /\ retained[p] # None THEN retained[p] ELSE Keep]

Connect ==
  /\ ~online /\ Idle(Greeting)
  /\ online' = TRUE /\ session' = TRUE /\ granted' = declared
  /\ queue' = IF session THEN queue ELSE Subscribed
  /\ uplink' = IF session THEN uplink ELSE <<"introspection", "emptyCache">>
  /\ Begin(Greeting, "greet", None, "list", <<>>, "idle")
  /\ UNCHANGED <<rows, declared, retained, offline, held, bounds>>

Disconnect ==
  /\ online
  /\ faults < MaxFaults /\ faults' = faults + 1
  /\ online' = FALSE /\ granted' = FALSE
  /\ job' = [job EXCEPT ![Shard].cut = ~Idle(Shard)]
  /\ UNCHANGED <<rows, declared, retained, session, offline, queue, uplink, held, calls, trust>>

\* The device takes what is queued, in order.
Deliver ==
  /\ online /\ queue # Nothing
  /\ held' = [p \in Paths |-> IF queue[p] = Keep THEN held[p] ELSE queue[p]]
  /\ queue' = Nothing
  /\ UNCHANGED <<rows, declared, retained, session, online, granted, offline, uplink, job, bounds, trust>>

\* The session outlived its expiry interval while the device was away.
SessionExpires ==
  /\ session /\ ~online
  /\ faults < MaxFaults /\ faults' = faults + 1
  /\ session' = FALSE /\ queue' = Nothing
  /\ UNCHANGED <<rows, declared, retained, online, granted, offline, uplink, held, job, calls, trust>>

\* The process stops anywhere and comes back: rows, retained messages and the
\* session are on disk, jobs and caches are gone.
Crash ==
  /\ faults < MaxFaults /\ faults' = faults + 1
  /\ online' = FALSE /\ granted' = FALSE /\ offline' = "none"
  /\ job' = [j \in Jobs |-> Rest]
  /\ Distrust(trust = "restoring" \/ \E j \in Jobs : IsCall(j) /\ ~Idle(j))
  /\ UNCHANGED <<rows, declared, retained, session, queue, uplink, held, calls>>

-----------------------------------------------------------------------------
\* Requests are alike: the next one takes the first free slot.
Request(c) ==
  /\ c = CHOOSE k \in Calls : Idle(k)
  /\ \E p \in Paths : (\E v \in Values : PublishServerValue(c, p, v)) \/ UnsetServerProperty(c, p)

Work(j) ==
  \/ Publish(j) \/ ClaimEntry(j) \/ LoadEntry(j)
  \/ SendConsumerProperties(j)

Serve == HandleIntrospection \/ HandleEmptyCache \/ ResendServerProperties \/ AckEmptyCache

Next ==
  \/ \E c \in {k \in Calls : Idle(k)} : Request(c)
  \/ \E j \in Jobs : Work(j) \/ AttemptFails(j)
  \/ Serve \/ RejectIntrospection \/ RejectEmptyCache
  \/ EntryExpires
  \/ Connect \/ Disconnect \/ Deliver \/ SessionExpires \/ Crash

\* The scheduler runs every goroutine; the device reconnects and reads its queue.
Fairness ==
  /\ \A j \in Jobs : WF_vars(Work(j))
  /\ WF_vars(Serve)
  /\ WF_vars(Connect) /\ WF_vars(Deliver)

Spec == Init /\ [][Next]_vars /\ Fairness

-----------------------------------------------------------------------------
TypeOK ==
  /\ rows \in [Paths -> Values \cup {None}] /\ retained \in [Paths -> Values \cup {None}]
  /\ held \in [Paths -> Values \cup {None}]
  /\ trust \in {"yes", "restoring", "no"}
  /\ offline \in {"none", "claimed", "has", "lacks"}

Quiet == online /\ queue = Nothing /\ uplink = <<>> /\ \A j \in Jobs : Idle(j)

(* With nothing on its way, the device's copy is the table's content, unless *)
(* two jobs conflicted, a call was cut short between its row and its publish,*)
(* a resync was given up or a delivery was denied, and no emptyCache resync  *)
(* has run free of that since: one such resync (values first, then the list  *)
(* of set paths) repairs whatever those left behind.                         *)
QuietDeviceAgrees == Quiet /\ trust = "yes" => held = rows

(* A device's requests do not stay open: each is acknowledged in the end,    *)
(* across failed reads of the table, failed publishes, lost connections and  *)
(* restarts.  The acknowledgement also stands for a resync the database      *)
(* refused for good (retryStore); any other one was carried out.             *)
ResyncIsServed == (uplink # <<>>) ~> (uplink = <<>>)
=============================================================================
