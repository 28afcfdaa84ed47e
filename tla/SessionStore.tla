-------------------------- MODULE SessionStore --------------------------
(***************************************************************************)
(* The broker's session file: what each hook of the MQTT library does to   *)
(* the buckets, and the sessions a restart reads back.  Every hook is one  *)
(* transaction, so whatever connections do side by side, and wherever the  *)
(* process dies, the file is what some sequence of hook calls made of it.  *)
(*                                                                         *)
(* A message is [client, pid, created, expiry, body]; expiry 0 is never.   *)
(***************************************************************************)
EXTENDS Integers, Sequences
LOCAL INSTANCE SequencesExt

CONSTANT CreatedWidth \* the library sorts replayed messages by Created modulo this

Empty == [clients |-> {}, subs |-> {}, inflight |-> {}, retained |-> {}, seq |-> 0]

\* put: one record per key.
Put(records, same(_), rec) == {r \in records : ~same(r)} \cup {rec}

SameKey(a, b) == a.client = b.client /\ a.pid = b.pid

OnSessionEstablished(db, client) == [db EXCEPT !.clients = @ \cup {client}]

DropClient(db, client) ==
  [db EXCEPT !.clients = @ \ {client},
             !.subs = {s \in @ : s.client # client},
             !.inflight = {m \in @ : m.client # client}]

\* Sessions that do not expire stay, and so does one a new connection took over.
OnDisconnect(db, client, expire, takenOver) ==
  IF expire /\ ~takenOver THEN DropClient(db, client) ELSE db

OnSubscribed(db, client, filter, granted) ==
  IF granted THEN [db EXCEPT !.subs = @ \cup {[client |-> client, filter |-> filter]}] ELSE db

OnUnsubscribed(db, client, filter) ==
  [db EXCEPT !.subs = @ \ {[client |-> client, filter |-> filter]}]

\* A retained message is [topic, expiry, body]; an empty body clears the topic.
OnRetainMessage(db, m) ==
  [db EXCEPT !.retained =
     LET others == {r \in @ : r.topic # m.topic} IN
     IF m.body = "" THEN others ELSE others \cup {m}]

\* Mutant: a resend is stored as a message just queued.
OnQosPublishAnew(db, m) ==
  [db EXCEPT !.inflight = Put(@, LAMBDA r : SameKey(r, m), m @@ [seq |-> db.seq + 1]),
             !.seq = @ + 1]

\* A resend keeps the number the message got when it was queued.
OnQosPublish(db, m) ==
  LET before == {r \in db.inflight : SameKey(r, m)}
      seq == IF before = {} THEN db.seq + 1 ELSE (CHOOSE r \in before : TRUE).seq
  IN [db EXCEPT !.inflight = Put(@, LAMBDA r : SameKey(r, m), m @@ [seq |-> seq]),
                !.seq = IF before = {} THEN @ + 1 ELSE @]

\* OnQosComplete and OnQosDropped.
OnQosComplete(db, m) == [db EXCEPT !.inflight = {r \in @ : ~SameKey(r, m)}]

Expired(r, now) == r.expiry > 0 /\ r.expiry <= now

\* Messages that expired while the session was offline, before it is inherited;
\* queued says whether the server still has messages queued for the old client.
OnSessionEstablish(db, client, queued, now) ==
  IF queued THEN [db EXCEPT !.inflight = {r \in @ : ~(r.client = client /\ Expired(r, now))}]
  ELSE db

-----------------------------------------------------------------------------
(* After a restart *)

StoredInflightMessages(db, now) == {r \in db.inflight : ~Expired(r, now)}

StoredRetainedMessages(db, now) == {r \in db.retained : ~Expired(r, now)}

BySeq(records) == SetToSortSeq(records, LAMBDA a, b : a.seq < b.seq)

\* normalizeInflightOrder for one client: Created clamped to grow strictly.
NormalizeInflightOrder(records) ==
  FoldLeft(LAMBDA out, r :
             Append(out, [r EXCEPT !.created =
               IF out # <<>> /\ @ <= out[Len(out)].created THEN out[Len(out)].created + 1 ELSE @]),
           <<>>, BySeq(records))

\* The library: the queue of a session, by the low bits of Created.
ReplayOrder(queue) ==
  SetToSortSeq({queue[i] : i \in DOMAIN queue},
               LAMBDA a, b : a.created % CreatedWidth < b.created % CreatedWidth)

Replayed(db, client, now) ==
  ReplayOrder(NormalizeInflightOrder(
    {r \in StoredInflightMessages(db, now) : r.client = client}))

-----------------------------------------------------------------------------
(* Sequences of calls *)

Call(db, call) ==
  CASE call.op = "publish" -> OnQosPublish(db, call.m)
    [] call.op = "complete" -> OnQosComplete(db, call.m)
    [] call.op = "connect" ->
         OnSessionEstablished(OnSessionEstablish(db, call.m.client, call.queued, call.now), call.m.client)
    [] call.op = "disconnect" -> OnDisconnect(db, call.m.client, call.expire, call.takenOver)

After(db, calls) == FoldLeft(Call, db, calls)
=============================================================================
