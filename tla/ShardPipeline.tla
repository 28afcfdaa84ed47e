------------------------- MODULE ShardPipeline -------------------------
(***************************************************************************)
(* The ingest path: a device's MQTT publish is handed by the broker's      *)
(* intake hook to the engine, queued on the shard of the device, turned    *)
(* into a batch of persistence ops, committed, and only then acknowledged. *)
(* The shutdown sequence of the process is part of the model, because it   *)
(* is what closes the queues the publishers are blocked on.                *)
(*                                                                         *)
(* The goroutines are: one per device connection (inside OnPublish), one   *)
(* per shard (runShard), and main's shutdown.  A device has a new          *)
(* connection, numbered by gen, each time it reconnects; the goroutine of  *)
(* the connection it left may still be blocked inside OnPublish.           *)
(***************************************************************************)
EXTENDS Integers, Sequences, FiniteSets

CONSTANTS
  Devices,        \* the devices that publish
  Shards,         \* the engine's shards
  ShardOf,        \* shardOf: the shard of a device
  Profiles,       \* the kinds of publish devices make: [qos, kind]
  MaxSeq,         \* bound: messages a device publishes
  MaxGen,         \* bound: connections a device opens in one process life
  ShardQueue,     \* Config.ShardQueue
  BatchMaxRows,   \* Config.BatchMaxRows
  FaultKinds,     \* the faults that happen in this instance
  MaxFaults,      \* bound: how many of them
  StopCauses,     \* what makes main shut down: "signal", "serveErr"
  Stragglers      \* connections <<d, g>> accepted too late for Broker.Close to wait for

Kinds == {"prop", "stream", "control"}

ASSUME PipelineAssumption ==
  /\ ShardOf \in [Devices -> Shards]
  /\ Profiles \subseteq [qos : {0, 1}, kind : Kinds]
  /\ MaxSeq \in Nat /\ MaxGen \in Nat \ {0} /\ MaxFaults \in Nat
  /\ ShardQueue \in Nat \ {0} /\ BatchMaxRows \in Nat \ {0}
  /\ Stragglers \subseteq Devices \X (1..MaxGen)

\* seq numbers a device's messages in the order it publishes them; a
\* re-delivery has the seq of the original and the gen of the new connection.
\* broken is PersistOp.broken.
Msgs == [dev : Devices, gen : 1..MaxGen, seq : 1..MaxSeq,
         qos : {0, 1}, kind : Kinds, broken : BOOLEAN]

Ids == [dev : Devices, seq : 1..MaxSeq, kind : Kinds]

Id(m) == [dev |-> m.dev, seq |-> m.seq, kind |-> m.kind]

Key(m) == [dev |-> m.dev, seq |-> m.seq]

VARIABLES
  next,      \* device: seq of its last new message
  unacked,   \* device: the QoS >= 1 message it holds until the PUBACK
  gen,       \* device: its current connection
  cl,        \* connection goroutines: OnPublish's position, its message, its acked channel
  queue,     \* shard channel buffer
  senders,   \* messages of the goroutines blocked sending on the full channel
  spc,       \* shard goroutine's position
  cur,       \* the message the shard is handling ({} or one)
  batch,     \* batcher.ops
  after,     \* where the shard goes when the running flush returns
  slice,     \* flushOps' slice: 0 the whole batch, i its i-th op alone
  armed,     \* shard.armed
  stop,      \* main's shutdown sequence
  ctxDone,   \* the context main passed to Engine.Start is cancelled
  faults,    \* faults so far
  stored,    \* database: the messages whose rows or values were written
  value,     \* database: seq of the value of the device's property, 0 for none
  handled,   \* control messages that took effect
  consumed,  \* messages rejected or refused: acknowledged, without effect
  acked      \* messages whose PUBACK was sent

deviceVars == <<next, unacked, gen, cl>>
laneVars   == <<queue, senders>>
flushVars  == <<batch, after, slice>>
dbVars     == <<stored, value>>
endVars    == <<handled, consumed, acked>>
vars == <<deviceVars, laneVars, spc, cur, flushVars, armed, stop, ctxDone,
          faults, dbVars, endVars>>

Idle == [pc |-> "idle", seq |-> 0, acked |-> FALSE]

Init ==
  /\ next = [d \in Devices |-> 0]
  /\ unacked = [d \in Devices |-> {}]
  /\ gen = [d \in Devices |-> 1]
  /\ cl = [d \in Devices |-> [g \in 1..MaxGen |-> Idle]]
  /\ queue = [s \in Shards |-> <<>>]
  /\ senders = [s \in Shards |-> <<>>]
  /\ spc = [s \in Shards |-> "select"]
  /\ cur = [s \in Shards |-> {}]
  /\ batch = [s \in Shards |-> <<>>]
  /\ after = [s \in Shards |-> "select"]
  /\ slice = [s \in Shards |-> 0]
  /\ armed = [s \in Shards |-> FALSE]
  /\ stop = "up"
  /\ ctxDone = FALSE
  /\ faults = 0
  /\ stored = {}
  /\ value = [d \in Devices |-> 0]
  /\ handled = {}
  /\ consumed = {}
  /\ acked = {}

Fault(kind) ==
  /\ kind \in FaultKinds
  /\ faults < MaxFaults
  /\ faults' = faults + 1

Closing == stop \in {"closing", "quit", "closed"}

\* e.quit or the shard's context is done: a parked loop may give up
GiveUp == stop \in {"quit", "closed"} \/ ctxDone

-----------------------------------------------------------------------------
(* Connections: intakeHook.OnPublish and Engine.Submit *)

Outgoing(d) ==
  IF unacked[d] = {}
  THEN {[dev |-> d, gen |-> gen[d], seq |-> next[d] + 1, qos |-> p.qos,
         kind |-> p.kind, broken |-> FALSE] :
           p \in {q \in Profiles : next[d] < MaxSeq}}
  ELSE {[m EXCEPT !.gen = gen[d]] : m \in unacked[d]}

Waiting(m) == [pc |-> "wait", seq |-> m.seq, acked |-> FALSE]

SetClient(m, state) == cl' = [cl EXCEPT ![m.dev][m.gen] = state]

\* Submit: refused when closed; QoS 0 dropped and QoS >= 1 blocked, holding
\* the read lock, when the lane is full.
Submit(m) ==
  LET s == ShardOf[m.dev]
      onward == IF m.qos = 0 THEN Idle ELSE Waiting(m)
  IN \/ /\ stop = "closed"
        /\ SetClient(m, onward)
        /\ UNCHANGED laneVars
     \/ /\ stop # "closed"
        /\ Len(queue[s]) < ShardQueue
        /\ queue' = [queue EXCEPT ![s] = Append(@, m)]
        /\ SetClient(m, onward)
        /\ UNCHANGED senders
     \/ /\ stop # "closed"
        /\ Len(queue[s]) >= ShardQueue
        /\ m.qos = 0
        /\ UNCHANGED <<cl, laneVars>>
     \/ /\ stop # "closed"
        /\ Len(queue[s]) >= ShardQueue
        /\ m.qos = 1
        /\ senders' = [senders EXCEPT ![s] = Append(@, m)]
        /\ SetClient(m, [Waiting(m) EXCEPT !.pc = "send"])
        /\ UNCHANGED queue

\* OnPublish up to the end of Submit.  A writer waiting for the lock (stop =
\* "quit") holds new readers off.
Publish(d) ==
  /\ \/ stop \in {"up", "stopping"}
     \/ stop \in {"closing", "closed"} /\ <<d, gen[d]>> \in Stragglers
  /\ cl[d][gen[d]].pc = "idle"
  /\ \E m \in Outgoing(d) :
       /\ next' = [next EXCEPT ![d] = m.seq]
       /\ unacked' = [unacked EXCEPT ![d] = IF m.qos = 0 THEN {} ELSE {m}]
       /\ Submit(m)
  /\ UNCHANGED <<gen, spc, cur, flushVars, armed, stop, ctxDone, faults,
                 dbVars, endVars>>

\* OnPublish returns CodeSuccessIgnore: the PUBACK goes to the connection the
\* message came from, which is the device's only if it did not reconnect.
Puback(d, g) ==
  /\ cl[d][g].pc = "wait"
  /\ cl[d][g].acked
  /\ cl' = [cl EXCEPT ![d][g] = Idle]
  /\ IF g = gen[d]
     THEN /\ acked' = acked \cup {[dev |-> d, seq |-> cl[d][g].seq]}
          /\ unacked' = [unacked EXCEPT ![d] =
                           {m \in @ : m.seq # cl[d][g].seq}]
     ELSE UNCHANGED <<acked, unacked>>
  /\ UNCHANGED <<next, gen, laneVars, spc, cur, flushVars, armed, stop,
                 ctxDone, faults, dbVars, handled, consumed>>

\* OnPublish returns ErrRejectPacket: the connection is over.
RejectPacket(d, g) ==
  /\ cl[d][g].pc = "wait"
  /\ Closing
  /\ cl' = [cl EXCEPT ![d][g] = [Idle EXCEPT !.pc = "gone"]]
  /\ UNCHANGED <<next, unacked, gen, laneVars, spc, cur, flushVars, armed,
                 stop, ctxDone, faults, dbVars, endVars>>

\* The device gives up on its connection and opens another one.
Reconnect(d) ==
  /\ Fault("reconnect")
  /\ stop \in {"up", "stopping"}
  /\ gen[d] < MaxGen
  /\ gen' = [gen EXCEPT ![d] = @ + 1]
  /\ UNCHANGED <<next, unacked, cl, laneVars, spc, cur, flushVars, armed,
                 stop, ctxDone, dbVars, endVars>>

-----------------------------------------------------------------------------
(* The shard goroutine: shardPass, handle, flush *)

\* InboundMessage.Ack for every message of M (a sync.Once per message).
Ack(M) ==
  cl' = [d \in Devices |-> [g \in 1..MaxGen |->
          IF /\ cl[d][g].pc = "wait"
             /\ \E m \in M : m.dev = d /\ m.gen = g /\ m.seq = cl[d][g].seq
          THEN [cl[d][g] EXCEPT !.acked = TRUE]
          ELSE cl[d][g]]]

\* Mutant: a batch that waits gets no timer.
AfterHandleUnarmed(s, b) ==
  /\ batch' = [batch EXCEPT ![s] = b]
  /\ cur' = [cur EXCEPT ![s] = {}]
  /\ spc' = [spc EXCEPT ![s] = IF Len(b) >= BatchMaxRows THEN "commit" ELSE "select"]
  /\ after' = [after EXCEPT ![s] = "select"]
  /\ slice' = [slice EXCEPT ![s] = 0]
  /\ UNCHANGED armed

\* The switch after handle: flush a full batch, arm the timer of a batch
\* that waits.
AfterHandle(s, b) ==
  /\ batch' = [batch EXCEPT ![s] = b]
  /\ cur' = [cur EXCEPT ![s] = {}]
  /\ IF Len(b) >= BatchMaxRows
     THEN /\ spc' = [spc EXCEPT ![s] = "commit"]
          /\ armed' = [armed EXCEPT ![s] = FALSE]
     ELSE /\ spc' = [spc EXCEPT ![s] = "select"]
          /\ armed' = [armed EXCEPT ![s] = @ \/ b # <<>>]
  /\ after' = [after EXCEPT ![s] = "select"]
  /\ slice' = [slice EXCEPT ![s] = 0]

\* Mutant: the pass after a panic does not look at the batch it inherits.
RestartPassUnarmed(s, b) ==
  /\ batch' = [batch EXCEPT ![s] = b]
  /\ cur' = [cur EXCEPT ![s] = {}]
  /\ spc' = [spc EXCEPT ![s] = "select"]
  /\ after' = [after EXCEPT ![s] = "select"]
  /\ slice' = [slice EXCEPT ![s] = 0]
  /\ UNCHANGED armed

\* shardPass recovers a panic and starts over with the batch it had.
RestartPass(s, b) ==
  /\ batch' = [batch EXCEPT ![s] = b]
  /\ cur' = [cur EXCEPT ![s] = {}]
  /\ spc' = [spc EXCEPT ![s] = "select"]
  /\ armed' = [armed EXCEPT ![s] = @ \/ b # <<>>]
  /\ after' = [after EXCEPT ![s] = "select"]
  /\ slice' = [slice EXCEPT ![s] = 0]

\* flushShard: disarm, and flush unless there is nothing to flush.
FlushShard(s, cont) ==
  /\ armed' = [armed EXCEPT ![s] = FALSE]
  /\ spc' = [spc EXCEPT ![s] = IF batch[s] = <<>> THEN cont ELSE "commit"]
  /\ after' = [after EXCEPT ![s] = cont]
  /\ slice' = [slice EXCEPT ![s] = 0]
  /\ UNCHANGED batch

\* Mutant: a shard that sees quit polls it and leaves its lane alone.
ReceivePollsQuit(s) ==
  /\ spc[s] = "select"
  /\ queue[s] # <<>>
  /\ IF stop = "quit" THEN UNCHANGED <<cur, spc, laneVars, cl>>
     ELSE /\ cur' = [cur EXCEPT ![s] = {Head(queue[s])}]
          /\ spc' = [spc EXCEPT ![s] = "handle"]
          /\ IF senders[s] = <<>>
             THEN /\ queue' = [queue EXCEPT ![s] = Tail(@)]
                  /\ UNCHANGED <<senders, cl>>
             ELSE /\ queue' = [queue EXCEPT ![s] = Append(Tail(@), Head(senders[s]))]
                  /\ senders' = [senders EXCEPT ![s] = Tail(@)]
                  /\ SetClient(Head(senders[s]), Waiting(Head(senders[s])))
  /\ UNCHANGED <<next, unacked, gen, flushVars, armed, stop, ctxDone, faults,
                 dbVars, endVars>>

\* Receiving from a full channel lets the first blocked sender in.
Receive(s) ==
  /\ spc[s] = "select"
  /\ queue[s] # <<>>
  /\ cur' = [cur EXCEPT ![s] = {Head(queue[s])}]
  /\ spc' = [spc EXCEPT ![s] = "handle"]
  /\ IF senders[s] = <<>>
     THEN /\ queue' = [queue EXCEPT ![s] = Tail(@)]
          /\ UNCHANGED <<senders, cl>>
     ELSE /\ queue' = [queue EXCEPT ![s] = Append(Tail(@), Head(senders[s]))]
          /\ senders' = [senders EXCEPT ![s] = Tail(@)]
          /\ SetClient(Head(senders[s]), Waiting(Head(senders[s])))
  /\ UNCHANGED <<next, unacked, gen, flushVars, armed, stop, ctxDone, faults,
                 dbVars, endVars>>

\* Mutant: a closed lane ends the shard without a last flush.
ReceiveClosedUnflushed(s) ==
  /\ spc[s] = "select"
  /\ stop = "closed"
  /\ queue[s] = <<>>
  /\ spc' = [spc EXCEPT ![s] = "exit"]
  /\ UNCHANGED <<deviceVars, laneVars, cur, flushVars, armed, stop, ctxDone,
                 faults, dbVars, endVars>>

ReceiveClosed(s) ==
  /\ spc[s] = "select"
  /\ stop = "closed"
  /\ queue[s] = <<>>
  /\ FlushShard(s, "exit")
  /\ UNCHANGED <<deviceVars, laneVars, cur, stop, ctxDone, faults, dbVars,
                 endVars>>

TimerFires(s) ==
  /\ spc[s] = "select"
  /\ armed[s]
  /\ FlushShard(s, "select")
  /\ UNCHANGED <<deviceVars, laneVars, cur, stop, ctxDone, faults, dbVars,
                 endVars>>

ContextDone(s) ==
  /\ spc[s] = "select"
  /\ ctxDone
  /\ spc' = [spc EXCEPT ![s] = "exit"]
  /\ UNCHANGED <<deviceVars, laneVars, cur, flushVars, armed, stop, ctxDone,
                 faults, dbVars, endVars>>

\* A message the pipeline refuses: acknowledged, never stored.
Reject(s) ==
  /\ spc[s] = "handle"
  /\ \E m \in cur[s] :
       /\ Ack({m})
       /\ consumed' = consumed \cup {Id(m)}
  /\ AfterHandle(s, batch[s])
  /\ UNCHANGED <<next, unacked, gen, laneVars, stop, ctxDone, faults, dbVars,
                 handled, acked>>

\* Mutant: the message is acknowledged when its op joins the batch.
AddOpAcks(s) ==
  /\ spc[s] = "handle"
  /\ \E m \in cur[s] : /\ m.kind # "control"
                       /\ Ack({m})
                       /\ AfterHandle(s, Append(batch[s], m))
  /\ UNCHANGED <<next, unacked, gen, laneVars, stop, ctxDone, faults, dbVars,
                 endVars>>

\* processData succeeds.
AddOp(s) ==
  /\ spc[s] = "handle"
  /\ \E m \in cur[s] : /\ m.kind # "control"
                       /\ AfterHandle(s, Append(batch[s], m))
  /\ UNCHANGED <<deviceVars, laneVars, stop, ctxDone, faults, dbVars,
                 endVars>>

\* Mutant: a control message overtakes the data batched before it.
FlushFirstSkipped(s) ==
  /\ spc[s] = "handle"
  /\ \E m \in cur[s] : m.kind = "control"
  /\ spc' = [spc EXCEPT ![s] = "control"]
  /\ UNCHANGED <<deviceVars, laneVars, cur, flushVars, armed, stop, ctxDone,
                 faults, dbVars, endVars>>

\* Introspection, control and capabilities: flush first.
FlushFirst(s) ==
  /\ spc[s] = "handle"
  /\ \E m \in cur[s] : m.kind = "control"
  /\ FlushShard(s, "control")
  /\ UNCHANGED <<deviceVars, laneVars, cur, stop, ctxDone, faults, dbVars,
                 endVars>>

\* The handler of such a message ends with the acknowledgment.
HandleControl(s) ==
  /\ spc[s] = "control"
  /\ \E m \in cur[s] :
       /\ Ack({m})
       /\ handled' = handled \cup {Id(m)}
  /\ AfterHandle(s, batch[s])
  /\ UNCHANGED <<next, unacked, gen, laneVars, stop, ctxDone, faults, dbVars,
                 consumed, acked>>

\* deviceState or retryStore: a failing store parks the shard, and the
\* message is left unacknowledged when the engine stops.
HandleStoreFails(s) ==
  /\ Fault("transient")
  /\ \/ spc[s] = "control"
     \/ spc[s] = "handle" /\ \E m \in cur[s] : m.kind # "control"
  /\ \/ UNCHANGED <<cur, spc, flushVars, armed>>
     \/ GiveUp /\ AfterHandle(s, batch[s])
  /\ UNCHANGED <<deviceVars, laneVars, stop, ctxDone, dbVars, endVars>>

HandlePanics(s) ==
  /\ Fault("panic")
  /\ spc[s] \in {"handle", "control"}
  /\ RestartPass(s, batch[s])
  /\ UNCHANGED <<deviceVars, laneVars, stop, ctxDone, dbVars, endVars>>

\* The indices of the ops of the running flushOps.
Slice(s) == IF slice[s] = 0 THEN 1..Len(batch[s]) ELSE {slice[s]}

Live(s) == {i \in Slice(s) : ~batch[s][i].broken}

Props(s, I) == {i \in I : batch[s][i].kind = "prop"}

\* Mutant: the first statement of a batch for a property wins.
ApplyFirst(s, I) ==
  value' \in {v \in [Devices -> 0..MaxSeq] : \A d \in Devices :
    LET own == {i \in Props(s, I) : batch[s][i].dev = d}
    IN \/ own = {} /\ v[d] = value[d]
       \/ \E i \in own : /\ \A j \in own : i <= j
                        /\ v[d] = batch[s][i].seq}

\* Property statements run one by one in arrival order: the last one wins.
Apply(s, I) ==
  value' \in {v \in [Devices -> 0..MaxSeq] : \A d \in Devices :
    LET own == {i \in Props(s, I) : batch[s][i].dev = d}
    IN \/ own = {} /\ v[d] = value[d]
       \/ \E i \in own : /\ \A j \in own : j <= i
                        /\ v[d] = batch[s][i].seq}

\* markBroken for the ops whose row conversion failed in this attempt.
MarkBroken(s, bad) ==
  /\ batch' = [batch EXCEPT ![s] =
       [i \in 1..Len(batch[s]) |->
          IF i \in bad THEN [batch[s][i] EXCEPT !.broken = TRUE]
          ELSE batch[s][i]]]
  /\ consumed' = consumed \cup {Id(batch[s][i]) : i \in bad}
  /\ Ack({batch[s][i] : i \in bad})

\* At most one conversion fails per attempt, among the ops visited.
Conversions(s, visited) ==
  \/ MarkBroken(s, {})
  \/ \E i \in visited : "broken" \in FaultKinds /\ MarkBroken(s, {i})

\* The ops of I this attempt writes: those whose conversion did not fail.
Written(s, I) == {i \in I : ~batch'[s][i].broken}

Write(s, I) ==
  /\ stored' = stored \cup {Id(batch[s][i]) : i \in I}
  /\ Apply(s, I)

\* commit returns nil: properties and datastream rows are all written.
CommitOk(s) ==
  /\ spc[s] = "commit"
  /\ Conversions(s, Live(s))
  /\ Write(s, Written(s, Live(s)))
  /\ spc' = [spc EXCEPT ![s] = "finalize"]
  /\ UNCHANGED <<next, unacked, gen, laneVars, cur, after, slice, armed, stop,
                 ctxDone, faults, handled, acked>>

\* flushOps is done with its slice; flush forgets the batch at its end.
EndSlice(s) ==
  IF slice[s] = 0 \/ slice[s] = Len(batch[s])
  THEN /\ batch' = [batch EXCEPT ![s] = <<>>]
       /\ spc' = [spc EXCEPT ![s] = after[s]]
       /\ slice' = [slice EXCEPT ![s] = 0]
  ELSE /\ spc' = [spc EXCEPT ![s] = "commit"]
       /\ slice' = [slice EXCEPT ![s] = @ + 1]
       /\ UNCHANGED batch

\* commit fails at the property statement j, or at the datastream
\* transaction (j past the end): the property statements before j stay.
CommitFails(s) ==
  /\ spc[s] = "commit"
  /\ \E j \in Live(s) \cup {Len(batch[s]) + 1} :
       /\ Conversions(s, {i \in Live(s) : i < j})
       /\ \/ j \in Props(s, Live(s))
          \/ /\ j = Len(batch[s]) + 1
             /\ Written(s, Live(s) \ Props(s, Live(s))) # {}
       /\ Write(s, Written(s, {i \in Props(s, Live(s)) : i < j}))
  /\ UNCHANGED <<next, unacked, gen, laneVars, cur, after, armed, stop,
                 ctxDone, handled, acked>>

\* Connection loss, timeout, restart of the database: park.
CommitTransient(s) ==
  /\ Fault("transient")
  /\ CommitFails(s)
  /\ spc' = [spc EXCEPT ![s] = "park"]
  /\ UNCHANGED slice

\* The database refuses a batch for good: commit the ops one by one.
BatchRefused(s) ==
  /\ Fault("permanent")
  /\ slice[s] = 0
  /\ Len(batch[s]) > 1
  /\ CommitFails(s)
  /\ slice' = [slice EXCEPT ![s] = 1]
  /\ UNCHANGED spc

\* The database refuses a single op for good: consume it.
OpRefused(s) ==
  /\ Fault("permanent")
  /\ spc[s] = "commit"
  /\ slice[s] > 0 \/ Len(batch[s]) = 1
  /\ \E i \in Live(s) :
       /\ Ack({batch[s][i]})
       /\ consumed' = consumed \cup {Id(batch[s][i])}
  /\ EndSlice(s)
  /\ UNCHANGED <<next, unacked, gen, laneVars, cur, after, armed, stop,
                 ctxDone, dbVars, handled, acked>>

Retry(s) ==
  /\ spc[s] = "park"
  /\ spc' = [spc EXCEPT ![s] = "commit"]
  /\ UNCHANGED <<deviceVars, laneVars, cur, flushVars, armed, stop, ctxDone,
                 faults, dbVars, endVars>>

\* The slice is abandoned unacknowledged.
Abandon(s) ==
  /\ spc[s] = "park"
  /\ GiveUp
  /\ EndSlice(s)
  /\ UNCHANGED <<deviceVars, laneVars, cur, after, armed, stop, ctxDone,
                 faults, dbVars, endVars>>

\* finalize acknowledges the live ops, then calls afterCommit.
Finalize(s) ==
  /\ spc[s] = "finalize"
  /\ Ack({batch[s][i] : i \in Live(s)})
  /\ EndSlice(s)
  /\ UNCHANGED <<next, unacked, gen, laneVars, cur, after, armed, stop,
                 ctxDone, faults, dbVars, endVars>>

\* finalize builds the live slice in the array of the batch itself: slot k
\* gets the k-th op that is not broken, later slots keep what they held.
Compact(ops) ==
  LET rank(i) == Cardinality({j \in 1..i : ~ops[j].broken})
      nth(k) == {i \in 1..Len(ops) : ~ops[i].broken /\ rank(i) = k}
  IN [k \in 1..Len(ops) |->
        IF nth(k) = {} THEN ops[k] ELSE ops[CHOOSE i \in nth(k) : TRUE]]

\* afterCommit panics: everything was acknowledged, and flush did not get to
\* forget the batch.
FinalizePanics(s) ==
  /\ Fault("panic")
  /\ spc[s] = "finalize"
  /\ Live(s) # {}
  /\ Ack({batch[s][i] : i \in Live(s)})
  /\ RestartPass(s, IF slice[s] = 0 THEN Compact(batch[s]) ELSE batch[s])
  /\ UNCHANGED <<next, unacked, gen, laneVars, stop, ctxDone, dbVars,
                 endVars>>

-----------------------------------------------------------------------------
(* Process life: main's shutdown, Broker.Close, Engine.drain *)

StopVars == <<deviceVars, laneVars, spc, cur, flushVars, armed, faults,
              dbVars, endVars>>

\* run's select: the HTTP server failed.
ServeError ==
  /\ "serveErr" \in StopCauses
  /\ stop = "up"
  /\ stop' = "stopping"
  /\ UNCHANGED <<StopVars, ctxDone>>

\* SIGTERM cancels the context run was called with, which is also the one
\* Engine.Start got.
Signal ==
  /\ "signal" \in StopCauses
  /\ ~ctxDone
  /\ stop # "down"
  /\ ctxDone' = TRUE
  /\ stop' = IF stop = "up" THEN "stopping" ELSE stop
  /\ UNCHANGED StopVars

\* Broker.Close: close(b.closing), disconnect the clients ...
BrokerClosing ==
  /\ stop = "stopping"
  /\ stop' = "closing"
  /\ UNCHANGED <<StopVars, ctxDone>>

\* ... and wait for their goroutines; then drain starts: close(e.quit).
BrokerClosed ==
  /\ stop = "closing"
  /\ \A d \in Devices, g \in 1..MaxGen :
       <<d, g>> \in Stragglers \/ cl[d][g].pc \in {"idle", "gone"}
  /\ stop' = "quit"
  /\ UNCHANGED <<StopVars, ctxDone>>

\* Mutant: the lanes are closed without the write lock.
CloseLanesUnlocked ==
  /\ stop = "quit"
  /\ stop' = "closed"
  /\ UNCHANGED <<StopVars, ctxDone>>

\* drain gets the write lock and closes the lanes.
CloseLanes ==
  /\ stop = "quit"
  /\ \A d \in Devices, g \in 1..MaxGen : cl[d][g].pc # "send"
  /\ stop' = "closed"
  /\ UNCHANGED <<StopVars, ctxDone>>

\* drain returns: the shards are done, or its context expired.
DrainReturns ==
  /\ stop = "closed"
  /\ \/ \A s \in Shards : spc[s] = "exit"
     \/ "timeout" \in FaultKinds
  /\ stop' = "down"
  /\ UNCHANGED <<StopVars, ctxDone>>

\* A new process: only the database and the devices remember.
Boot ==
  /\ cl' = [d \in Devices |-> [g \in 1..MaxGen |-> Idle]]
  /\ gen' = [d \in Devices |-> 1]
  /\ queue' = [s \in Shards |-> <<>>]
  /\ senders' = [s \in Shards |-> <<>>]
  /\ spc' = [s \in Shards |-> "select"]
  /\ cur' = [s \in Shards |-> {}]
  /\ batch' = [s \in Shards |-> <<>>]
  /\ after' = [s \in Shards |-> "select"]
  /\ slice' = [s \in Shards |-> 0]
  /\ armed' = [s \in Shards |-> FALSE]
  /\ stop' = "up"
  /\ ctxDone' = FALSE
  /\ UNCHANGED <<next, unacked, dbVars, endVars>>

Restart == stop = "down" /\ Boot /\ UNCHANGED faults

Crash == Fault("crash") /\ Boot

-----------------------------------------------------------------------------

ClientStep(d) ==
  \/ Publish(d)
  \/ \E g \in 1..MaxGen : Puback(d, g) \/ RejectPacket(d, g)

ShardStep(s) ==
  \/ Receive(s) \/ ReceiveClosed(s) \/ TimerFires(s) \/ ContextDone(s)
  \/ Reject(s) \/ AddOp(s) \/ FlushFirst(s) \/ HandleControl(s)
  \/ HandleStoreFails(s) \/ HandlePanics(s)
  \/ CommitOk(s) \/ CommitTransient(s) \/ BatchRefused(s) \/ OpRefused(s)
  \/ Retry(s) \/ Abandon(s) \/ Finalize(s) \/ FinalizePanics(s)

StopStep == BrokerClosing \/ BrokerClosed \/ CloseLanes \/ DrainReturns

Next ==
  \/ \E d \in Devices : ClientStep(d) \/ Reconnect(d)
  \/ \E s \in Shards : ShardStep(s)
  \/ ServeError \/ Signal \/ StopStep \/ Restart \/ Crash

Spec == Init /\ [][Next]_vars

\* Goroutines that can run do run, and a device re-sends the QoS >= 1 message
\* it holds once it is connected again; it need not publish anything new,
\* nothing stops the process, and no fault has to happen.
Fairness ==
  /\ \A d \in Devices : WF_vars(unacked[d] # {} /\ Publish(d))
  /\ \A s \in Shards : WF_vars(ShardStep(s))
  /\ \A d \in Devices, g \in 1..MaxGen : WF_vars(Puback(d, g) \/ RejectPacket(d, g))
  /\ WF_vars(StopStep)

FairSpec == Spec /\ Fairness

-----------------------------------------------------------------------------
(* Properties *)

Clients == [pc : {"idle", "send", "wait", "gone"}, seq : 0..MaxSeq,
            acked : BOOLEAN]

\* The shape of the state of connections, lanes, shards and database.
TypeOK ==
  /\ next \in [Devices -> 0..MaxSeq]
  /\ unacked \in [Devices -> SUBSET Msgs]
  /\ gen \in [Devices -> 1..MaxGen]
  /\ cl \in [Devices -> [1..MaxGen -> Clients]]
  /\ queue \in [Shards -> Seq(Msgs)]
  /\ senders \in [Shards -> Seq(Msgs)]
  /\ spc \in [Shards -> {"select", "handle", "commit", "park", "finalize",
                         "control", "exit"}]
  /\ cur \in [Shards -> SUBSET Msgs]
  /\ batch \in [Shards -> Seq(Msgs)]
  /\ after \in [Shards -> {"select", "control", "exit"}]
  /\ slice \in [Shards -> Nat]
  /\ armed \in [Shards -> BOOLEAN]
  /\ stop \in {"up", "stopping", "closing", "quit", "closed", "down"}
  /\ ctxDone \in BOOLEAN
  /\ faults \in 0..MaxFaults
  /\ stored \subseteq Ids
  /\ value \in [Devices -> 0..MaxSeq]
  /\ handled \subseteq Ids
  /\ consumed \subseteq Ids
  /\ acked \subseteq [dev : Devices, seq : 0..MaxSeq]

\* A PUBACK reaches the device only for a message whose batch committed, or
\* which the engine consumed on purpose (flushOps, finalize, markBroken,
\* reject): no crash, panic, retry, split or shutdown loses acknowledged data.
AckedIsSettled ==
  \A k \in acked : \E x \in stored \cup handled \cup consumed : Key(x) = k

\* A shard that waits in shardPass's select with ops in its batch has its
\* flush timer armed: no batch is stranded, not even one that survived a panic.
TimerCoversBatch ==
  \A s \in Shards : spc[s] = "select" /\ batch[s] # <<>> => armed[s]

\* drain closes a lane only when no submitter is blocked sending on it: a
\* send on a closed channel would panic in the connection's goroutine.
NoSendOnClosedLane ==
  stop \in {"closed", "down"} => \A s \in Shards : senders[s] = <<>>

\* When the commit of a whole batch has succeeded, the property of a device
\* that it set has the newest value ever written for it (commit, "last-value-
\* wins"): a retry that re-applies the statements of attempts which failed half
\* way ends where the batch ends.
LastValueWins ==
  \A s \in Shards, d \in Devices :
    (/\ spc[s] = "finalize"
     /\ slice[s] = 0
     /\ \E i \in Props(s, Live(s)) : batch[s][i].dev = d)
    => \A x \in stored \ consumed :
         x.dev = d /\ x.kind = "prop" => x.seq <= value[d]

\* A shard that returned from its loop has handled every message of its lane
\* and flushed its last batch, or abandoned what the store kept failing on
\* (drain, DESIGN.md 5.3).
ExitedShardIsDrained ==
  \A s \in Shards : spc[s] = "exit" => batch[s] = <<>> /\ queue[s] = <<>>

\* Every QoS >= 1 publish is acknowledged in the end unless the process is
\* told to stop: parking, splitting and backpressure all resolve.
EventuallyAcked ==
  \A d \in Devices : unacked[d] # {} ~> (unacked[d] = {} \/ stop # "up")

\* A shutdown that has begun runs to its end.
ShutdownCompletes == stop = "stopping" ~> stop = "down"

\* The refinement mapping: the promise speaks of what devices published and of
\* what the database and the devices were told, the history the pipeline keeps.
Promise == INSTANCE Ingest WITH
             Kinds <- Kinds, next <- next, stored <- stored, handled <- handled,
             consumed <- consumed, acked <- acked

\* Every behaviour of the pipeline is one the ingest promise allows, as long as
\* afterCommit does not panic behind a batch that was split: the pass that
\* inherits such a batch commits again what had been set aside.
ImplementsIngest == Promise!Spec
=============================================================================
