-------------------------- MODULE IngestProofs --------------------------
(***************************************************************************)
(* The order of what a device publishes, from its connection to the        *)
(* database: proofs about ShardPipeline for every value of its constants.  *)
(* A published message moves down one lane, from the blocked senders to    *)
(* the queue, the shard's hands and the batch, and is never overtaken by   *)
(* another of its device, so the pipeline keeps the promise of module      *)
(* Ingest.                                                                 *)
(***************************************************************************)
EXTENDS ShardPipelineProofs

-----------------------------------------------------------------------------
(* What a step does to the messages *)

Commits(s) == CommitOk(s) \/ CommitTransient(s) \/ BatchRefused(s)

\* An attempt writes the ops W of the running slice: the older ones of a kind,
\* and all of them if it succeeds.
Commit(s, W) ==
  /\ W \subseteq Live(s)
  /\ stored' = stored \cup {Id(batch[s][i]) : i \in W}
  /\ Apply(s, W)
  /\ Len(batch'[s]) = Len(batch[s])
  /\ \A i \in 1..Len(batch[s]) :
       /\ Id(batch'[s][i]) = Id(batch[s][i])
       /\ batch[s][i].broken => batch'[s][i].broken
       /\ batch'[s][i].broken => batch[s][i].broken \/ Id(batch[s][i]) \in consumed'
  /\ consumed \subseteq consumed'
  /\ consumed' \subseteq consumed \cup {Id(m) : m \in Ops(s)}
  /\ \A i \in W, k \in 1..Len(batch[s]) :
       (/\ slice[s] <= k /\ k \notin W
        /\ ~batch'[s][k].broken
        /\ batch[s][k].kind = batch[s][i].kind) => i < k
  /\ spc'[s] = "finalize" /\ slice'[s] = 0 =>
       \A k \in 1..Len(batch[s]) : batch'[s][k].broken \/ k \in W
  /\ slice[s] <= slice'[s]
  /\ UNCHANGED <<next, unacked, laneVars, cur, handled>>
  /\ \A r \in Shards \ {s} :
       batch'[r] = batch[r] /\ slice'[r] = slice[r] /\ spc'[r] = spc[r]

\* The part that all three ways for a commit to end have in common.
LEMMA ConversionsMark ==
  ASSUME Typed, NEW s \in Shards, NEW V \in SUBSET Live(s), Conversions(s, V)
  PROVE  /\ Len(batch'[s]) = Len(batch[s])
         /\ \A i \in 1..Len(batch[s]) :
              /\ Id(batch'[s][i]) = Id(batch[s][i])
              /\ batch[s][i].broken => batch'[s][i].broken
              /\ batch'[s][i].broken => batch[s][i].broken \/ Id(batch[s][i]) \in consumed'
         /\ consumed \subseteq consumed'
         /\ consumed' \subseteq consumed \cup {Id(m) : m \in Ops(s)}
         /\ \A r \in Shards \ {s} : batch'[r] = batch[r]
<1>1. PICK bad \in SUBSET (1..Len(batch[s])) : MarkBroken(s, bad)
  BY Zenon, LiveIndices DEF Conversions
<1>2. consumed' = consumed \cup {Id(batch[s][i]) : i \in bad}
  BY Zenon, <1>1 DEF MarkBroken
<1>3. consumed' \subseteq consumed \cup {Id(m) : m \in Ops(s)}
  BY Zenon, <1>2 DEF Ops
<1>4. QED
  BY Zenon, <1>3, ConversionsEffect

LEMMA CommitEffect ==
  ASSUME Typed, NEW s \in Shards, Commits(s)
  PROVE  \E W : Commit(s, W)
<1> USE DEF deviceVars, laneVars, flushVars, dbVars, endVars
<1>t. /\ TypeOK /\ Len(batch[s]) \in Nat /\ slice[s] \in Nat
      /\ Live(s) \subseteq 1..Len(batch[s])
  BY Zenon, SliceFacts, LiveIndices DEF Typed
<1>1. CASE CommitOk(s)
  <2> DEFINE W == Written(s, Live(s))
  <2>1. Conversions(s, Live(s)) /\ Write(s, W)
    BY Zenon, <1>1 DEF CommitOk
  <2>2. W \subseteq Live(s)
    BY Zenon DEF Written
  <2>3. /\ UNCHANGED <<next, unacked, laneVars, cur, handled, slice>>
        /\ \A r \in Shards \ {s} : spc'[r] = spc[r]
    BY Zenon, <1>1, <1>t DEF CommitOk, TypeOK
  <2>4. \A k \in 1..Len(batch[s]) : k \in Slice(s) => batch'[s][k].broken \/ k \in W
    BY Zenon, <2>1, ConversionsMark DEF Written, Live
  <2>5. \A i \in W, k \in 1..Len(batch[s]) :
          slice[s] <= k /\ k \notin W /\ ~batch'[s][k].broken => i < k
    <3>1. SUFFICES ASSUME NEW i \in W, NEW k \in 1..Len(batch[s]), slice[s] <= k,
                          k \notin W, ~batch'[s][k].broken
                   PROVE  i < k
      OBVIOUS
    <3>2. k \notin Slice(s) /\ i \in Slice(s)
      BY Zenon, <2>2, <2>4, <3>1 DEF Live
    <3> QED
      BY <1>t, <3>1, <3>2 DEF Slice
  <2>6. slice[s] = 0 => \A k \in 1..Len(batch[s]) : batch'[s][k].broken \/ k \in W
    BY Zenon, <2>4 DEF Slice
  <2>7. stored' = stored \cup {Id(batch[s][i]) : i \in W} /\ Apply(s, W)
    BY Zenon, <2>1 DEF Write
  <2> HIDE DEF W
  <2>8. Commit(s, W)
    BY <1>t, <2>1, <2>2, <2>3, <2>5, <2>6, <2>7, ConversionsMark DEF Commit
  <2>9. QED
    BY Zenon, <2>8
<1>2. CASE CommitTransient(s) \/ BatchRefused(s)
  <2>1. CommitFails(s)
    BY Zenon, <1>2 DEF CommitTransient, BatchRefused
  <2>2. PICK j \in Live(s) \cup {Len(batch[s]) + 1} :
          /\ Conversions(s, {i \in Live(s) : i < j})
          /\ Write(s, Written(s, {i \in Props(s, Live(s)) : i < j}))
    BY <2>1, ZenonT(30) DEF CommitFails
  <2> DEFINE V == {i \in Live(s) : i < j}
             W == Written(s, {i \in Props(s, Live(s)) : i < j})
  <2>3. V \subseteq Live(s) /\ W \subseteq Live(s)
    BY Zenon DEF Written, Props
  <2>4. /\ UNCHANGED <<next, unacked, laneVars, cur, handled>>
        /\ spc'[s] # "finalize" /\ slice[s] <= slice'[s]
        /\ \A r \in Shards \ {s} : spc'[r] = spc[r] /\ slice'[r] = slice[r]
    BY <1>2, <1>t DEF CommitFails, CommitTransient, BatchRefused, TypeOK
  <2>5. \A i \in W, k \in 1..Len(batch[s]) :
          (/\ slice[s] <= k /\ k \notin W
           /\ ~batch'[s][k].broken
           /\ batch[s][k].kind = batch[s][i].kind) => i < k
    <3>1. SUFFICES ASSUME NEW i \in W, NEW k \in 1..Len(batch[s]), slice[s] <= k,
                          k \notin W, ~batch'[s][k].broken,
                          batch[s][k].kind = batch[s][i].kind
                   PROVE  i < k
      OBVIOUS
    <3>2. i \in Slice(s) /\ i < j /\ batch[s][k].kind = "prop" /\ i # k
      BY Zenon, <3>1 DEF Written, Props, Live
    <3>3. ~batch[s][k].broken
      BY Zenon, <2>2, <3>1, ConversionsMark
    <3>4. k \in Slice(s) => ~(k < j)
      BY Zenon, <3>1, <3>2, <3>3 DEF Written, Props, Live
    <3>5. j \in Nat
      BY <1>t
    <3> QED
      BY <1>t, <3>1, <3>2, <3>4, <3>5 DEF Slice
  <2>6. stored' = stored \cup {Id(batch[s][i]) : i \in W} /\ Apply(s, W)
    BY Zenon, <2>2 DEF Write
  <2>7. Conversions(s, V)
    BY Zenon, <2>2
  <2> HIDE DEF W, V
  <2>8. Commit(s, W)
    BY Zenon, <1>t, <2>3, <2>4, <2>5, <2>6, <2>7, ConversionsMark DEF Commit
  <2>9. QED
    BY Zenon, <2>8
<1>3. QED
  BY Zenon, <1>1, <1>2 DEF Commits

\* A step that moves no message on: some may be consumed, and batches dropped.
Calm ==
  /\ UNCHANGED <<next, laneVars, stored, value, handled>>
  /\ \A d \in Devices : unacked'[d] \subseteq unacked[d]
  /\ consumed \subseteq consumed' /\ consumed' \subseteq Seen
  /\ \A s \in Shards :
       /\ cur'[s] \subseteq cur[s]
       /\ batch'[s] = <<>> \/ (batch'[s] = batch[s] /\ slice[s] <= slice'[s])
       /\ spc'[s] = "finalize" =>
            spc[s] = "finalize" /\ batch'[s] = batch[s] /\ slice'[s] = slice[s]

LEMMA StepCases ==
  ASSUME "panic" \notin FaultKinds, Typed, Phase, [Next]_vars
  PROVE  \/ \E d \in Devices : Publish(d)
         \/ \E s \in Shards : Receive(s) \/ AddOp(s) \/ HandleControl(s) \/ Commits(s)
         \/ Boot
         \/ Calm
<1> USE DEF deviceVars, laneVars, flushVars, dbVars, endVars
<1>t. TypeOK /\ consumed \subseteq Seen
  BY Zenon DEF Typed, Seen
<1>n. \A s \in Shards : slice[s] \in Nat
  BY Zenon, <1>t, SliceFacts
<1>1. ASSUME UNCHANGED <<next, laneVars, spc, cur, batch, slice, dbVars, handled, consumed>>,
             \A d \in Devices : unacked'[d] \subseteq unacked[d]
      PROVE  Calm
  BY <1>t, <1>n, <1>1 DEF Calm
<1>2. ASSUME NEW s \in Shards,
             UNCHANGED <<next, unacked, laneVars, dbVars, handled>>,
             consumed \subseteq consumed', consumed' \subseteq Seen,
             cur'[s] \subseteq cur[s], spc'[s] # "finalize",
             batch'[s] = <<>> \/ (batch'[s] = batch[s] /\ slice[s] <= slice'[s]),
             \A r \in Shards \ {s} : /\ cur'[r] = cur[r] /\ spc'[r] = spc[r]
                                     /\ batch'[r] = batch[r] /\ slice'[r] = slice[r]
      PROVE  Calm
  BY <1>n, <1>2, SMTT(30) DEF Calm
<1>3. ASSUME NEW s \in Shards, Retry(s) \/ ContextDone(s)
      PROVE  Calm
  <2>1. UNCHANGED <<next, unacked, laneVars, cur, batch, slice, dbVars, handled, consumed>>
    BY Zenon, <1>3 DEF Retry, ContextDone
  <2>2. spc'[s] # "finalize" /\ \A r \in Shards \ {s} : spc'[r] = spc[r]
    BY Zenon, <1>3, <1>t DEF Retry, ContextDone, TypeOK
  <2>3. QED
    BY <1>2, <1>n, <1>t, <2>1, <2>2
<1>4. ASSUME NEW s \in Shards, ReceiveClosed(s) \/ TimerFires(s) \/ FlushFirst(s)
      PROVE  Calm
  <2>1. UNCHANGED <<next, unacked, laneVars, cur, batch, dbVars, handled, consumed>>
    BY Zenon, <1>4 DEF ReceiveClosed, TimerFires, FlushFirst, FlushShard
  <2>2. PICK cont \in {"exit", "select", "control"} : FlushShard(s, cont)
    BY Zenon, <1>4 DEF ReceiveClosed, TimerFires, FlushFirst
  <2>3. slice[s] = 0
    BY Zenon, <1>4 DEF ReceiveClosed, TimerFires, FlushFirst, Phase, PhaseOf, Flushing
  <2>4. /\ spc'[s] # "finalize" /\ slice'[s] = 0
        /\ \A r \in Shards \ {s} : spc'[r] = spc[r] /\ slice'[r] = slice[r]
    BY Zenon, <1>t, <2>2 DEF FlushShard, TypeOK
  <2>5. QED
    BY <1>2, <1>t, <2>1, <2>3, <2>4
<1>5. ASSUME NEW s \in Shards, AfterHandle(s, batch[s]), spc[s] \in {"handle", "control"},
             UNCHANGED <<next, unacked, laneVars, dbVars, handled>>,
             consumed \subseteq consumed', consumed' \subseteq Seen
      PROVE  Calm
  <2>1. slice[s] = 0
    BY Zenon, <1>5 DEF Phase, PhaseOf, Flushing
  <2>2. /\ spc'[s] # "finalize" /\ slice'[s] = 0 /\ cur'[s] = {} /\ batch'[s] = batch[s]
        /\ \A r \in Shards \ {s} : /\ cur'[r] = cur[r] /\ spc'[r] = spc[r]
                                   /\ batch'[r] = batch[r] /\ slice'[r] = slice[r]
    BY Zenon, <1>t, <1>5 DEF AfterHandle, TypeOK
  <2>3. QED
    BY <1>2, <1>5, <2>1, <2>2, SMTT(30)
<1>6. ASSUME NEW s \in Shards, Reject(s)
      PROVE  Calm
  <2>1. PICK m \in cur[s] : consumed' = consumed \cup {Id(m)}
    BY Zenon, <1>6 DEF Reject
  <2>2. Id(m) \in Seen
    BY DEF Seen, Ahead
  <2>3. AfterHandle(s, batch[s]) /\ spc[s] = "handle"
        /\ UNCHANGED <<next, unacked, laneVars, dbVars, handled>>
    BY Zenon, <1>6 DEF Reject
  <2>4. QED
    BY Zenon, <1>5, <1>t, <2>1, <2>2, <2>3
<1>7. ASSUME NEW s \in Shards, HandleStoreFails(s)
      PROVE  Calm
  <2>1. UNCHANGED <<next, unacked, laneVars, dbVars, handled, consumed>>
        /\ spc[s] \in {"handle", "control"}
    BY Zenon, <1>7 DEF HandleStoreFails
  <2>2. UNCHANGED <<cur, spc, batch, slice>> \/ AfterHandle(s, batch[s])
    BY Zenon, <1>7 DEF HandleStoreFails
  <2>3. QED
    BY Zenon, <1>1, <1>5, <1>t, <2>1, <2>2
<1>8. ASSUME NEW s \in Shards, OpRefused(s) \/ Abandon(s) \/ Finalize(s)
      PROVE  Calm
  <2>1. EndSlice(s) /\ UNCHANGED <<next, unacked, laneVars, cur, dbVars, handled>>
    BY Zenon, <1>8 DEF OpRefused, Abandon, Finalize
  <2>2. consumed \subseteq consumed' /\ consumed' \subseteq Seen
    <3>1. CASE OpRefused(s)
      <4>1. PICK i \in Live(s) : consumed' = consumed \cup {Id(batch[s][i])}
        BY <3>1, ZenonT(30) DEF OpRefused
      <4>2. i \in 1..Len(batch[s])
        BY Zenon, LiveIndices
      <4>3. Id(batch[s][i]) \in Seen
        BY <4>2 DEF Seen, Past, Ops
      <4>4. QED
        BY Zenon, <1>t, <4>1, <4>3
    <3>2. CASE Abandon(s) \/ Finalize(s)
      BY Zenon, <1>t, <3>2 DEF Abandon, Finalize
    <3>3. QED
      BY Zenon, <1>8, <3>1, <3>2
  <2>3. /\ batch'[s] = <<>> \/ (batch'[s] = batch[s] /\ slice[s] <= slice'[s])
        /\ spc'[s] # "finalize"
        /\ \A r \in Shards \ {s} : /\ spc'[r] = spc[r] /\ batch'[r] = batch[r]
                                   /\ slice'[r] = slice[r]
    <3>0. after[s] # "finalize"
      BY Zenon, <1>t DEF TypeOK
    <3>1. after[s] # "finalize" /\ slice[s] <= slice[s] + 1
      BY <1>n, <3>0
    <3>2. CASE slice[s] = 0 \/ slice[s] = Len(batch[s])
      BY Zenon, <1>t, <2>1, <3>1, <3>2 DEF EndSlice, TypeOK
    <3>3. CASE ~(slice[s] = 0 \/ slice[s] = Len(batch[s]))
      BY Zenon, <1>t, <2>1, <3>1, <3>3 DEF EndSlice, TypeOK
    <3>4. QED
      BY Zenon, <3>2, <3>3
  <2>4. QED
    BY Zenon, <1>2, <2>1, <2>2, <2>3
<1>9. ASSUME NEW s \in Shards, ShardStep(s)
      PROVE  Receive(s) \/ AddOp(s) \/ HandleControl(s) \/ Commits(s) \/ Calm
  <2>1. ~HandlePanics(s) /\ ~FinalizePanics(s)
    BY Zenon DEF HandlePanics, FinalizePanics, Fault
  <2>2. QED
    BY Zenon, <1>3, <1>4, <1>6, <1>7, <1>8, <1>9, <2>1 DEF ShardStep, Commits
<1>10. ASSUME NEW d \in Devices, ClientStep(d) \/ Reconnect(d)
       PROVE  Publish(d) \/ Calm
  <2>1. ASSUME NEW g \in 1..MaxGen, Puback(d, g) \/ RejectPacket(d, g)
        PROVE  Calm
    <3>1. UNCHANGED <<next, laneVars, spc, cur, batch, slice, dbVars, handled, consumed>>
      BY Zenon, <2>1 DEF Puback, RejectPacket
    <3>2. \A e \in Devices : unacked'[e] \subseteq unacked[e]
      <4>1. \/ unacked' = unacked
            \/ unacked' = [unacked EXCEPT ![d] = {m \in unacked[d] : m.seq # cl[d][g].seq}]
        BY <2>1 DEF Puback, RejectPacket
      <4>2. QED
        BY <1>t, <4>1, ZenonT(30) DEF TypeOK
    <3>3. QED
      BY Zenon, <1>1, <3>1, <3>2
  <2>2. CASE Reconnect(d)
    BY Zenon, <1>1, <2>2 DEF Reconnect
  <2>3. QED
    BY Zenon, <1>10, <2>1, <2>2 DEF ClientStep
<1>11. CASE ServeError \/ Signal \/ StopStep \/ UNCHANGED vars
  BY <1>1, <1>11, ZenonT(30)
  DEF ServeError, Signal, StopStep, BrokerClosing, BrokerClosed, CloseLanes,
      DrainReturns, StopVars, vars
<1>12. CASE Restart \/ Crash
  BY Zenon, <1>12 DEF Restart, Crash
<1>13. QED
  BY Zenon, <1>9, <1>10, <1>11, <1>12 DEF Next

-----------------------------------------------------------------------------
(* How messages move along a lane *)

LEMMA AppendItems ==
  ASSUME NEW q \in Seq(Msgs), NEW m \in Msgs
  PROVE  /\ Len(q) \in Nat /\ Len(Append(q, m)) = Len(q) + 1
         /\ \A i \in 1..Len(q) : Append(q, m)[i] = q[i]
         /\ Append(q, m)[Len(q) + 1] = m
         /\ \A i \in 1..Len(Append(q, m)) :
              i \in 1..Len(q) \/ i = Len(q) + 1
OBVIOUS

\* Receive takes the head of the queue, and the first sender takes the free slot.
LEMMA ReceiveMoves ==
  ASSUME Typed, NEW s \in Shards, Receive(s)
  PROVE  /\ UNCHANGED <<next, unacked, batch, slice, stored, value, handled, consumed>>
         /\ Len(queue[s]) >= 1 /\ cur'[s] = {queue[s][1]} /\ spc'[s] = "handle"
         /\ \A r \in Shards \ {s} : /\ cur'[r] = cur[r] /\ queue'[r] = queue[r]
                                    /\ senders'[r] = senders[r] /\ spc'[r] = spc[r]
         /\ \/ /\ senders[s] = <<>> /\ senders'[s] = <<>>
               /\ Len(queue'[s]) = Len(queue[s]) - 1
               /\ \A i \in 1..Len(queue'[s]) : queue'[s][i] = queue[s][i + 1]
            \/ /\ Len(senders[s]) >= 1
               /\ Len(queue'[s]) = Len(queue[s])
               /\ Len(senders'[s]) = Len(senders[s]) - 1
               /\ \A i \in 1..Len(queue[s]) - 1 : queue'[s][i] = queue[s][i + 1]
               /\ queue'[s][Len(queue[s])] = senders[s][1]
               /\ \A j \in 1..Len(senders'[s]) : senders'[s][j] = senders[s][j + 1]
<1> USE DEF laneVars, flushVars, dbVars, endVars
<1>1. /\ queue \in [Shards -> Seq(Msgs)] /\ senders \in [Shards -> Seq(Msgs)]
      /\ cur \in [Shards -> SUBSET Msgs] /\ TypeOK
  BY Zenon DEF Typed, TypeOK
<1>2. queue[s] \in Seq(Msgs) /\ senders[s] \in Seq(Msgs) /\ queue[s] # <<>>
  BY Zenon, <1>1 DEF Receive
<1>3. Len(queue[s]) >= 1 /\ Head(queue[s]) = queue[s][1]
  BY <1>2
<1>4. UNCHANGED <<next, unacked, batch, slice, stored, value, handled, consumed>>
  BY Zenon DEF Receive
<1>5. /\ cur'[s] = {queue[s][1]} /\ spc'[s] = "handle"
      /\ \A r \in Shards \ {s} : cur'[r] = cur[r] /\ spc'[r] = spc[r]
  BY Zenon, <1>1, <1>3 DEF Receive, TypeOK
<1>6. CASE senders[s] = <<>>
  <2>1. queue' = [queue EXCEPT ![s] = Tail(queue[s])] /\ senders' = senders
    BY <1>6 DEF Receive
  <2>2. queue'[s] = Tail(queue[s]) /\ \A r \in Shards \ {s} : queue'[r] = queue[r]
    BY <1>1, <2>1
  <2>3. /\ Len(Tail(queue[s])) = Len(queue[s]) - 1
        /\ \A i \in 1..Len(queue[s]) - 1 : Tail(queue[s])[i] = queue[s][i + 1]
    BY <1>2
  <2>4. QED
    BY <1>3, <1>4, <1>5, <1>6, <2>1, <2>2, <2>3, ZenonT(30)
<1>7. CASE senders[s] # <<>>
  <2>1. /\ queue' = [queue EXCEPT ![s] = Append(Tail(queue[s]), Head(senders[s]))]
        /\ senders' = [senders EXCEPT ![s] = Tail(senders[s])]
    BY Zenon, <1>7 DEF Receive
  <2>2. /\ queue'[s] = Append(Tail(queue[s]), Head(senders[s]))
        /\ senders'[s] = Tail(senders[s])
        /\ \A r \in Shards \ {s} : queue'[r] = queue[r] /\ senders'[r] = senders[r]
    BY Zenon, <1>1, <2>1
  <2>3. /\ Tail(queue[s]) \in Seq(Msgs) /\ Len(Tail(queue[s])) = Len(queue[s]) - 1
        /\ \A i \in 1..Len(queue[s]) - 1 : Tail(queue[s])[i] = queue[s][i + 1]
    BY <1>2
  <2>4. /\ Len(senders[s]) >= 1 /\ Head(senders[s]) = senders[s][1]
        /\ senders[s][1] \in Msgs
        /\ Len(Tail(senders[s])) = Len(senders[s]) - 1
        /\ \A i \in 1..Len(senders[s]) - 1 : Tail(senders[s])[i] = senders[s][i + 1]
    BY <1>2, <1>7
  <2>5. /\ Len(queue'[s]) = Len(queue[s])
        /\ \A i \in 1..Len(queue[s]) - 1 : queue'[s][i] = queue[s][i + 1]
        /\ queue'[s][Len(queue[s])] = senders[s][1]
    BY <1>2, <2>2, <2>3, <2>4, SMTT(30)
  <2>6. QED
    BY Zenon, <1>3, <1>4, <1>5, <2>2, <2>4, <2>5
<1>8. QED
  BY <1>6, <1>7, ZenonT(30)

\* A device publishes its next message, or re-sends the last one.
Publishes(d, m) ==
  /\ m \in Msgs /\ m.dev = d /\ ~m.broken
  /\ next' = [next EXCEPT ![d] = m.seq]
  /\ unacked' = [unacked EXCEPT ![d] = IF m.qos = 0 THEN {} ELSE {m}]
  /\ \/ m.seq = next[d] + 1
     \/ m.seq = next[d] /\ Id(m) \in Seen
  /\ UNCHANGED <<cur, batch, slice, spc, after, stored, value, handled, consumed, acked>>
  /\ \/ UNCHANGED laneVars
     \/ /\ Len(queue[ShardOf[d]]) < ShardQueue
        /\ queue' = [queue EXCEPT ![ShardOf[d]] = Append(queue[ShardOf[d]], m)]
        /\ senders' = senders
     \/ /\ Len(queue[ShardOf[d]]) >= ShardQueue
        /\ senders' = [senders EXCEPT ![ShardOf[d]] = Append(senders[ShardOf[d]], m)]
        /\ queue' = queue

LEMMA PublishMoves ==
  ASSUME Typed, Genuine, Whole, NEW d \in Devices, Publish(d)
  PROVE  \E m : Publishes(d, m)
<1> USE DEF laneVars, flushVars, dbVars, endVars
<1>1. PICK m \in Outgoing(d) :
        /\ next' = [next EXCEPT ![d] = m.seq]
        /\ unacked' = [unacked EXCEPT ![d] = IF m.qos = 0 THEN {} ELSE {m}]
        /\ Submit(m)
  BY Zenon DEF Publish
<1>2. OwnMessages
  BY Zenon DEF Genuine, OwnMessages
<1>3. m \in Msgs /\ m.dev = d
  BY Zenon, <1>2, OutgoingOwn
<1>4. m.seq = next[d] + 1 \/ (m.seq = next[d] /\ Id(m) \in Seen)
  <2>1. CASE unacked[d] = {}
    BY <2>1 DEF Outgoing
  <2>2. CASE unacked[d] # {}
    <3>1. PICK u \in unacked[d] : m = [u EXCEPT !.gen = gen[d]]
      BY Zenon, <2>2 DEF Outgoing
    <3>2. u \in Msgs /\ u.seq = next[d]
      BY Zenon DEF Typed, TypeOK, Genuine
    <3>3. Id(m) = Id(u) /\ m.seq = u.seq
      BY Zenon, <3>1, <3>2 DEF Id, Msgs
    <3>4. Id(u) \in Seen
      BY Zenon DEF Seen
    <3>5. QED
      BY Zenon, <3>2, <3>3, <3>4
  <2>3. QED
    BY Zenon, <2>1, <2>2
<1>5. UNCHANGED <<cur, batch, slice, spc, after, stored, value, handled, consumed, acked>>
  BY Zenon DEF Publish
<1>6. \/ UNCHANGED laneVars
      \/ /\ Len(queue[ShardOf[d]]) < ShardQueue
         /\ queue' = [queue EXCEPT ![ShardOf[d]] = Append(queue[ShardOf[d]], m)]
         /\ senders' = senders
      \/ /\ Len(queue[ShardOf[d]]) >= ShardQueue
         /\ senders' = [senders EXCEPT ![ShardOf[d]] = Append(senders[ShardOf[d]], m)]
         /\ queue' = queue
  BY Zenon, <1>1, <1>3 DEF Submit
<1>7. ~m.broken
  <2>1. CASE unacked[d] = {}
    BY <2>1 DEF Outgoing
  <2>2. CASE unacked[d] # {}
    <3>1. PICK u \in unacked[d] : m = [u EXCEPT !.gen = gen[d]]
      BY <2>2 DEF Outgoing
    <3>2. u \in Msgs /\ ~u.broken
      BY Zenon DEF Typed, TypeOK, Whole
    <3>3. QED
      BY Zenon, <3>1, <3>2 DEF Msgs
  <2>3. QED
    BY Zenon, <2>1, <2>2
<1>8. QED
  BY <1>1, <1>3, <1>4, <1>5, <1>6, <1>7, ZenonT(30) DEF Publishes

\* The shard turns the message in its hands into an op, or carries it out.
Taken(s, m) ==
  /\ m \in cur[s] /\ cur'[s] = {}
  /\ slice[s] = 0 /\ slice'[s] = 0 /\ spc'[s] # "finalize"
  /\ UNCHANGED <<next, unacked, laneVars, stored, value, consumed>>
  /\ \A r \in Shards \ {s} : /\ cur'[r] = cur[r] /\ batch'[r] = batch[r]
                             /\ slice'[r] = slice[r] /\ spc'[r] = spc[r]
  /\ \/ /\ m.kind # "control"
        /\ batch'[s] = Append(batch[s], m)
        /\ handled' = handled
     \/ /\ m.kind = "control"
        /\ batch[s] = <<>> /\ batch'[s] = <<>>
        /\ handled' = handled \cup {Id(m)}

LEMMA TakenEffect ==
  ASSUME Typed, Phase, NEW s \in Shards, AddOp(s) \/ HandleControl(s)
  PROVE  \E m : Taken(s, m)
<1> USE DEF deviceVars, laneVars, dbVars, endVars
<1>t. TypeOK
  BY Zenon DEF Typed
<1>p. PhaseOf(s) /\ spc[s] \in {"handle", "control"}
  BY Zenon DEF Phase, AddOp, HandleControl
<1>1. slice[s] = 0
  BY Zenon, <1>p DEF PhaseOf, Flushing
<1>2. ASSUME NEW b, AfterHandle(s, b)
      PROVE  /\ cur'[s] = {} /\ slice'[s] = 0 /\ spc'[s] # "finalize" /\ batch'[s] = b
             /\ \A r \in Shards \ {s} : /\ cur'[r] = cur[r] /\ batch'[r] = batch[r]
                                        /\ slice'[r] = slice[r] /\ spc'[r] = spc[r]
  BY Zenon, <1>t, <1>2 DEF AfterHandle, TypeOK
<1>3. CASE AddOp(s)
  <2>1. PICK m \in cur[s] : m.kind # "control" /\ AfterHandle(s, Append(batch[s], m))
    BY Zenon, <1>3 DEF AddOp
  <2>2. UNCHANGED <<next, unacked, laneVars, stored, value, handled, consumed>>
    BY Zenon, <1>3 DEF AddOp
  <2>3. Taken(s, m)
    BY <1>1, <1>2, <2>1, <2>2, ZenonT(30) DEF Taken
  <2>4. QED
    BY Zenon, <2>3
<1>4. CASE HandleControl(s)
  <2>1. PICK m \in cur[s] : handled' = handled \cup {Id(m)}
    BY <1>4, ZenonT(30) DEF HandleControl
  <2>2. /\ UNCHANGED <<next, unacked, laneVars, stored, value, consumed>>
        /\ AfterHandle(s, batch[s]) /\ spc[s] = "control"
    BY Zenon, <1>4 DEF HandleControl
  <2>3. batch[s] = <<>> /\ m.kind = "control"
    BY Zenon, <1>p, <2>2 DEF PhaseOf
  <2>4. Taken(s, m)
    BY Zenon, <1>1, <1>2, <2>1, <2>2, <2>3 DEF Taken
  <2>5. QED
    BY <2>4
<1>5. QED
  BY Zenon, <1>3, <1>4

\* The steps after publication, by what they move.
Onward ==
  \/ \E s \in Shards : Receive(s) \/ (\E m : Taken(s, m)) \/ (\E W : Commit(s, W))
  \/ Boot
  \/ Calm

LEMMA StepKinds ==
  ASSUME "panic" \notin FaultKinds, Typed, Phase, Genuine, Whole, [Next]_vars
  PROVE  (\E d \in Devices : \E m : Publishes(d, m)) \/ Onward
BY Zenon, StepCases, PublishMoves, TakenEffect, CommitEffect DEF Onward

-----------------------------------------------------------------------------
(* Numbers name messages *)

LEMMA SeenHas ==
  /\ stored \cup handled \subseteq Past
  /\ consumed \cup Past \subseteq Seen
  /\ \A s \in Shards : \A m \in Ops(s) : Id(m) \in Past
  /\ \A s \in Shards : \A m \in Ahead(s) : Id(m) \in Seen
  /\ \A d \in Devices : \A m \in unacked[d] : Id(m) \in Seen
BY Zenon DEF Seen, Past

LEMMA SeenWithin ==
  ASSUME NEW S, stored' \cup handled' \cup consumed' \subseteq S,
         \A s \in Shards : \A m \in Ops(s)' \cup Ahead(s)' : Id(m) \in S,
         \A d \in Devices : \A m \in unacked'[d] : Id(m) \in S
  PROVE  Seen' \subseteq S
BY SMTT(30) DEF Seen, Past, Id

\* Nothing enters a lane, a batch only gets what the shard has in hand, and
\* what is written was in a batch.
LEMMA OnwardMoves ==
  ASSUME Typed, Onward
  PROVE  /\ next' = next
         /\ \A s \in Shards : Ahead(s)' \subseteq Ahead(s)
         /\ Seen' \subseteq Seen
         /\ \A d \in Devices : unacked'[d] \subseteq unacked[d]
<1> USE DEF laneVars
<1>t. TypeOK
  BY Zenon DEF Typed
<1>1. ASSUME NEW s \in Shards, Receive(s)
      PROVE  /\ next' = next
             /\ \A r \in Shards : Ahead(r)' \subseteq Ahead(r)
             /\ Seen' \subseteq Seen
             /\ \A d \in Devices : unacked'[d] \subseteq unacked[d]
  <2>1. UNCHANGED <<next, unacked, batch, stored, handled, consumed>>
    BY Zenon, <1>1, ReceiveMoves
  <2>2. \A r \in Shards \ {s} : Ahead(r)' = Ahead(r)
    BY <1>1, ReceiveMoves DEF Ahead
  <2>3. Ahead(s)' \subseteq Ahead(s)
    <3>1. Len(queue[s]) \in Nat /\ Len(senders[s]) \in Nat
      BY <1>t, SMTT(30) DEF TypeOK
    <3>2. /\ \A i \in 1..Len(queue[s]) : queue[s][i] \in Ahead(s)
          /\ \A j \in 1..Len(senders[s]) : senders[s][j] \in Ahead(s)
      BY Zenon DEF Ahead
    <3>3. cur'[s] \subseteq Ahead(s)
      BY <1>1, <3>1, <3>2, ReceiveMoves, SMTT(30)
    <3>4. CASE senders[s] = <<>>
      <4>1. /\ senders'[s] = <<>> /\ Len(queue'[s]) = Len(queue[s]) - 1
            /\ \A i \in 1..Len(queue'[s]) : queue'[s][i] = queue[s][i + 1]
        BY <1>1, <3>4, ReceiveMoves
      <4>2. \A i \in 1..Len(queue'[s]) : queue'[s][i] \in Ahead(s)
        BY <3>1, <3>2, <4>1
      <4>3. QED
        BY <3>3, <4>1, <4>2, SMTT(30) DEF Ahead
    <3>5. CASE senders[s] # <<>>
      <4>1. /\ Len(senders[s]) >= 1 /\ Len(queue'[s]) = Len(queue[s])
            /\ Len(senders'[s]) = Len(senders[s]) - 1
            /\ \A i \in 1..Len(queue[s]) - 1 : queue'[s][i] = queue[s][i + 1]
            /\ queue'[s][Len(queue[s])] = senders[s][1]
            /\ \A j \in 1..Len(senders'[s]) : senders'[s][j] = senders[s][j + 1]
        BY Zenon, <1>1, <3>5, ReceiveMoves
      <4>2. ASSUME NEW i \in 1..Len(queue'[s]) PROVE queue'[s][i] \in Ahead(s)
        <5>1. CASE i = Len(queue[s])
          BY <3>1, <3>2, <4>1, <5>1
        <5>2. CASE i # Len(queue[s])
          <6>1. i \in 1..Len(queue[s]) - 1 /\ i + 1 \in 1..Len(queue[s])
            BY <3>1, <4>1, <5>2
          <6>2. QED
            BY Zenon, <3>2, <4>1, <6>1
        <5>3. QED
          BY Zenon, <5>1, <5>2
      <4>3. \A j \in 1..Len(senders'[s]) : senders'[s][j] \in Ahead(s)
        BY <3>1, <3>2, <4>1
      <4>4. QED
        BY <3>3, <4>2, <4>3, ZenonT(30) DEF Ahead
    <3>6. QED
      BY Zenon, <3>4, <3>5
  <2>4. Seen' \subseteq Seen
    <3>1. \A r \in Shards : Ops(r)' = Ops(r)
      BY Zenon, <2>1 DEF Ops
    <3>2. QED
      BY Zenon, <2>1, <2>2, <2>3, <3>1, SeenHas, SeenWithin
  <2>5. QED
    BY Zenon, <2>1, <2>2, <2>3, <2>4
<1>2. ASSUME NEW s \in Shards, NEW m, Taken(s, m)
      PROVE  /\ next' = next
             /\ \A r \in Shards : Ahead(r)' \subseteq Ahead(r)
             /\ Seen' \subseteq Seen
             /\ \A d \in Devices : unacked'[d] \subseteq unacked[d]
  <2>1. UNCHANGED <<next, unacked, laneVars, stored, consumed>> /\ m \in Ahead(s)
    BY Zenon, <1>2 DEF Taken, Ahead
  <2>2. \A r \in Shards : Ahead(r)' \subseteq Ahead(r)
    BY Zenon, <1>2, <2>1 DEF Taken, Ahead
  <2>3. Id(m) \in Seen /\ handled' \subseteq handled \cup {Id(m)}
    BY Zenon, <1>2, <2>1, SeenHas DEF Taken
  <2>4. \A r \in Shards : \A n \in Ops(r)' : n = m \/ n \in Ops(r)
    <3>1. \A r \in Shards \ {s} : Ops(r)' = Ops(r)
      BY Zenon, <1>2 DEF Taken, Ops
    <3>2. batch[s] \in Seq(Msgs) /\ m \in Msgs
      BY Zenon, <1>2, <1>t DEF Taken, TypeOK
    <3>3. CASE batch'[s] = Append(batch[s], m)
      <4>1. \A n \in Ops(s)' : n = m \/ n \in Ops(s)
        BY <3>2, <3>3, AppendItems DEF Ops
      <4>2. QED
        BY Zenon, <3>1, <4>1
    <3>4. CASE batch'[s] = <<>>
      <4>1. Ops(s)' = {}
        BY <3>4 DEF Ops
      <4>2. QED
        BY Zenon, <3>1, <4>1
    <3>5. QED
      BY Zenon, <1>2, <3>3, <3>4 DEF Taken
  <2>5. Seen' \subseteq Seen
    BY Zenon, <2>1, <2>2, <2>3, <2>4, SeenHas, SeenWithin
  <2>6. QED
    BY Zenon, <2>1, <2>2, <2>5
<1>3. ASSUME NEW s \in Shards, NEW W, Commit(s, W)
      PROVE  /\ next' = next
             /\ \A r \in Shards : Ahead(r)' \subseteq Ahead(r)
             /\ Seen' \subseteq Seen
             /\ \A d \in Devices : unacked'[d] \subseteq unacked[d]
  <2>1. UNCHANGED <<next, unacked, laneVars, cur, handled>>
    BY Zenon, <1>3 DEF Commit
  <2>2. \A r \in Shards : Ahead(r)' = Ahead(r)
    BY Zenon, <2>1 DEF Ahead
  <2>3. \A r \in Shards : \A n \in Ops(r)' : Id(n) \in Seen
    <3>1. \A r \in Shards \ {s} : Ops(r)' = Ops(r)
      BY <1>3 DEF Commit, Ops
    <3>2. \A i \in 1..Len(batch[s]) : Id(batch[s][i]) \in Seen
      BY Zenon, SeenHas DEF Ops
    <3>3. \A n \in Ops(s)' : Id(n) \in Seen
      BY <1>3, <3>2 DEF Commit, Ops
    <3>4. QED
      BY Zenon, <3>1, <3>3, SeenHas
  <2>4. stored' \subseteq Seen /\ consumed' \subseteq Seen
    <3>1. W \subseteq 1..Len(batch[s])
      BY Zenon, <1>3, LiveIndices DEF Commit
    <3>2. QED
      BY Zenon, <1>3, <3>1, SeenHas DEF Commit, Ops
  <2>5. Seen' \subseteq Seen
    BY Zenon, <2>1, <2>2, <2>3, <2>4, SeenHas, SeenWithin
  <2>6. QED
    BY Zenon, <2>1, <2>2, <2>5
<1>4. ASSUME Boot
      PROVE  /\ next' = next
             /\ \A r \in Shards : Ahead(r)' \subseteq Ahead(r)
             /\ Seen' \subseteq Seen
             /\ \A d \in Devices : unacked'[d] \subseteq unacked[d]
  <2>1. UNCHANGED <<next, unacked, stored, handled, consumed>>
    BY Zenon, <1>4 DEF Boot, dbVars, endVars
  <2>2. \A r \in Shards : Ahead(r)' = {} /\ Ops(r)' = {}
    BY <1>4 DEF Boot, Ahead, Ops
  <2>3. QED
    BY Zenon, <2>1, <2>2, SeenHas, SeenWithin
<1>5. ASSUME Calm
      PROVE  /\ next' = next
             /\ \A r \in Shards : Ahead(r)' \subseteq Ahead(r)
             /\ Seen' \subseteq Seen
             /\ \A d \in Devices : unacked'[d] \subseteq unacked[d]
  <2>1. UNCHANGED <<next, laneVars, stored, handled>> /\ consumed' \subseteq Seen
    BY Zenon, <1>5 DEF Calm
  <2>2. \A r \in Shards : Ahead(r)' \subseteq Ahead(r) /\ Ops(r)' \subseteq Ops(r)
    BY <1>5 DEF Calm, Ahead, Ops
  <2>3. \A d \in Devices : unacked'[d] \subseteq unacked[d]
    BY Zenon, <1>5 DEF Calm
  <2>4. QED
    BY Zenon, <2>1, <2>2, <2>3, SeenHas, SeenWithin
<1>6. QED
  BY Zenon, <1>1, <1>2, <1>3, <1>4, <1>5 DEF Onward

LEMMA SeenType ==
  ASSUME Typed
  PROVE  /\ Seen \subseteq Ids
         /\ \A s \in Shards : Ahead(s) \subseteq Msgs /\ Ops(s) \subseteq Msgs
<1>t. TypeOK
  BY Zenon DEF Typed
<1>1. \A s \in Shards : /\ cur[s] \subseteq Msgs
                        /\ queue[s] \in Seq(Msgs) /\ senders[s] \in Seq(Msgs)
                        /\ batch[s] \in Seq(Msgs)
  BY Zenon, <1>t DEF TypeOK
<1>2. \A s \in Shards : Ahead(s) \subseteq Msgs /\ Ops(s) \subseteq Msgs
  BY <1>1 DEF Ahead, Ops
<1>3. \A d \in Devices : unacked[d] \subseteq Msgs
  BY Zenon, <1>t DEF TypeOK
<1>4. stored \cup handled \cup consumed \subseteq Ids
  BY Zenon, <1>t DEF TypeOK
<1>5. QED
  BY Zenon, <1>2, <1>3, <1>4, IdType DEF Seen, Past

\* Publication adds one message, at the end of its lane.
LEMMA PublishAdds ==
  ASSUME Typed, NEW d \in Devices, NEW m, Publishes(d, m)
  PROVE  /\ \A s \in Shards : Ahead(s)' \subseteq Ahead(s) \cup {m}
         /\ \A s \in Shards \ {ShardOf[d]} : Ahead(s)' = Ahead(s)
         /\ Seen' \subseteq Seen \cup {Id(m)}
         /\ Past' = Past
         /\ \A e \in Devices : \A n \in unacked'[e] :
           (n = m /\ e = d) \/ (n \in unacked[e] /\ e # d)
<1> USE DEF laneVars
<1>t. TypeOK
  BY Zenon DEF Typed
<1> DEFINE s == ShardOf[d]
<1>1. s \in Shards /\ queue[s] \in Seq(Msgs) /\ senders[s] \in Seq(Msgs) /\ m \in Msgs
  BY Zenon, <1>t, PipelineAssumption DEF TypeOK, Publishes
<1>2. /\ \A r \in Shards : Ahead(r)' \subseteq Ahead(r) \cup {m}
      /\ \A r \in Shards \ {s} : Ahead(r)' = Ahead(r)
  <2>1. cur' = cur
    BY ZenonT(30) DEF Publishes
  <2>2. CASE UNCHANGED laneVars
    BY Zenon, <2>1, <2>2 DEF Ahead
  <2>3. CASE /\ queue' = [queue EXCEPT ![s] = Append(queue[s], m)]
             /\ senders' = senders
    <3>1. queue'[s] = Append(queue[s], m) /\ \A r \in Shards \ {s} : queue'[r] = queue[r]
      BY Zenon, <1>1, <1>t, <2>3 DEF TypeOK
    <3>2. \A i \in 1..Len(queue'[s]) : queue'[s][i] \in Ahead(s) \cup {m}
      BY <1>1, <3>1, AppendItems DEF Ahead
    <3>3. Ahead(s)' \subseteq Ahead(s) \cup {m}
      BY Zenon, <2>1, <2>3, <3>2 DEF Ahead
    <3>4. \A r \in Shards \ {s} : Ahead(r)' = Ahead(r)
      BY <2>1, <2>3, <3>1, SMTT(30) DEF Ahead
    <3>5. QED
      BY Zenon, <3>3, <3>4
  <2>4. CASE /\ senders' = [senders EXCEPT ![s] = Append(senders[s], m)]
             /\ queue' = queue
    <3>1. senders'[s] = Append(senders[s], m)
          /\ \A r \in Shards \ {s} : senders'[r] = senders[r]
      BY Zenon, <1>1, <1>t, <2>4 DEF TypeOK
    <3>2. \A i \in 1..Len(senders'[s]) : senders'[s][i] \in Ahead(s) \cup {m}
      BY <1>1, <3>1, AppendItems, SMTT(30) DEF Ahead
    <3>3. Ahead(s)' \subseteq Ahead(s) \cup {m}
      BY Zenon, <2>1, <2>4, <3>2 DEF Ahead
    <3>4. \A r \in Shards \ {s} : Ahead(r)' = Ahead(r)
      BY Zenon, <2>1, <2>4, <3>1 DEF Ahead
    <3>5. QED
      BY Zenon, <3>3, <3>4
  <2>5. QED
    BY Zenon, <2>2, <2>3, <2>4 DEF Publishes
<1>3. UNCHANGED <<batch, stored, handled, consumed>>
  BY Zenon DEF Publishes
<1>4. Past' = Past /\ \A r \in Shards : Ops(r)' = Ops(r)
  BY <1>3 DEF Past, Ops
<1>5. \A e \in Devices : \A n \in unacked'[e] : (n = m /\ e = d) \/ (n \in unacked[e] /\ e # d)
  <2>1. unacked' = [unacked EXCEPT ![d] = IF m.qos = 0 THEN {} ELSE {m}]
    BY DEF Publishes
  <2>2. QED
    BY Zenon, <1>t, <2>1 DEF TypeOK
<1>6. Seen' \subseteq Seen \cup {Id(m)}
  <2>1. stored' \cup handled' \cup consumed' \subseteq Seen \cup {Id(m)}
    BY Zenon, <1>3, SeenHas
  <2>2. \A r \in Shards : \A n \in Ops(r)' \cup Ahead(r)' : Id(n) \in Seen \cup {Id(m)}
    BY Zenon, <1>2, <1>4, SeenHas
  <2>3. \A e \in Devices : \A n \in unacked'[e] : Id(n) \in Seen \cup {Id(m)}
    BY Zenon, <1>5, SeenHas
  <2>4. QED
    BY <2>1, <2>2, <2>3, SeenWithin, ZenonT(30)
<1>7. QED
  BY Zenon, <1>2, <1>4, <1>5, <1>6

LEMMA GenuineStep ==
  ASSUME Typed, Genuine, (\E d \in Devices : \E m : Publishes(d, m)) \/ Onward
  PROVE  Genuine'
<1>1. CASE Onward
  <2>1. /\ next' = next /\ Seen' \subseteq Seen
        /\ \A d \in Devices : unacked'[d] \subseteq unacked[d]
    BY Zenon, <1>1, OnwardMoves
  <2>2. QED
    BY Zenon, <2>1 DEF Genuine
<1>2. ASSUME NEW d \in Devices, NEW m, Publishes(d, m)
      PROVE  Genuine'
  <2>1. /\ m \in Msgs /\ m.dev = d /\ next' = [next EXCEPT ![d] = m.seq]
        /\ \/ m.seq = next[d] + 1
           \/ m.seq = next[d] /\ Id(m) \in Seen
    BY Zenon, <1>2 DEF Publishes
  <2>2. /\ next \in [Devices -> 0..MaxSeq] /\ MaxSeq \in Nat /\ m.seq \in Nat
        /\ next[d] \in Nat
    BY <2>1, PipelineAssumption DEF Typed, TypeOK, Msgs
  <2>3. next'[d] = m.seq /\ next[d] <= next'[d]
        /\ \A e \in Devices : e # d => next'[e] = next[e]
    BY <2>1, <2>2
  <2>4. Id(m).dev = d /\ Id(m).seq = m.seq
    BY Zenon, <2>1 DEF Id
  <2>5. \A x \in Seen : x.dev \in Devices /\ x.seq \in Nat
    BY SeenType DEF Ids
  <2>6. \A x \in Seen : x.dev = d /\ x.seq = m.seq => x = Id(m)
    BY <2>1, <2>2, <2>4, <2>5, SMTT(30) DEF Genuine
  <2>7. \A x, y \in Seen' : x.dev = y.dev /\ x.seq = y.seq => x = y
    BY <1>2, <2>4, <2>6, PublishAdds, SMTT(30) DEF Genuine
  <2>8. \A x \in Seen' : x.seq <= next'[x.dev]
    <3>1. ASSUME NEW x \in Seen PROVE x.seq <= next'[x.dev]
      BY <2>2, <2>3, <2>5, SMTT(30) DEF Genuine
    <3>2. Id(m).seq <= next'[Id(m).dev]
      BY <2>2, <2>3, <2>4, SMTT(30)
    <3>3. QED
      BY Zenon, <1>2, <3>1, <3>2, PublishAdds
  <2>9. \A e \in Devices : \A n \in unacked'[e] : n.dev = e /\ n.seq = next'[e]
    BY <1>2, <2>1, <2>3, PublishAdds, SMTT(30) DEF Genuine
  <2>10. QED
    BY Zenon, <2>7, <2>8, <2>9 DEF Genuine
<1>3. QED
  BY Zenon, <1>1, <1>2

LEMMA WholeStep ==
  ASSUME Typed, Whole, (\E d \in Devices : \E m : Publishes(d, m)) \/ Onward
  PROVE  Whole'
<1>1. CASE Onward
  <2>1. /\ \A s \in Shards : Ahead(s)' \subseteq Ahead(s)
        /\ \A d \in Devices : unacked'[d] \subseteq unacked[d]
    BY <1>1, OnwardMoves, ZenonT(30)
  <2>2. QED
    BY <2>1, ZenonT(30) DEF Whole
<1>2. ASSUME NEW d \in Devices, NEW m, Publishes(d, m)
      PROVE  Whole'
  <2>1. ~m.broken
    BY Zenon, <1>2 DEF Publishes
  <2>2. QED
    BY <1>2, <2>1, PublishAdds, SMTT(30) DEF Whole
<1>3. QED
  BY <1>1, <1>2

-----------------------------------------------------------------------------
(* Lanes are in order *)

\* Ops keep their identity, and come from the shard's hands.
LEMMA OnwardOps ==
  ASSUME Typed, Onward, NEW s \in Shards, NEW n \in Ops(s)'
  PROVE  \E m \in Ops(s) \cup Ahead(s) : Id(m) = Id(n)
<1>1. CASE batch'[s] = batch[s] \/ batch'[s] = <<>>
  BY <1>1 DEF Ops
<1>2. ASSUME NEW r \in Shards, NEW m, Taken(r, m), batch'[s] # batch[s], batch'[s] # <<>>
      PROVE  \E k \in Ops(s) \cup Ahead(s) : Id(k) = Id(n)
  <2>1. r = s /\ batch'[s] = Append(batch[s], m) /\ m \in Ahead(s)
    BY Zenon, <1>2 DEF Taken, Ahead
  <2>2. batch[s] \in Seq(Msgs) /\ m \in Msgs
    BY Zenon, <2>1, SeenType DEF Typed, TypeOK
  <2>3. n = m \/ n \in Ops(s)
    BY <2>1, <2>2, AppendItems DEF Ops
  <2>4. QED
    BY Zenon, <2>1, <2>3
<1>3. ASSUME NEW r \in Shards, NEW W, Commit(r, W), batch'[s] # batch[s]
      PROVE  \E k \in Ops(s) \cup Ahead(s) : Id(k) = Id(n)
  <2>1. /\ r = s /\ Len(batch'[s]) = Len(batch[s])
        /\ \A i \in 1..Len(batch[s]) : Id(batch'[s][i]) = Id(batch[s][i])
    BY Zenon, <1>3 DEF Commit
  <2>2. QED
    BY Zenon, <2>1 DEF Ops
<1>4. ASSUME NEW r \in Shards, Receive(r)
      PROVE  batch'[s] = batch[s]
  BY Zenon, <1>4, ReceiveMoves
<1>5. ASSUME Boot \/ Calm
      PROVE  batch'[s] = batch[s] \/ batch'[s] = <<>>
  BY Zenon, <1>5 DEF Boot, Calm
<1>6. QED
  BY Zenon, <1>1, <1>2, <1>3, <1>4, <1>5 DEF Onward

LEMMA OwnLaneStep ==
  ASSUME Typed, OwnLane, (\E d \in Devices : \E m : Publishes(d, m)) \/ Onward
  PROVE  OwnLane'
<1>1. CASE Onward
  <2>1. ASSUME NEW s \in Shards, NEW n \in Ahead(s)'
        PROVE  ShardOf[n.dev] = s
    BY Zenon, <1>1, <2>1, OnwardMoves DEF OwnLane
  <2>2. ASSUME NEW s \in Shards, NEW n \in Ops(s)'
        PROVE  ShardOf[n.dev] = s
    <3>1. PICK m \in Ops(s) \cup Ahead(s) : Id(m) = Id(n)
      BY Zenon, <1>1, <2>2, OnwardOps
    <3>2. m.dev = n.dev
      BY Zenon, <3>1 DEF Id
    <3>3. QED
      BY Zenon, <3>1, <3>2 DEF OwnLane
  <2>3. QED
    BY Zenon, <2>1, <2>2 DEF OwnLane
<1>2. ASSUME NEW d \in Devices, NEW m, Publishes(d, m)
      PROVE  OwnLane'
  <2>1. m.dev = d /\ \A s \in Shards : Ops(s)' = Ops(s)
    BY <1>2 DEF Publishes, Ops
  <2>2. QED
    BY <1>2, <2>1, PublishAdds DEF OwnLane
<1>3. QED
  BY <1>1, <1>2

LEMMA SortedAppend ==
  ASSUME NEW q \in Seq(Msgs), NEW m \in Msgs, Sorted(q),
         \A i \in 1..Len(q) : Follows(m, q[i])
  PROVE  Sorted(Append(q, m))
<1> SUFFICES ASSUME NEW i \in 1..Len(Append(q, m)), NEW j \in 1..Len(Append(q, m)), i < j
             PROVE  Follows(Append(q, m)[j], Append(q, m)[i])
  BY Zenon DEF Sorted
<1>1. i \in 1..Len(q) /\ Append(q, m)[i] = q[i]
  BY AppendItems
<1>2. CASE j \in 1..Len(q)
  BY <1>1, <1>2, AppendItems DEF Sorted
<1>3. CASE j = Len(q) + 1
  BY Zenon, <1>1, <1>3, AppendItems
<1>4. QED
  BY Zenon, <1>2, <1>3, AppendItems

\* The message a device publishes is not older than any trace of it.
LEMMA PublishFollows ==
  ASSUME Typed, Genuine, NEW d \in Devices, NEW m, Publishes(d, m)
  PROVE  /\ \A x \in Seen : Follows(m, x)
         /\ \A s \in Shards : \A n \in Ahead(s) : Follows(m, n)
<1>1. /\ m \in Msgs /\ m.dev = d
      /\ m.seq = next[d] + 1 \/ m.seq = next[d]
  BY Zenon DEF Publishes
<1>2. next[d] \in Nat /\ m.seq \in Nat
  BY <1>1, PipelineAssumption DEF Typed, TypeOK, Msgs
<1>3. \A x \in Seen : x.seq \in Nat
  BY SeenType DEF Ids
<1>4. \A x \in Seen : Follows(m, x)
  BY <1>1, <1>2, <1>3 DEF Genuine, Follows
<1>5. ASSUME NEW s \in Shards, NEW n \in Ahead(s)
      PROVE  Follows(m, n)
  <2>1. Id(n) \in Seen /\ Id(n).dev = n.dev /\ Id(n).seq = n.seq
    BY Zenon, <1>5, SeenHas DEF Id
  <2>2. QED
    BY Zenon, <1>4, <2>1 DEF Follows
<1>6. QED
  BY Zenon, <1>4, <1>5

LEMMA LaneReceives ==
  ASSUME Typed, Lanes, NEW s \in Shards, Receive(s)
  PROVE  Lanes'
<1> DEFINE L == Len(queue[s])
           K == Len(senders[s])
<1>1. L \in Nat /\ K \in Nat /\ L >= 1 /\ cur'[s] = {queue[s][1]}
  <2>1. L \in Nat /\ K \in Nat
    BY DEF Typed, TypeOK
  <2>2. QED
    BY Zenon, <2>1, ReceiveMoves
<1>2. LaneOf(s)
  BY Zenon DEF Lanes
<1>o. \A r \in Shards \ {s} : LaneOf(r)'
  <2>1. \A r \in Shards \ {s} :
          cur'[r] = cur[r] /\ queue'[r] = queue[r] /\ senders'[r] = senders[r]
    BY Zenon, ReceiveMoves
  <2>2. QED
    BY Zenon, <2>1 DEF Lanes, LaneOf
<1>3. CASE senders[s] = <<>>
  <2>1. /\ senders'[s] = <<>> /\ Len(queue'[s]) = L - 1
        /\ \A i \in 1..L - 1 : queue'[s][i] = queue[s][i + 1]
    BY <1>3, ReceiveMoves
  <2>2. Sorted(queue'[s])
    BY <1>1, <1>2, <2>1 DEF LaneOf, Sorted
  <2>3. \A i \in 1..Len(queue'[s]) : Follows(queue'[s][i], queue[s][1])
    BY <1>1, <1>2, <2>1 DEF LaneOf, Sorted
  <2>4. LaneOf(s)'
    BY <1>1, <2>1, <2>2, <2>3 DEF LaneOf, Sorted
  <2>5. QED
    BY Zenon, <1>o, <2>4 DEF Lanes
<1>4. CASE senders[s] # <<>>
  <2>1. /\ K >= 1 /\ Len(queue'[s]) = L /\ Len(senders'[s]) = K - 1
        /\ \A i \in 1..L - 1 : queue'[s][i] = queue[s][i + 1]
        /\ queue'[s][L] = senders[s][1]
        /\ \A j \in 1..K - 1 : senders'[s][j] = senders[s][j + 1]
    BY <1>4, ReceiveMoves, ZenonT(30)
  <2>2. /\ \A i, j \in 1..L : i < j => Follows(queue[s][j], queue[s][i])
        /\ \A i, j \in 1..K : i < j => Follows(senders[s][j], senders[s][i])
        /\ \A i \in 1..L, j \in 1..K : Follows(senders[s][j], queue[s][i])
        /\ L >= ShardQueue
    BY Zenon, <1>2, <1>4 DEF LaneOf, Sorted
  <2> HIDE DEF L, K
  <2>3. \A i, j \in 1..L : i < j => Follows(queue'[s][j], queue'[s][i])
    <3>1. ASSUME NEW i \in 1..L, NEW j \in 1..L, i < j
          PROVE  Follows(queue'[s][j], queue'[s][i])
      <4>1. i \in 1..L - 1 /\ i + 1 \in 1..L /\ 1 \in 1..K
        BY <1>1, <2>1, <3>1
      <4>2. CASE j = L
        BY Zenon, <2>1, <2>2, <4>1, <4>2
      <4>3. CASE j # L
        <5>1. j \in 1..L - 1 /\ j + 1 \in 1..L /\ i + 1 < j + 1
          BY <1>1, <3>1, <4>3
        <5>2. QED
          BY Zenon, <2>1, <2>2, <4>1, <5>1
      <4>4. QED
        BY Zenon, <4>2, <4>3
    <3>2. QED
      BY Zenon, <3>1
  <2>4. \A i, j \in 1..K - 1 : i < j => Follows(senders'[s][j], senders'[s][i])
    BY <1>1, <2>1, <2>2
  <2>5. \A i \in 1..L, j \in 1..K - 1 : Follows(senders'[s][j], queue'[s][i])
    <3>1. ASSUME NEW i \in 1..L, NEW j \in 1..K - 1
          PROVE  Follows(senders'[s][j], queue'[s][i])
      <4>1. j + 1 \in 1..K /\ 1 \in 1..K /\ 1 < j + 1
        BY <1>1, <2>1
      <4>2. CASE i = L
        BY Zenon, <2>1, <2>2, <4>1, <4>2
      <4>3. CASE i # L
        <5>1. i \in 1..L - 1 /\ i + 1 \in 1..L
          BY <1>1, <4>3
        <5>2. QED
          BY Zenon, <2>1, <2>2, <4>1, <5>1
      <4>4. QED
        BY Zenon, <4>2, <4>3
    <3>2. QED
      BY Zenon, <3>1
  <2>6. /\ \A i \in 1..L : Follows(queue'[s][i], queue[s][1])
        /\ \A j \in 1..K - 1 : Follows(senders'[s][j], queue[s][1])
    <3>1. ASSUME NEW i \in 1..L
          PROVE  Follows(queue'[s][i], queue[s][1])
      <4>1. 1 \in 1..L /\ 1 \in 1..K
        BY <1>1, <2>1
      <4>2. CASE i = L
        BY Zenon, <2>1, <2>2, <4>1, <4>2
      <4>3. CASE i # L
        <5>1. i \in 1..L - 1 /\ i + 1 \in 1..L /\ 1 < i + 1
          BY <1>1, <4>3
        <5>2. QED
          BY Zenon, <2>1, <2>2, <4>1, <5>1
      <4>4. QED
        BY Zenon, <4>2, <4>3
    <3>2. \A j \in 1..K - 1 : Follows(senders'[s][j], queue[s][1])
      BY <1>1, <2>1, <2>2
    <3>3. QED
      BY Zenon, <3>1, <3>2
  <2>7. LaneOf(s)'
    BY Zenon, <1>1, <2>1, <2>2, <2>3, <2>4, <2>5, <2>6 DEF LaneOf, Sorted
  <2>8. QED
    BY Zenon, <1>o, <2>7 DEF Lanes
<1>5. QED
  BY Zenon, <1>3, <1>4

LEMMA LanesStep ==
  ASSUME Typed, Genuine, Lanes, (\E d \in Devices : \E m : Publishes(d, m)) \/ Onward
  PROVE  Lanes'
<1> USE DEF laneVars
<1>1. ASSUME NEW d \in Devices, NEW m, Publishes(d, m)
      PROVE  Lanes'
  <2> DEFINE s == ShardOf[d]
  <2>1. s \in Shards /\ queue[s] \in Seq(Msgs) /\ senders[s] \in Seq(Msgs) /\ m \in Msgs
        /\ queue \in [Shards -> Seq(Msgs)] /\ senders \in [Shards -> Seq(Msgs)]
    BY <1>1, PipelineAssumption, ZenonT(30) DEF Typed, TypeOK, Publishes
  <2>2. LaneOf(s) /\ cur' = cur
    BY Zenon, <1>1, <2>1 DEF Lanes, Publishes
  <2>3. /\ \A i \in 1..Len(queue[s]) : Follows(m, queue[s][i])
        /\ \A i \in 1..Len(senders[s]) : Follows(m, senders[s][i])
        /\ \A n \in cur[s] : Follows(m, n)
    BY Zenon, <1>1, <2>1, PublishFollows DEF Ahead
  <2>4. CASE UNCHANGED laneVars
    BY Zenon, <2>2, <2>4 DEF Lanes, LaneOf
  <2>5. CASE /\ Len(queue[s]) < ShardQueue
             /\ queue' = [queue EXCEPT ![s] = Append(queue[s], m)]
             /\ senders' = senders
    <3>1. queue'[s] = Append(queue[s], m) /\ \A r \in Shards \ {s} : queue'[r] = queue[r]
      BY Zenon, <2>1, <2>5
    <3>2. senders[s] = <<>>
      BY <2>1, <2>2, <2>5, PipelineAssumption, SMTT(30) DEF LaneOf
    <3>3. Sorted(queue'[s])
      BY <2>1, <2>2, <2>3, <3>1, SortedAppend, ZenonT(30) DEF LaneOf
    <3>4. \A n \in cur[s] : \A i \in 1..Len(queue'[s]) : Follows(queue'[s][i], n)
      BY <2>1, <2>2, <2>3, <3>1, AppendItems DEF LaneOf
    <3>5. Sorted(senders'[s]) /\ senders'[s] = <<>> /\ Len(senders'[s]) = 0
      BY Zenon, <2>2, <2>5, <3>2 DEF LaneOf
    <3>6. LaneOf(s)'
      BY <2>2, <3>3, <3>4, <3>5, SMTT(30) DEF LaneOf
    <3>7. QED
      BY Zenon, <2>2, <2>5, <3>1, <3>6 DEF Lanes, LaneOf
  <2>6. CASE /\ Len(queue[s]) >= ShardQueue
             /\ senders' = [senders EXCEPT ![s] = Append(senders[s], m)]
             /\ queue' = queue
    <3>1. /\ senders'[s] = Append(senders[s], m)
          /\ \A r \in Shards \ {s} : senders'[r] = senders[r]
      BY Zenon, <2>1, <2>6
    <3>2. Sorted(senders'[s])
      BY Zenon, <2>1, <2>2, <2>3, <3>1, SortedAppend DEF LaneOf
    <3>3. \A i \in 1..Len(queue[s]), j \in 1..Len(senders'[s]) :
            Follows(senders'[s][j], queue[s][i])
      BY <2>1, <2>2, <2>3, <3>1, AppendItems DEF LaneOf
    <3>4. \A n \in cur[s] : \A j \in 1..Len(senders'[s]) : Follows(senders'[s][j], n)
      BY <2>1, <2>2, <2>3, <3>1, AppendItems DEF LaneOf
    <3>5. LaneOf(s)'
      BY Zenon, <2>2, <2>6, <3>2, <3>3, <3>4 DEF LaneOf
    <3>6. QED
      BY Zenon, <2>2, <2>6, <3>1, <3>5 DEF Lanes, LaneOf
  <2>7. QED
    BY Zenon, <1>1, <2>4, <2>5, <2>6 DEF Publishes
<1>2. ASSUME UNCHANGED laneVars, \A s \in Shards : cur'[s] \subseteq cur[s]
      PROVE  Lanes'
  BY Zenon, <1>2 DEF Lanes, LaneOf
<1>3. ASSUME NEW s \in Shards, (\E m : Taken(s, m)) \/ (\E W : Commit(s, W))
      PROVE  Lanes'
  BY Zenon, <1>2, <1>3 DEF Taken, Commit
<1>4. CASE Calm
  BY Zenon, <1>2, <1>4 DEF Calm
<1>5. CASE Boot
  BY <1>5 DEF Boot, Lanes, LaneOf, Sorted
<1>6. QED
  BY Zenon, <1>1, <1>3, <1>4, <1>5, LaneReceives DEF Onward

\* Only what the shard has in hand comes out of a lane.
LEMMA OnwardPast ==
  ASSUME Typed, Onward
  PROVE  \/ Past' \subseteq Past
         \/ \E s \in Shards : \E m : Taken(s, m) /\ Past' \subseteq Past \cup {Id(m)}
<1> USE DEF laneVars
<1>0. ASSUME NEW S, stored' \cup handled' \subseteq S,
             \A s \in Shards : \A n \in Ops(s)' : Id(n) \in S
      PROVE  Past' \subseteq S
  BY Zenon, <1>0 DEF Past, Id
<1>1. ASSUME NEW s \in Shards, Receive(s)
      PROVE  Past' \subseteq Past
  BY <1>1, ReceiveMoves DEF Past, Ops
<1>2. ASSUME NEW s \in Shards, NEW m, Taken(s, m)
      PROVE  Past' \subseteq Past \cup {Id(m)}
  <2>1. stored' \cup handled' \subseteq Past \cup {Id(m)}
    BY Zenon, <1>2, SeenHas DEF Taken
  <2>2. \A r \in Shards \ {s} : Ops(r)' = Ops(r)
    BY <1>2 DEF Taken, Ops
  <2>3. \A n \in Ops(s)' : n = m \/ n \in Ops(s)
    <3>1. batch[s] \in Seq(Msgs) /\ m \in Msgs
      BY Zenon, <1>2 DEF Taken, Typed, TypeOK
    <3>2. CASE batch'[s] = Append(batch[s], m)
      BY <3>1, <3>2, AppendItems DEF Ops
    <3>3. CASE batch'[s] = <<>>
      BY <3>3 DEF Ops
    <3>4. QED
      BY Zenon, <1>2, <3>2, <3>3 DEF Taken
  <2>4. \A r \in Shards : \A n \in Ops(r)' : Id(n) \in Past \cup {Id(m)}
    BY Zenon, <2>2, <2>3, SeenHas
  <2>5. QED
    BY <1>0, <2>1, <2>4, ZenonT(30)
<1>3. ASSUME NEW s \in Shards, NEW W, Commit(s, W)
      PROVE  Past' \subseteq Past
  <2>1. \A i \in 1..Len(batch[s]) : Id(batch[s][i]) \in Past
    BY Zenon, SeenHas DEF Ops
  <2>2. W \subseteq 1..Len(batch[s])
    BY Zenon, <1>3, LiveIndices DEF Commit
  <2>3. stored' \cup handled' \subseteq Past
    BY Zenon, <1>3, <2>1, <2>2, SeenHas DEF Commit
  <2>4. \A r \in Shards \ {s} : Ops(r)' = Ops(r)
    BY <1>3 DEF Commit, Ops
  <2>5. \A n \in Ops(s)' : Id(n) \in Past
    BY <1>3, <2>1 DEF Commit, Ops
  <2>6. \A r \in Shards : \A n \in Ops(r)' : Id(n) \in Past
    BY Zenon, <2>4, <2>5, SeenHas
  <2>7. QED
    BY Zenon, <1>0, <2>3, <2>6
<1>4. ASSUME Boot \/ Calm
      PROVE  Past' \subseteq Past
  <2>1. UNCHANGED <<stored, handled>>
    BY Zenon, <1>4 DEF Boot, Calm, dbVars, endVars
  <2>2. \A r \in Shards : Ops(r)' \subseteq Ops(r)
    BY <1>4 DEF Boot, Calm, Ops
  <2>3. QED
    BY Zenon, <1>0, <2>1, <2>2, SeenHas
<1>5. QED
  BY Zenon, <1>1, <1>2, <1>3, <1>4 DEF Onward

LEMMA PastFirstStep ==
  ASSUME Typed, Genuine, OwnLane, Lanes, PastFirst,
         (\E d \in Devices : \E m : Publishes(d, m)) \/ Onward
  PROVE  PastFirst'
<1> USE DEF laneVars
<1>1. ASSUME NEW d \in Devices, NEW m, Publishes(d, m)
      PROVE  PastFirst'
  BY <1>1, PublishAdds, PublishFollows, SeenHas, SMTT(30) DEF PastFirst
<1>2. CASE Onward /\ Past' \subseteq Past
  BY Zenon, <1>2, OnwardMoves DEF PastFirst
<1>3. ASSUME NEW s \in Shards, NEW m, Taken(s, m), Past' \subseteq Past \cup {Id(m)}
      PROVE  PastFirst'
  <2>1. m \in cur[s] /\ m \in Ahead(s) /\ Id(m).dev = m.dev /\ Id(m).seq = m.seq
    BY Zenon, <1>3 DEF Taken, Ahead, Id
  <2>2. \A r \in Shards : Ahead(r)' \subseteq Ahead(r)
    BY Zenon, <1>3, OnwardMoves DEF Onward
  <2>3. ASSUME NEW r \in Shards, NEW n \in Ahead(r)'
        PROVE  Follows(n, Id(m))
    <3>1. CASE r = s
      <4>1. \/ \E i \in 1..Len(queue[s]) : n = queue[s][i]
            \/ \E i \in 1..Len(senders[s]) : n = senders[s][i]
        BY Zenon, <1>3, <2>3, <3>1 DEF Taken, Ahead
      <4>2. Follows(n, m)
        BY Zenon, <2>1, <4>1 DEF Lanes, LaneOf
      <4>3. QED
        BY Zenon, <2>1, <4>2 DEF Follows
    <3>2. CASE r # s
      <4>1. n.dev # m.dev
        BY <2>1, <2>2, <2>3, <3>2 DEF OwnLane
      <4>2. QED
        BY Zenon, <2>1, <4>1 DEF Follows
    <3>3. QED
      BY Zenon, <3>1, <3>2
  <2>4. QED
    BY Zenon, <1>3, <2>2, <2>3 DEF PastFirst
<1>4. QED
  BY Zenon, <1>1, <1>2, <1>3, OnwardPast

-----------------------------------------------------------------------------
(* Batches are in order *)

LEMMA ControlOnlyStep ==
  ASSUME Typed, ControlOnly, (\E d \in Devices : \E m : Publishes(d, m)) \/ Onward
  PROVE  ControlOnly'
<1>1. \/ handled' = handled
      \/ \E m : m.kind = "control" /\ handled' = handled \cup {Id(m)}
  BY ReceiveMoves, ZenonT(30) DEF Onward, Publishes, Taken, Commit, Boot, Calm, endVars
<1>2. \A m : Id(m).kind = m.kind
  BY Zenon DEF Id
<1>3. QED
  BY Zenon, <1>1, <1>2 DEF ControlOnly

\* A batch that is kept or dropped, next to a database that got nothing for its
\* devices that it did not have.
LEMMA BatchKept ==
  ASSUME Typed, Batches, NEW s \in Shards,
         batch'[s] = <<>> \/ (batch'[s] = batch[s] /\ slice[s] <= slice'[s]),
         stored \subseteq stored',
         \A y \in stored' \ stored : ShardOf[y.dev] # s,
         \A y \in handled' \ handled : ShardOf[y.dev] # s,
         \A m \in Ops(s) : ShardOf[m.dev] = s,
         slice'[s] \in Nat
  PROVE  BatchOf(s)'
<1>1. CASE batch'[s] = <<>>
  BY <1>1 DEF BatchOf, Sorted
<1>2. CASE batch'[s] = batch[s] /\ slice[s] <= slice'[s]
  <2>1. BatchOf(s) /\ slice[s] \in Nat /\ Len(batch[s]) \in Nat
    BY Zenon, SliceFacts DEF Batches, Typed
  <2>2. \A i \in 1..Len(batch[s]) : ShardOf[batch[s][i].dev] = s
    BY Zenon DEF Ops
  <2>3. \A i \in 1..Len(batch[s]) : Pending(s, i)' => Pending(s, i)
    BY <1>2, <2>1 DEF Pending
  <2>4. QED
    BY Zenon, <1>2, <2>1, <2>2, <2>3 DEF BatchOf
<1>3. QED
  BY Zenon, <1>1, <1>2

\* The message in hand joins a batch of older ones.
LEMMA BatchTakes ==
  ASSUME Typed, Genuine, OwnLane, PastFirst, Batches, ControlOnly,
         NEW s \in Shards, NEW m, Taken(s, m)
  PROVE  Batches'
<1>1. m \in Ahead(s) /\ m \in Msgs /\ Id(m) \in Seen /\ ShardOf[m.dev] = s
  BY Zenon, SeenType, SeenHas DEF Taken, Ahead, OwnLane
<1>2. /\ stored' = stored /\ handled' \subseteq handled \cup {Id(m)}
      /\ \A r \in Shards : slice'[r] = slice[r]
  BY Zenon DEF Taken
<1>3. Id(m).dev = m.dev /\ Id(m).seq = m.seq /\ Id(m).kind = m.kind
  BY Zenon DEF Id
<1>4. ASSUME NEW r \in Shards, r # s
      PROVE  BatchOf(r)'
  <2>1. batch'[r] = batch[r] /\ slice'[r] = slice[r] /\ slice[r] \in Nat
    BY Zenon, <1>4, SliceFacts DEF Taken, Typed
  <2>2. \A y \in handled' \ handled : ShardOf[y.dev] # r
    BY Zenon, <1>1, <1>2, <1>3, <1>4
  <2>3. \A n \in Ops(r) : ShardOf[n.dev] = r
    BY Zenon DEF OwnLane
  <2>4. QED
    BY <1>2, <1>4, <2>1, <2>2, <2>3, BatchKept
<1>5. BatchOf(s)'
  <2>1. CASE batch'[s] = <<>>
    BY <2>1 DEF BatchOf, Sorted
  <2>2. CASE /\ m.kind # "control" /\ batch'[s] = Append(batch[s], m)
             /\ handled' = handled
    <3>1. BatchOf(s) /\ batch[s] \in Seq(Msgs) /\ Len(batch[s]) \in Nat
      BY Zenon, SliceFacts DEF Batches, Typed, TypeOK
    <3>2. \A i \in 1..Len(batch[s]) : Follows(m, batch[s][i])
      <4>1. \A x \in Past : Follows(m, x)
        BY Zenon, <1>1 DEF PastFirst
      <4>2. \A n \in Ops(s) : Id(n) \in Past /\ Id(n).dev = n.dev /\ Id(n).seq = n.seq
        BY SeenHas, ZenonT(30) DEF Id
      <4>3. QED
        BY <4>1, <4>2, ZenonT(30) DEF Ops, Follows
    <3>3. Sorted(batch'[s])
      BY Zenon, <1>1, <2>2, <3>1, <3>2, SortedAppend DEF BatchOf
    <3>4. /\ \A y \in handled : y.dev = m.dev => y.seq < m.seq
          /\ Id(m) \notin stored =>
               \A y \in stored : y.dev = m.dev => y.seq < m.seq
      <4>1. \A y \in handled \cup stored : Follows(m, y) /\ y \in Seen
        BY Zenon, <1>1, SeenHas DEF PastFirst
      <4>2. \A y \in handled \cup stored : y.dev = m.dev /\ y.seq = m.seq => y = Id(m)
        BY <1>1, <1>3, <4>1 DEF Genuine
      <4>3. \A y \in handled \cup stored : y.seq \in Nat
        BY <4>1, SeenType, SMTT(30) DEF Ids
      <4>4. m.seq \in Nat /\ Id(m) \notin handled
        BY <1>1, <1>3, <2>2, SMTT(30) DEF Msgs, ControlOnly
      <4>5. QED
        BY <4>1, <4>2, <4>3, <4>4, SMTT(30) DEF Follows
    <3>5. ASSUME NEW i \in 1..Len(batch'[s])
          PROVE  /\ batch'[s][i].kind # "control"
                 /\ \A y \in handled' : y.dev = batch'[s][i].dev => y.seq < batch'[s][i].seq
                 /\ Pending(s, i)' =>
                      \A y \in stored' :
                        y.dev = batch'[s][i].dev /\ y.kind = batch'[s][i].kind
                          => y.seq < batch'[s][i].seq
      <4>1. CASE i \in 1..Len(batch[s])
        <5>1. batch'[s][i] = batch[s][i]
          BY <1>1, <2>2, <3>1, <4>1, AppendItems
        <5>2. Pending(s, i)' => Pending(s, i)
          BY Zenon, <1>2, <5>1 DEF Pending
        <5>3. QED
          BY Zenon, <1>2, <2>2, <3>1, <4>1, <5>1, <5>2 DEF BatchOf
      <4>2. CASE i = Len(batch[s]) + 1
        <5>1. batch'[s][i] = m
          BY <1>1, <2>2, <3>1, <4>2, AppendItems
        <5>2. Pending(s, i)' => Id(m) \notin stored
          BY Zenon, <1>2, <5>1 DEF Pending
        <5>3. QED
          BY Zenon, <1>2, <2>2, <3>4, <5>1, <5>2
      <4>3. QED
        BY Zenon, <1>1, <2>2, <3>1, <4>1, <4>2, AppendItems
    <3>6. QED
      BY Zenon, <3>3, <3>5 DEF BatchOf
  <2>3. QED
    BY Zenon, <2>1, <2>2 DEF Taken
<1>6. QED
  BY Zenon, <1>4, <1>5 DEF Batches

\* What a commit adds to the database comes from the ops of its shard.
LEMMA CommitAdds ==
  ASSUME Typed, OwnLane, NEW s \in Shards, NEW W, Commit(s, W)
  PROVE  /\ W \subseteq 1..Len(batch[s])
         /\ \A y \in stored' \ stored : \E i \in W : y = Id(batch[s][i])
         /\ \A y \in stored' \ stored : ShardOf[y.dev] = s
         /\ stored \subseteq stored' /\ handled' = handled
<1>1. W \subseteq 1..Len(batch[s])
  BY Zenon, LiveIndices DEF Commit
<1>2. \A y \in stored' \ stored : \E i \in W : y = Id(batch[s][i])
  BY Zenon DEF Commit
<1>3. \A i \in W : ShardOf[Id(batch[s][i]).dev] = s
  BY Zenon, <1>1 DEF OwnLane, Ops, Id
<1>4. QED
  BY <1>1, <1>2, <1>3 DEF Commit

LEMMA BatchCommits ==
  ASSUME Typed, Genuine, OwnLane, Batches, NEW s \in Shards, NEW W, Commit(s, W),
         \A r \in Shards : slice'[r] \in Nat
  PROVE  Batches'
<1>1. ASSUME NEW r \in Shards, r # s
      PROVE  BatchOf(r)'
  <2>1. batch'[r] = batch[r] /\ slice'[r] = slice[r] /\ slice[r] \in Nat
    BY Zenon, <1>1, SliceFacts DEF Commit, Typed
  <2>2. /\ \A y \in stored' \ stored : ShardOf[y.dev] # r
        /\ \A n \in Ops(r) : ShardOf[n.dev] = r
    BY Zenon, <1>1, CommitAdds DEF OwnLane
  <2>3. QED
    BY <1>1, <2>1, <2>2, CommitAdds, BatchKept
<1>2. BatchOf(s)'
  <2>1. /\ BatchOf(s) /\ Len(batch[s]) \in Nat /\ slice[s] \in Nat
        /\ \A i \in 1..Len(batch[s]) : batch[s][i] \in Msgs
    BY Zenon, SliceFacts DEF Batches, Typed
  <2>2. /\ Len(batch'[s]) = Len(batch[s]) /\ slice[s] <= slice'[s]
        /\ \A i \in 1..Len(batch[s]) :
             /\ Id(batch'[s][i]) = Id(batch[s][i])
             /\ batch[s][i].broken => batch'[s][i].broken
    BY Zenon DEF Commit
  <2>3. \A i \in 1..Len(batch[s]) :
          /\ batch'[s][i].dev = batch[s][i].dev /\ batch'[s][i].seq = batch[s][i].seq
          /\ batch'[s][i].kind = batch[s][i].kind
    BY <2>2, ZenonT(30) DEF Id
  <2>4. Sorted(batch'[s])
    BY Zenon, <2>1, <2>2, <2>3 DEF BatchOf, Sorted, Follows
  <2>5. ASSUME NEW k \in 1..Len(batch[s]), Pending(s, k)', NEW y \in stored',
               y.dev = batch[s][k].dev, y.kind = batch[s][k].kind
        PROVE  y.seq < batch[s][k].seq
    <3>1. /\ slice[s] <= k /\ ~batch'[s][k].broken /\ Id(batch[s][k]) \notin stored'
          /\ Pending(s, k)
      BY <2>1, <2>2, <2>5, CommitAdds, SMTT(30) DEF Pending
    <3>2. CASE y \in stored
      BY Zenon, <2>1, <2>5, <3>1, <3>2 DEF BatchOf
    <3>3. CASE y \notin stored
      <4>1. PICK i \in W : y = Id(batch[s][i])
        BY <2>5, <3>3, CommitAdds, SMTT(30)
      <4>2. /\ i \in 1..Len(batch[s]) /\ y.dev = batch[s][i].dev /\ y.seq = batch[s][i].seq
            /\ y.kind = batch[s][i].kind
        BY Zenon, <4>1, CommitAdds DEF Id
      <4>3. k \notin W
        BY Zenon, <3>1 DEF Commit
      <4>4. i < k
        BY <2>5, <3>1, <4>2, <4>3, ZenonT(30) DEF Commit
      <4>5. y.seq <= batch[s][k].seq
        BY <2>1, <2>5, <4>2, <4>4, ZenonT(30) DEF BatchOf, Sorted, Follows
      <4>6. y \in Seen /\ Id(batch[s][k]) \in Seen
        BY Zenon, <2>5, <4>1, <4>2, SeenHas DEF Ops
      <4>7. y.seq # batch[s][k].seq
        <5>1. y # Id(batch[s][k]) /\ Id(batch[s][k]).dev = y.dev
              /\ Id(batch[s][k]).seq = batch[s][k].seq
          BY Zenon, <2>5, <3>1 DEF Id
        <5>2. QED
          BY <4>6, <5>1 DEF Genuine
      <4>8. y.seq \in Nat /\ batch[s][k].seq \in Nat
        BY <2>1, <4>2 DEF Msgs
      <4>9. QED
        BY <4>5, <4>7, <4>8
    <3>4. QED
      BY Zenon, <3>2, <3>3
  <2>6. QED
    BY Zenon, <2>1, <2>2, <2>3, <2>4, <2>5, CommitAdds DEF BatchOf
<1>3. QED
  BY Zenon, <1>1, <1>2 DEF Batches

\* Steps that write nothing.
LEMMA BatchesKept ==
  ASSUME Typed, Batches, OwnLane, stored' = stored, handled' = handled,
         \A s \in Shards :
           /\ batch'[s] = <<>> \/ (batch'[s] = batch[s] /\ slice[s] <= slice'[s])
           /\ slice'[s] \in Nat
  PROVE  Batches'
BY Zenon, BatchKept DEF Batches, OwnLane

LEMMA BatchesStep ==
  ASSUME Typed, Typed', Genuine, OwnLane, PastFirst, Batches, ControlOnly,
         (\E d \in Devices : \E m : Publishes(d, m)) \/ Onward
  PROVE  Batches'
<1>1. \A s \in Shards : slice[s] \in Nat /\ slice'[s] \in Nat /\ slice[s] <= slice[s]
  BY SMTT(30) DEF Typed, TypeOK
<1>2. ASSUME NEW d \in Devices, NEW m, Publishes(d, m)
      PROVE  Batches'
  BY Zenon, <1>1, <1>2, BatchesKept DEF Publishes
<1>3. ASSUME NEW s \in Shards, Receive(s)
      PROVE  Batches'
  BY Zenon, <1>1, <1>3, ReceiveMoves, BatchesKept
<1>4. CASE Boot
  BY Zenon, <1>1, <1>4, BatchesKept DEF Boot, dbVars, endVars
<1>5. CASE Calm
  BY Zenon, <1>1, <1>5, BatchesKept DEF Calm
<1>6. QED
  BY <1>1, <1>2, <1>3, <1>4, <1>5, BatchTakes, BatchCommits, ZenonT(30) DEF Onward

-----------------------------------------------------------------------------
(* The last value wins *)

LEMMA RewrittenKept ==
  ASSUME NEW s \in Shards, Rewritten, OwnLane,
         batch'[s] = batch[s] \/ batch'[s] = <<>>,
         consumed \subseteq consumed',
         \A y \in stored' \ stored : ShardOf[y.dev] # s
  PROVE  RewrittenOf(s)'
<1>1. CASE batch'[s] = <<>>
  BY <1>1 DEF RewrittenOf
<1>2. CASE batch'[s] = batch[s]
  <2>1. RewrittenOf(s) /\ \A i \in 1..Len(batch[s]) : ShardOf[batch[s][i].dev] = s
    BY Zenon DEF Rewritten, OwnLane, Ops
  <2>2. QED
    BY <1>2, <2>1 DEF RewrittenOf
<1>3. QED
  BY Zenon, <1>1, <1>2

LEMMA RewrittenTakes ==
  ASSUME Typed, OwnLane, Whole, PastFirst, Rewritten, NEW s \in Shards, NEW m, Taken(s, m)
  PROVE  Rewritten'
<1>1. m \in Ahead(s) /\ m \in Msgs /\ ~m.broken
  BY Zenon, SeenType DEF Taken, Ahead, Whole
<1>2. stored' = stored /\ consumed' = consumed
  BY Zenon DEF Taken
<1>3. ASSUME NEW r \in Shards, batch'[r] = batch[r] \/ batch'[r] = <<>>
      PROVE  RewrittenOf(r)'
  BY Zenon, <1>2, <1>3, RewrittenKept
<1>4. CASE batch'[s] = Append(batch[s], m)
  <2>1. RewrittenOf(s) /\ batch[s] \in Seq(Msgs) /\ Len(batch[s]) \in Nat
    BY Zenon, SliceFacts DEF Rewritten, Typed, TypeOK
  <2>2. /\ Len(batch'[s]) = Len(batch[s]) + 1 /\ batch'[s][Len(batch[s]) + 1] = m
        /\ \A i \in 1..Len(batch[s]) : batch'[s][i] = batch[s][i]
    <3>1. /\ Len(Append(batch[s], m)) = Len(batch[s]) + 1
          /\ Append(batch[s], m)[Len(batch[s]) + 1] = m
          /\ \A i \in 1..Len(batch[s]) : Append(batch[s], m)[i] = batch[s][i]
      BY Zenon, <1>1, <2>1, AppendItems
    <3>2. QED
      BY <1>4, <3>1, Zenon
  <2>3. \A y \in stored : y.dev = m.dev => y.seq <= m.seq
    BY <1>1, SeenHas, ZenonT(30) DEF PastFirst, Follows
  <2>4. ASSUME NEW i \in 1..Len(batch[s])
        PROVE  /\ batch'[s][i].broken => Id(batch'[s][i]) \in consumed'
               /\ \A y \in stored' : y.dev = batch'[s][i].dev =>
                    \/ y.seq <= batch'[s][i].seq
                    \/ \E j \in 1..Len(batch'[s]) : i < j /\ y = Id(batch'[s][j])
    <3>1. \A j \in 1..Len(batch[s]) : j \in 1..Len(batch'[s]) /\ batch'[s][j] = batch[s][j]
      BY <2>1, <2>2, SMTT(30)
    <3>2. QED
      BY <1>2, <2>1, <2>4, <3>1, SMTT(30) DEF RewrittenOf
  <2>5. \A i \in 1..Len(batch'[s]) : i \in 1..Len(batch[s]) \/ batch'[s][i] = m
    BY <2>1, <2>2, SMTT(30)
  <2>6. RewrittenOf(s)'
    BY Zenon, <1>1, <1>2, <2>3, <2>4, <2>5 DEF RewrittenOf
  <2>7. QED
    BY Zenon, <1>3, <2>6 DEF Rewritten, Taken
<1>5. CASE batch'[s] = <<>>
  BY Zenon, <1>3, <1>5 DEF Rewritten, Taken
<1>6. QED
  BY Zenon, <1>4, <1>5 DEF Taken

LEMMA RewrittenCommits ==
  ASSUME Typed, OwnLane, Batches, Rewritten, NEW s \in Shards, NEW W, Commit(s, W)
  PROVE  Rewritten'
<1>1. ASSUME NEW r \in Shards, r # s
      PROVE  RewrittenOf(r)'
  BY <1>1, CommitAdds, RewrittenKept, SMTT(30) DEF Commit
<1>2. RewrittenOf(s)'
  <2>1. /\ RewrittenOf(s) /\ Sorted(batch[s]) /\ Len(batch[s]) \in Nat
        /\ \A i \in 1..Len(batch[s]) : batch[s][i].seq \in Nat
    BY SliceFacts DEF Rewritten, Batches, BatchOf, Typed, Msgs
  <2>2. /\ Len(batch'[s]) = Len(batch[s]) /\ consumed \subseteq consumed'
        /\ \A i \in 1..Len(batch[s]) :
             /\ Id(batch'[s][i]) = Id(batch[s][i])
             /\ batch'[s][i].broken => batch[s][i].broken \/ Id(batch[s][i]) \in consumed'
    BY Zenon DEF Commit
  <2>3. \A i \in 1..Len(batch[s]) :
          batch'[s][i].dev = batch[s][i].dev /\ batch'[s][i].seq = batch[s][i].seq
    BY <2>2, ZenonT(30) DEF Id
  <2>4. ASSUME NEW i \in 1..Len(batch[s]), NEW y \in stored', y.dev = batch[s][i].dev
        PROVE  \/ y.seq <= batch[s][i].seq
               \/ \E j \in 1..Len(batch[s]) : i < j /\ y = Id(batch[s][j])
    <3>1. CASE y \in stored
      BY <2>1, <2>4, <3>1, ZenonT(30) DEF RewrittenOf
    <3>2. CASE y \notin stored
      <4>1. PICK j \in 1..Len(batch[s]) : y = Id(batch[s][j])
        BY <2>4, <3>2, CommitAdds
      <4>2. y.dev = batch[s][j].dev /\ y.seq = batch[s][j].seq
        BY Zenon, <4>1 DEF Id
      <4>3. CASE i < j
        BY Zenon, <4>1, <4>3
      <4>4. CASE j < i
        BY <2>1, <2>4, <4>2, <4>4, ZenonT(30) DEF Sorted, Follows
      <4>5. CASE j = i
        BY <2>1, <4>2, <4>5
      <4>6. QED
        BY <2>1, <4>3, <4>4, <4>5
    <3>3. QED
      BY Zenon, <3>1, <3>2
  <2>5. \A i \in 1..Len(batch[s]) : batch'[s][i].broken => Id(batch'[s][i]) \in consumed'
    BY Zenon, <2>1, <2>2 DEF RewrittenOf
  <2>6. QED
    BY <2>2, <2>3, <2>4, <2>5 DEF RewrittenOf
<1>3. QED
  BY Zenon, <1>1, <1>2 DEF Rewritten

LEMMA RewrittenStep ==
  ASSUME Typed, OwnLane, Whole, PastFirst, Batches, Rewritten,
         (\E d \in Devices : \E m : Publishes(d, m)) \/ Onward
  PROVE  Rewritten'
<1>1. ASSUME stored' = stored, consumed \subseteq consumed',
             \A s \in Shards : batch'[s] = batch[s] \/ batch'[s] = <<>>
      PROVE  Rewritten'
  BY Zenon, <1>1, RewrittenKept DEF Rewritten
<1>2. ASSUME NEW d \in Devices, NEW m, Publishes(d, m)
      PROVE  Rewritten'
  BY Zenon, <1>1, <1>2 DEF Publishes
<1>3. ASSUME NEW s \in Shards, Receive(s)
      PROVE  Rewritten'
  BY Zenon, <1>1, <1>3, ReceiveMoves
<1>4. CASE Boot \/ Calm
  BY Zenon, <1>1, <1>4 DEF Boot, Calm, dbVars, endVars
<1>5. QED
  BY Zenon, <1>2, <1>3, <1>4, RewrittenTakes, RewrittenCommits DEF Onward

\* The part of LastValueWins that is about one shard.
LastValueOf(s) ==
  \A d \in Devices :
    (/\ spc[s] = "finalize"
     /\ slice[s] = 0
     /\ \E i \in Props(s, Live(s)) : batch[s][i].dev = d)
    => \A x \in stored \ consumed :
         x.dev = d /\ x.kind = "prop" => x.seq <= value[d]

LEMMA LastValueShards == LastValueWins <=> \A s \in Shards : LastValueOf(s)
BY Zenon DEF LastValueWins, LastValueOf

\* A shard that does not get to finalize, next to a database that got nothing
\* for its devices.
LEMMA LastValueKept ==
  ASSUME Typed, LastValueWins, OwnLane, NEW s \in Shards,
         spc'[s] = "finalize" =>
           spc[s] = "finalize" /\ batch'[s] = batch[s] /\ slice'[s] = slice[s],
         consumed \subseteq consumed',
         \A y \in stored' \ stored : ShardOf[y.dev] # s,
         \A d \in Devices : ShardOf[d] = s => value'[d] = value[d]
  PROVE  LastValueOf(s)'
<1>1. LastValueOf(s)
  BY Zenon, LastValueShards
<1>2. SUFFICES ASSUME spc'[s] = "finalize"
               PROVE  LastValueOf(s)'
  BY Zenon DEF LastValueOf
<1>3. spc[s] = "finalize" /\ batch'[s] = batch[s] /\ slice'[s] = slice[s]
  BY Zenon, <1>2
<1>4. Props(s, Live(s))' = Props(s, Live(s))
  BY Zenon, <1>3 DEF Props, Live, Slice
<1>5. \A i \in Props(s, Live(s)) : ShardOf[batch[s][i].dev] = s
  BY Zenon, LiveIndices DEF Props, OwnLane, Ops
<1>6. QED
  BY <1>1, <1>3, <1>4, <1>5 DEF LastValueOf

\* The last property statement of the batch wins, and nothing newer was written
\* but what the batch holds.
LEMMA LastValueCommits ==
  ASSUME Typed, OwnLane, Rewritten', LastValueWins, NEW s \in Shards, NEW W, Commit(s, W)
  PROVE  LastValueWins'
<1>1. ASSUME NEW r \in Shards, r # s
      PROVE  LastValueOf(r)'
  <2>1. \A d \in Devices : ShardOf[d] = r => value'[d] = value[d]
    <3> SUFFICES ASSUME NEW d \in Devices, ShardOf[d] = r
                 PROVE  value'[d] = value[d]
      BY Zenon
    <3>1. \A i \in W : batch[s][i].dev # d
      BY <1>1, CommitAdds DEF OwnLane, Ops
    <3>2. {i \in Props(s, W) : batch[s][i].dev = d} = {}
      BY Zenon, <3>1 DEF Props
    <3>3. QED
      BY Zenon, <3>2 DEF Commit, Apply
  <2>2. \A y \in stored' \ stored : ShardOf[y.dev] # r
    BY Zenon, <1>1, CommitAdds
  <2>3. consumed \subseteq consumed' /\ batch'[r] = batch[r]
        /\ slice'[r] = slice[r] /\ spc'[r] = spc[r]
    BY Zenon, <1>1 DEF Commit
  <2>4. QED
    BY <2>1, <2>2, <2>3, LastValueKept, ZenonT(30)
<1>2. LastValueOf(s)'
  <2> SUFFICES ASSUME spc'[s] = "finalize", slice'[s] = 0, NEW d \in Devices,
                      NEW i \in Props(s, Live(s))', batch'[s][i].dev = d,
                      NEW x \in stored' \ consumed', x.dev = d, x.kind = "prop"
               PROVE  x.seq <= value'[d]
    BY Zenon DEF LastValueOf
  <2> DEFINE own == {k \in Props(s, W) : batch[s][k].dev = d}
  <2>1. /\ Len(batch'[s]) = Len(batch[s])
        /\ \A k \in 1..Len(batch[s]) : Id(batch'[s][k]) = Id(batch[s][k])
        /\ \A k \in 1..Len(batch[s]) : batch'[s][k].broken \/ k \in W
    BY Zenon DEF Commit
  <2>2. \A k \in 1..Len(batch[s]) :
          /\ batch'[s][k].dev = batch[s][k].dev /\ batch'[s][k].seq = batch[s][k].seq
          /\ batch'[s][k].kind = batch[s][k].kind
    BY <2>1, ZenonT(30) DEF Id
  <2>3. i \in 1..Len(batch'[s]) /\ ~batch'[s][i].broken /\ batch'[s][i].kind = "prop"
    BY Zenon DEF Props, Live, Slice
  <2>4. i \in own
    BY Zenon, <2>1, <2>2, <2>3 DEF Props
  <2>5. PICK l \in own : (\A k \in own : k <= l) /\ value'[d] = batch[s][l].seq
    BY Zenon, <2>4 DEF Commit, Apply
  <2>6. l \in 1..Len(batch[s]) /\ batch'[s][l].dev = d /\ value'[d] = batch'[s][l].seq
    BY <2>2, <2>5, CommitAdds, ZenonT(30) DEF Props
  <2>7. RewrittenOf(s)'
    BY Zenon DEF Rewritten
  <2>8. ASSUME NEW k \in 1..Len(batch[s]), l < k, x = Id(batch'[s][k])
        PROVE  FALSE
    <3>1. batch'[s][k].dev = d /\ batch'[s][k].kind = "prop"
      BY Zenon, <2>8 DEF Id
    <3>2. ~batch'[s][k].broken
      BY Zenon, <2>1, <2>7, <2>8 DEF RewrittenOf
    <3>3. k \in own
      BY Zenon, <2>1, <2>2, <3>1, <3>2 DEF Props
    <3>4. l \in Nat /\ k \in Nat
      BY <2>6, SliceFacts DEF Typed
    <3>5. QED
      BY <2>5, <2>8, <3>3, <3>4, SMTT(30)
  <2>9. QED
    BY Zenon, <2>1, <2>6, <2>7, <2>8 DEF RewrittenOf
<1>3. QED
  BY <1>1, <1>2, LastValueShards, ZenonT(30) DEF LastValueWins, LastValueOf

LEMMA LastValueStep ==
  ASSUME Typed, OwnLane, Rewritten', LastValueWins,
         (\E d \in Devices : \E m : Publishes(d, m)) \/ Onward
  PROVE  LastValueWins'
<1>1. ASSUME stored' = stored, value' = value, consumed \subseteq consumed',
             \A s \in Shards : spc'[s] = "finalize" =>
               spc[s] = "finalize" /\ batch'[s] = batch[s] /\ slice'[s] = slice[s]
      PROVE  LastValueWins'
  <2>1. \A s \in Shards : LastValueOf(s)'
    BY Zenon, <1>1, LastValueKept
  <2>2. QED
    BY Zenon, <2>1 DEF LastValueWins, LastValueOf
<1>2. ASSUME NEW d \in Devices, NEW m, Publishes(d, m)
      PROVE  LastValueWins'
  BY Zenon, <1>1, <1>2 DEF Publishes
<1>3. ASSUME NEW s \in Shards, Receive(s)
      PROVE  LastValueWins'
  BY Zenon, <1>1, <1>3, ReceiveMoves
<1>4. ASSUME NEW s \in Shards, NEW m, Taken(s, m)
      PROVE  LastValueWins'
  BY Zenon, <1>1, <1>4 DEF Taken
<1>5. CASE Boot \/ Calm
  BY Zenon, <1>1, <1>5 DEF Boot, Calm, dbVars, endVars
<1>6. QED
  BY Zenon, <1>2, <1>3, <1>4, <1>5, LastValueCommits DEF Onward

-----------------------------------------------------------------------------
(* The theorems *)

LEMMA InitOrder == Init => OrderInv
<1> SUFFICES ASSUME Init PROVE OrderInv
  OBVIOUS
<1>1. \A s \in Shards : /\ cur[s] = {} /\ queue[s] = <<>> /\ senders[s] = <<>>
                        /\ batch[s] = <<>> /\ slice[s] = 0 /\ spc[s] = "select"
  BY Zenon DEF Init
<1>2. \A s \in Shards : Ahead(s) = {} /\ Ops(s) = {}
  BY <1>1 DEF Ahead, Ops
<1>3. \A d \in Devices : unacked[d] = {}
  BY Zenon DEF Init
<1>4. stored = {} /\ handled = {} /\ consumed = {}
  BY Zenon DEF Init
<1>5. Seen = {} /\ Past = {}
  BY <1>2, <1>3, <1>4 DEF Seen, Past
<1>6. Phase
  BY Zenon, <1>1 DEF Phase, PhaseOf, Flushing
<1>7. Genuine /\ Whole /\ OwnLane /\ PastFirst /\ ControlOnly
  BY Zenon, <1>2, <1>3, <1>4, <1>5 DEF Genuine, Whole, OwnLane, PastFirst, ControlOnly
<1>8. Lanes /\ Batches /\ Rewritten
  BY <1>1 DEF Lanes, LaneOf, Sorted, Batches, BatchOf, Rewritten, RewrittenOf
<1>9. LastValueWins
  BY Zenon, <1>1 DEF LastValueWins
<1>10. QED
  BY Zenon, <1>6, <1>7, <1>8, <1>9 DEF OrderInv

LEMMA OrderInvStep ==
  ASSUME "panic" \notin FaultKinds, Typed, OrderInv, [Next]_vars
  PROVE  Typed' /\ OrderInv'
<1>1. /\ Phase /\ Genuine /\ Whole /\ OwnLane /\ Lanes /\ PastFirst /\ Batches
      /\ ControlOnly /\ Rewritten /\ LastValueWins
  BY Zenon DEF OrderInv
<1>2. Typed'
  BY Zenon, TypedStep
<1>3. Phase'
  BY Zenon, <1>1, PhaseStep
<1>4. (\E d \in Devices : \E m : Publishes(d, m)) \/ Onward
  BY Zenon, <1>1, StepKinds
<1>5. Genuine' /\ Whole'
  BY Zenon, <1>1, <1>4, GenuineStep, WholeStep
<1>6. OwnLane' /\ Lanes'
  BY Zenon, <1>1, <1>4, OwnLaneStep, LanesStep
<1>7. PastFirst' /\ ControlOnly'
  BY Zenon, <1>1, <1>4, PastFirstStep, ControlOnlyStep
<1>8. Batches'
  BY Zenon, <1>1, <1>2, <1>4, BatchesStep
<1>9. Rewritten'
  BY Zenon, <1>1, <1>4, RewrittenStep
<1>10. LastValueWins'
  BY Zenon, <1>1, <1>4, <1>9, LastValueStep
<1>11. QED
  BY Zenon, <1>2, <1>3, <1>5, <1>6, <1>7, <1>8, <1>9, <1>10 DEF OrderInv

\* commit's promise "last-value-wins": whatever attempts failed half way before,
\* however the batch was retried and whatever the other shards did, a property
\* that a batch set has the newest value written for it when the batch is
\* committed.  Without panics: afterCommit's leaves a batch behind that may be
\* older than what was stored meanwhile.
THEOREM PropertiesSettle ==
  ASSUME "panic" \notin FaultKinds
  PROVE  Spec => []LastValueWins
<1>1. Init => Typed /\ OrderInv
  BY Zenon, InitTyped, InitOrder
<1>2. Typed /\ OrderInv /\ [Next]_vars => Typed' /\ OrderInv'
  BY Zenon, OrderInvStep
<1>3. OrderInv => LastValueWins
  BY Zenon DEF OrderInv
<1>4. QED
  BY <1>1, <1>2, <1>3, PTL DEF Spec

\* A PUBACK is sent by its connection's goroutine alone, which does nothing else
\* that the promise speaks of.
LEMMA AckedBy ==
  ASSUME [Next]_vars
  PROVE  \/ acked' = acked
         \/ \E d \in Devices, g \in 1..MaxGen :
              /\ cl[d][g].acked
              /\ acked' = acked \cup {[dev |-> d, seq |-> cl[d][g].seq]}
              /\ UNCHANGED <<next, stored, handled, consumed>>
<1> USE DEF deviceVars, laneVars, flushVars, dbVars, endVars
<1>1. ASSUME NEW d \in Devices, NEW g \in 1..MaxGen, Puback(d, g)
      PROVE  \/ acked' = acked
             \/ /\ cl[d][g].acked
                /\ acked' = acked \cup {[dev |-> d, seq |-> cl[d][g].seq]}
                /\ UNCHANGED <<next, stored, handled, consumed>>
  BY Zenon, <1>1 DEF Puback
<1>2. ASSUME NEW d \in Devices, NEW g \in 1..MaxGen, RejectPacket(d, g)
      PROVE  acked' = acked
  BY Zenon, <1>2 DEF RejectPacket
<1>3. ASSUME NEW d \in Devices, Publish(d) \/ Reconnect(d)
      PROVE  acked' = acked
  BY <1>3, ZenonT(30) DEF Publish, Reconnect
<1>4. ASSUME NEW s \in Shards, ShardStep(s)
      PROVE  acked' = acked
  <2>1. CASE Receive(s) \/ ReceiveClosed(s) \/ TimerFires(s) \/ ContextDone(s)
    BY <2>1, ZenonT(30) DEF Receive, ReceiveClosed, TimerFires, ContextDone
  <2>2. CASE Reject(s) \/ AddOp(s) \/ FlushFirst(s) \/ HandleControl(s)
    BY <2>2, ZenonT(30) DEF Reject, AddOp, FlushFirst, HandleControl
  <2>3. CASE HandleStoreFails(s) \/ HandlePanics(s) \/ OpRefused(s) \/ FinalizePanics(s)
    BY Zenon, <2>3 DEF HandleStoreFails, HandlePanics, OpRefused, FinalizePanics
  <2>4. CASE CommitOk(s) \/ CommitTransient(s) \/ BatchRefused(s)
    BY Zenon, <2>4 DEF CommitOk, CommitTransient, BatchRefused, CommitFails
  <2>5. CASE Retry(s) \/ Abandon(s) \/ Finalize(s)
    BY Zenon, <2>5 DEF Retry, Abandon, Finalize
  <2>6. QED
    BY Zenon, <1>4, <2>1, <2>2, <2>3, <2>4, <2>5 DEF ShardStep
<1>5. CASE Restart \/ Crash
  BY Zenon, <1>5 DEF Restart, Crash, Boot
<1>6. CASE ServeError \/ Signal \/ StopStep \/ UNCHANGED vars
  BY <1>6, ZenonT(30) DEF ServeError, Signal, StopStep, BrokerClosing, BrokerClosed, CloseLanes,
              DrainReturns, StopVars, vars
<1>7. QED
  BY Zenon, <1>1, <1>2, <1>3, <1>4, <1>5, <1>6 DEF Next, ClientStep

LEMMA SeenPublished ==
  ASSUME Typed, Genuine
  PROVE  Seen \subseteq Promise!Published
BY Zenon, SeenType DEF Genuine, Promise!Published, Promise!Ids, Ids

\* An op that a commit writes for the first time was pending.
LEMMA CommitPersists ==
  ASSUME Typed, OrderInv, NEW s \in Shards, NEW W, Commit(s, W), acked' = acked,
         Seen' \subseteq Seen
  PROVE  Promise!Persist
<1>1. /\ Genuine /\ OwnLane /\ BatchOf(s) /\ W \subseteq 1..Len(batch[s])
      /\ stored \subseteq stored' /\ slice[s] \in Nat /\ Len(batch[s]) \in Nat
      /\ \A y \in stored' \ stored : \E i \in W : y = Id(batch[s][i])
  <2>1. Genuine /\ OwnLane /\ BatchOf(s)
    BY Zenon DEF OrderInv, Batches
  <2>2. slice[s] \in Nat /\ Len(batch[s]) \in Nat
    BY Zenon, SliceFacts DEF Typed
  <2>3. QED
    BY <2>1, <2>2, CommitAdds
<1>2. /\ W \subseteq Live(s) /\ consumed \subseteq consumed'
      /\ UNCHANGED <<next, handled>>
  BY Zenon DEF Commit
<1>3. stored' \subseteq Seen' /\ consumed' \subseteq Seen'
  BY ZenonT(30) DEF Seen, Past
<1>4. stored' \subseteq Promise!Published /\ consumed' \subseteq Promise!Published
  BY Zenon, <1>1, <1>3, SeenPublished
<1>5. ASSUME NEW x \in stored' \ stored
      PROVE  /\ \A y \in stored : y.dev = x.dev /\ y.kind = x.kind => y.seq < x.seq
             /\ \A y \in handled : y.dev = x.dev => y.seq < x.seq
  <2>1. PICK i \in W : x = Id(batch[s][i])
    BY Zenon, <1>1, <1>5
  <2>2. x.dev = batch[s][i].dev /\ x.seq = batch[s][i].seq /\ x.kind = batch[s][i].kind
    BY Zenon, <2>1 DEF Id
  <2>3. i \in 1..Len(batch[s]) /\ i \in Slice(s) /\ ~batch[s][i].broken
    BY Zenon, <1>1, <1>2 DEF Live
  <2>4. slice[s] <= i
    BY <1>1, <2>3 DEF Slice
  <2>5. Pending(s, i)
    BY Zenon, <2>1, <2>3, <2>4 DEF Pending
  <2>6. QED
    BY <1>1, <2>2, <2>3, <2>5, ZenonT(30) DEF BatchOf
<1>6. QED
  BY <1>1, <1>2, <1>4, <1>5, ZenonT(30) DEF Promise!Persist

\* A step of the pipeline is a step of the promise, or changes nothing of it.
LEMMA StepKept ==
  ASSUME "panic" \notin FaultKinds, AckInv, OrderInv, [Next]_vars
  PROVE  [Promise!Next]_(Promise!vars)
<1>1. Typed /\ FlagSettled /\ Phase /\ Genuine /\ Whole
  BY Zenon DEF AckInv, OrderInv
<1>2. stored \cup handled \cup consumed \subseteq Seen /\ Seen \subseteq Promise!Published
  BY Zenon, <1>1, SeenHas, SeenPublished
<1>3. CASE acked' = acked
  <2>1. ASSUME NEW d \in Devices, NEW m, Publishes(d, m)
        PROVE  [Promise!Next]_(Promise!vars)
    <3>1. UNCHANGED <<stored, handled, consumed>> /\ next \in [Devices -> 0..MaxSeq]
      BY <1>1, <2>1, ZenonT(30) DEF Publishes, Typed, TypeOK
    <3>2. next' = [next EXCEPT ![d] = m.seq] /\ (m.seq = next[d] + 1 \/ m.seq = next[d])
      BY <2>1, ZenonT(30) DEF Publishes
    <3>3. CASE m.seq = next[d] + 1
      <4>1. next' = [next EXCEPT ![d] = @ + 1]
        BY Zenon, <3>2, <3>3
      <4>2. QED
        BY <1>3, <3>1, <4>1, ZenonT(30) DEF Promise!Next, Promise!Publish
    <3>4. CASE m.seq = next[d]
      <4>1. next' = next
        BY Zenon, <3>1, <3>2, <3>4
      <4>2. QED
        BY Zenon, <1>3, <3>1, <4>1 DEF Promise!vars
    <3>5. QED
      BY Zenon, <3>2, <3>3, <3>4
  <2>2. ASSUME NEW s \in Shards, NEW m, Taken(s, m)
        PROVE  [Promise!Next]_(Promise!vars)
    <3>1. UNCHANGED <<next, stored, consumed>>
      BY Zenon, <2>2 DEF Taken
    <3>2. Id(m) \in Promise!Published
      BY Zenon, <1>2, <2>2, SeenHas DEF Taken, Ahead
    <3>3. handled' = handled \/ handled' = handled \cup {Id(m)}
      BY <2>2, ZenonT(30) DEF Taken
    <3>4. QED
      BY Zenon, <1>3, <3>1, <3>2, <3>3 DEF Promise!Next, Promise!Control, Promise!vars
  <2>3. ASSUME NEW s \in Shards, NEW W, Commit(s, W)
        PROVE  [Promise!Next]_(Promise!vars)
    BY Zenon, <1>1, <1>3, <2>3, OnwardMoves, CommitPersists DEF Onward, Promise!Next
  <2>4. CASE Boot \/ \E s \in Shards : Receive(s)
    BY Zenon, <2>4 DEF Boot, Receive, dbVars, endVars, Promise!vars
  <2>5. CASE Calm
    <3>1. /\ UNCHANGED <<next, stored, handled>>
          /\ consumed \subseteq consumed' /\ consumed' \subseteq Seen
      BY Zenon, <2>5 DEF Calm
    <3>2. QED
      BY Zenon, <1>2, <1>3, <3>1 DEF Promise!Next, Promise!Persist
  <2>6. QED
    BY Zenon, <1>1, <2>1, <2>2, <2>3, <2>4, <2>5, StepKinds DEF Onward
<1>4. ASSUME NEW d \in Devices, NEW g \in 1..MaxGen, cl[d][g].acked,
             acked' = acked \cup {[dev |-> d, seq |-> cl[d][g].seq]},
             UNCHANGED <<next, stored, handled, consumed>>
      PROVE  [Promise!Next]_(Promise!vars)
  <2>1. PICK x \in Ended : x.dev = d /\ x.seq = cl[d][g].seq
    BY Zenon, <1>1, <1>4 DEF FlagSettled, Settled
  <2>2. QED
    BY Zenon, <1>4, <2>1 DEF Ended, Promise!Next, Promise!Puback
<1>5. QED
  BY Zenon, <1>3, <1>4, AckedBy

\* The pipeline keeps the ingest promise (flushOps, handle, Submit, OnPublish):
\* for any devices, shards, lanes and batches, and however many transient and
\* permanent database failures, broken conversions, reconnects, crashes,
\* restarts and shutdowns happen, a device's data reaches the database in the
\* order of publication, none behind a later control message, and no PUBACK
\* comes before the message it is for is settled.  Without panics, as above.
THEOREM PipelineKeepsPromise ==
  ASSUME "panic" \notin FaultKinds
  PROVE  Spec => ImplementsIngest
<1>1. Init => AckInv /\ OrderInv /\ Promise!Init
  <2>1. Init => FlagSettled /\ FinalizeStored /\ AckedIsSettled
    BY DEF Init, FlagSettled, FinalizeStored, AckedIsSettled, Idle
  <2>2. QED
    BY Zenon, <2>1, InitTyped, InitOrder DEF AckInv, Init, Promise!Init
<1>2. AckInv /\ OrderInv /\ [Next]_vars => (AckInv /\ OrderInv)'
  <2>1. AckInv => Typed
    BY Zenon DEF AckInv
  <2>2. QED
    BY Zenon, <2>1, AckInvStep, OrderInvStep
<1>3. AckInv /\ OrderInv /\ [Next]_vars => [Promise!Next]_(Promise!vars)
  BY Zenon, StepKept
<1>4. QED
  BY <1>1, <1>2, <1>3, PTL DEF Spec, ImplementsIngest, Promise!Spec
=============================================================================
