---------------------- MODULE ShardPipelineProofs ----------------------
(***************************************************************************)
(* Proofs about ShardPipeline, for every value of its constants: types,    *)
(* PUBACKs after the commit, the timer of a batch, lanes closed behind the *)
(* last submitter, and shards that leave nothing behind.  The invariant    *)
(* behind the order of what a device publishes is stated at the end;       *)
(* IngestProofs proves it.                                                 *)
(***************************************************************************)
EXTENDS ShardPipeline, TLAPS

-----------------------------------------------------------------------------
(* Type correctness *)

LEMMA InitialValues ==
  /\ 0 \in 0..MaxSeq /\ 1 \in 1..MaxGen /\ 0 \in 0..MaxFaults
  /\ <<>> \in Seq(Msgs) /\ Len(<<>>) = 0
  /\ Idle \in Clients /\ [Idle EXCEPT !.pc = "gone"] \in Clients
<1>1. 0 \in 0..MaxSeq /\ 1 \in 1..MaxGen /\ 0 \in 0..MaxFaults
  BY PipelineAssumption
<1>2. Idle \in Clients
  BY <1>1 DEF Idle, Clients
<1>3. [Idle EXCEPT !.pc = "gone"] \in Clients
  BY <1>2 DEF Clients
<1>4. <<>> \in Seq(Msgs) /\ Len(<<>>) = 0
  OBVIOUS
<1>5. QED
  BY <1>1, <1>2, <1>3, <1>4

\* What a device puts on the wire is a well-formed message of its own.
LEMMA OutgoingType ==
  ASSUME TypeOK, NEW d \in Devices, NEW m \in Outgoing(d)
  PROVE  m \in Msgs /\ m.broken \in BOOLEAN
<1>1. CASE unacked[d] = {}
  <2>1. PICK p \in Profiles :
          /\ next[d] < MaxSeq
          /\ m = [dev |-> d, gen |-> gen[d], seq |-> next[d] + 1,
                  qos |-> p.qos, kind |-> p.kind, broken |-> FALSE]
    BY <1>1 DEF Outgoing
  <2>2. p.qos \in {0, 1} /\ p.kind \in Kinds
    BY Zenon, PipelineAssumption
  <2>3. next[d] + 1 \in 1..MaxSeq /\ gen[d] \in 1..MaxGen
    BY <2>1, PipelineAssumption DEF TypeOK
  <2>4. QED
    BY <2>1, <2>2, <2>3 DEF Msgs
<1>2. CASE unacked[d] # {}
  <2>1. PICK u \in unacked[d] : m = [u EXCEPT !.gen = gen[d]]
    BY <1>2 DEF Outgoing
  <2>2. u \in Msgs /\ gen[d] \in 1..MaxGen
    BY DEF TypeOK
  <2>3. QED
    BY <2>1, <2>2 DEF Msgs
<1>3. QED
  BY <1>1, <1>2

LEMMA AckType ==
  ASSUME TypeOK, NEW M, Ack(M)
  PROVE  cl' \in [Devices -> [1..MaxGen -> Clients]]
<1> DEFINE hit(d, g) == /\ cl[d][g].pc = "wait"
                        /\ \E m \in M : m.dev = d /\ m.gen = g /\ m.seq = cl[d][g].seq
           new(d, g) == IF hit(d, g) THEN [cl[d][g] EXCEPT !.acked = TRUE] ELSE cl[d][g]
<1>1. \A d \in Devices, g \in 1..MaxGen : cl[d][g] \in Clients
  BY Zenon DEF TypeOK
<1>2. \A d \in Devices, g \in 1..MaxGen : new(d, g) \in Clients
  <2> TAKE d \in Devices, g \in 1..MaxGen
  <2>1. [cl[d][g] EXCEPT !.acked = TRUE] \in Clients
    BY Zenon, <1>1 DEF Clients
  <2>2. QED
    BY <1>1, <2>1
<1>3. cl' = [d \in Devices |-> [g \in 1..MaxGen |-> new(d, g)]]
  BY DEF Ack
<1> HIDE DEF new
<1>4. QED
  BY <1>2, <1>3

LEMMA SetClientType ==
  ASSUME TypeOK, NEW m \in Msgs, NEW c \in Clients, SetClient(m, c)
  PROVE  cl' \in [Devices -> [1..MaxGen -> Clients]]
<1>1. m.dev \in Devices /\ m.gen \in 1..MaxGen
  BY DEF Msgs
<1>2. QED
  BY <1>1 DEF SetClient, TypeOK

LEMMA ClientStates ==
  ASSUME NEW m \in Msgs
  PROVE  /\ Waiting(m) \in Clients
         /\ [Waiting(m) EXCEPT !.pc = "send"] \in Clients
<1>1. 0 \in 0..MaxSeq /\ m.seq \in 0..MaxSeq
  BY PipelineAssumption DEF Msgs
<1>2. QED
  BY Zenon, <1>1 DEF Waiting, Clients

LEMMA CompactType ==
  ASSUME NEW ops \in Seq(Msgs)
  PROVE  Compact(ops) \in Seq(Msgs)
<1> DEFINE rank(i) == Cardinality({j \in 1..i : ~ops[j].broken})
           nth(k) == {i \in 1..Len(ops) : ~ops[i].broken /\ rank(i) = k}
           slot(k) == IF nth(k) = {} THEN ops[k] ELSE ops[CHOOSE i \in nth(k) : TRUE]
<1>1. \A k \in 1..Len(ops) : slot(k) \in Msgs
  <2> TAKE k \in 1..Len(ops)
  <2>1. CASE nth(k) = {}
    BY <2>1
  <2>2. CASE nth(k) # {}
    <3>1. (CHOOSE i \in nth(k) : TRUE) \in nth(k)
      BY Zenon, <2>2
    <3>2. (CHOOSE i \in nth(k) : TRUE) \in 1..Len(ops)
      BY <3>1
    <3> HIDE DEF nth
    <3>3. QED
      BY <2>2, <3>2
  <2>3. QED
    BY Zenon, <2>1, <2>2
<1>2. Compact(ops) = [k \in 1..Len(ops) |-> slot(k)]
  BY DEF Compact
<1> HIDE DEF slot
<1>3. QED
  BY <1>1, <1>2

\* The parts of the state a shard step may touch, typed one by one.
LEMMA SliceFacts ==
  ASSUME TypeOK, NEW s \in Shards
  PROVE  /\ Len(batch[s]) \in Nat
         /\ \A i \in 1..Len(batch[s]) : batch[s][i] \in Msgs
         /\ slice[s] \in Nat
BY DEF TypeOK

LEMMA AfterHandleType ==
  ASSUME TypeOK, NEW s \in Shards, NEW b \in Seq(Msgs), AfterHandle(s, b)
  PROVE  /\ batch' \in [Shards -> Seq(Msgs)]
         /\ cur' \in [Shards -> SUBSET Msgs]
         /\ spc' \in [Shards -> {"select", "handle", "commit", "park", "finalize",
                                 "control", "exit"}]
         /\ armed' \in [Shards -> BOOLEAN]
         /\ after' \in [Shards -> {"select", "control", "exit"}]
         /\ slice' \in [Shards -> Nat]
BY Zenon DEF AfterHandle, TypeOK

LEMMA RestartPassType ==
  ASSUME TypeOK, NEW s \in Shards, NEW b \in Seq(Msgs), RestartPass(s, b)
  PROVE  /\ batch' \in [Shards -> Seq(Msgs)]
         /\ cur' \in [Shards -> SUBSET Msgs]
         /\ spc' \in [Shards -> {"select", "handle", "commit", "park", "finalize",
                                 "control", "exit"}]
         /\ armed' \in [Shards -> BOOLEAN]
         /\ after' \in [Shards -> {"select", "control", "exit"}]
         /\ slice' \in [Shards -> Nat]
BY DEF RestartPass, TypeOK

LEMMA FlushShardType ==
  ASSUME TypeOK, NEW s \in Shards, NEW cont \in {"select", "control", "exit"},
         FlushShard(s, cont)
  PROVE  /\ batch' \in [Shards -> Seq(Msgs)]
         /\ spc' \in [Shards -> {"select", "handle", "commit", "park", "finalize",
                                 "control", "exit"}]
         /\ armed' \in [Shards -> BOOLEAN]
         /\ after' \in [Shards -> {"select", "control", "exit"}]
         /\ slice' \in [Shards -> Nat]
BY DEF FlushShard, TypeOK

LEMMA EndSliceType ==
  ASSUME TypeOK, NEW s \in Shards, EndSlice(s)
  PROVE  /\ batch' \in [Shards -> Seq(Msgs)]
         /\ spc' \in [Shards -> {"select", "handle", "commit", "park", "finalize",
                                 "control", "exit"}]
         /\ slice' \in [Shards -> Nat]
<1>1. CASE slice[s] = 0 \/ slice[s] = Len(batch[s])
  <2>1. batch' = [batch EXCEPT ![s] = <<>>] /\ slice' = [slice EXCEPT ![s] = 0]
        /\ spc' = [spc EXCEPT ![s] = after[s]]
    BY <1>1 DEF EndSlice
  <2>2. <<>> \in Seq(Msgs) /\ 0 \in Nat /\ after[s] \in {"select", "control", "exit"}
    BY DEF TypeOK
  <2>3. QED
    BY <2>1, <2>2 DEF TypeOK
<1>2. CASE ~(slice[s] = 0 \/ slice[s] = Len(batch[s]))
  <2>1. slice[s] + 1 \in Nat
    BY DEF TypeOK
  <2>2. slice' = [slice EXCEPT ![s] = slice[s] + 1] /\ batch' = batch
        /\ spc' = [spc EXCEPT ![s] = "commit"]
    BY <1>2 DEF EndSlice
  <2>3. QED
    BY <2>1, <2>2 DEF TypeOK
<1>3. QED
  BY <1>1, <1>2

\* The identity of a message is a well-formed Id, and marking an op broken
\* does not change it.
LEMMA IdType ==
  ASSUME NEW m \in Msgs
  PROVE  Id(m) \in Ids
BY DEF Id, Ids, Msgs

LEMMA MarkBrokenEffect ==
  ASSUME TypeOK, NEW s \in Shards, NEW bad \in SUBSET (1..Len(batch[s])),
         MarkBroken(s, bad)
  PROVE  /\ batch' \in [Shards -> Seq(Msgs)]
         /\ Len(batch'[s]) = Len(batch[s])
         /\ \A i \in 1..Len(batch[s]) :
              /\ Id(batch'[s][i]) = Id(batch[s][i])
              /\ batch'[s][i].broken = (batch[s][i].broken \/ i \in bad)
         /\ \A r \in Shards \ {s} : batch'[r] = batch[r]
         /\ consumed' \subseteq Ids
         /\ consumed \subseteq consumed'
<1> DEFINE new == [i \in 1..Len(batch[s]) |->
                     IF i \in bad THEN [batch[s][i] EXCEPT !.broken = TRUE]
                     ELSE batch[s][i]]
<1>1. \A i \in 1..Len(batch[s]) : batch[s][i] \in Msgs
  BY SliceFacts
<1>2. \A i \in 1..Len(batch[s]) :
        /\ new[i] \in Msgs
        /\ Id(new[i]) = Id(batch[s][i])
        /\ new[i].broken = (batch[s][i].broken \/ i \in bad)
  BY Zenon, <1>1 DEF Msgs, Id
<1>3. new \in Seq(Msgs) /\ Len(new) = Len(batch[s])
  <2>1. Len(batch[s]) \in Nat
    BY SliceFacts
  <2>2. new \in [1..Len(batch[s]) -> Msgs]
    BY Zenon, <1>2
  <2> HIDE DEF new
  <2>3. QED
    BY <2>1, <2>2
<1>4. batch' = [batch EXCEPT ![s] = new]
  BY DEF MarkBroken
<1>5. consumed' = consumed \cup {Id(batch[s][i]) : i \in bad}
  BY Zenon DEF MarkBroken
<1>6. consumed' \subseteq Ids /\ consumed \subseteq consumed'
  BY Zenon, <1>1, <1>5, IdType DEF TypeOK
<1> HIDE DEF new
<1>7. batch'[s] = new /\ batch' \in [Shards -> Seq(Msgs)]
  BY Zenon, <1>3, <1>4 DEF TypeOK
<1>8. \A r \in Shards \ {s} : batch'[r] = batch[r]
  BY Zenon, <1>4 DEF TypeOK
<1>9. QED
  BY <1>2, <1>3, <1>6, <1>7, <1>8

LEMMA WriteType ==
  ASSUME TypeOK, NEW s \in Shards, NEW I \in SUBSET (1..Len(batch[s])), Write(s, I)
  PROVE  /\ stored' = stored \cup {Id(batch[s][i]) : i \in I}
         /\ stored' \subseteq Ids
         /\ value' \in [Devices -> 0..MaxSeq]
BY SliceFacts, IdType DEF Write, Apply, TypeOK

\* The slice flushOps works on is a slice of the batch.
SliceInRange == \A s \in Shards : slice[s] <= Len(batch[s])

Typed == TypeOK /\ SliceInRange

LEMMA LiveIndices ==
  ASSUME Typed, NEW s \in Shards
  PROVE  Live(s) \subseteq 1..Len(batch[s])
BY SliceFacts DEF Live, Slice, Typed, SliceInRange

LEMMA ConversionsEffect ==
  ASSUME Typed, NEW s \in Shards, NEW V \in SUBSET Live(s), Conversions(s, V)
  PROVE  /\ batch' \in [Shards -> Seq(Msgs)]
         /\ Len(batch'[s]) = Len(batch[s])
         /\ \A i \in 1..Len(batch[s]) :
              /\ Id(batch'[s][i]) = Id(batch[s][i])
              /\ batch[s][i].broken => batch'[s][i].broken
              /\ batch'[s][i].broken /\ ~batch[s][i].broken => Id(batch[s][i]) \in consumed'
         /\ \A r \in Shards \ {s} : batch'[r] = batch[r]
         /\ consumed' \subseteq Ids
         /\ consumed \subseteq consumed'
         /\ cl' \in [Devices -> [1..MaxGen -> Clients]]
<1>1. PICK bad \in SUBSET (1..Len(batch[s])) : MarkBroken(s, bad)
  BY Zenon, LiveIndices DEF Conversions
<1>2. consumed' = consumed \cup {Id(batch[s][i]) : i \in bad}
  BY <1>1 DEF MarkBroken
<1>3. cl' \in [Devices -> [1..MaxGen -> Clients]]
  BY <1>1, AckType DEF MarkBroken, Typed
<1>4. QED
  BY ZenonT(30), <1>1, <1>2, <1>3, MarkBrokenEffect DEF Typed

LEMMA SubmitType ==
  ASSUME TypeOK, NEW m \in Msgs, Submit(m)
  PROVE  /\ cl' \in [Devices -> [1..MaxGen -> Clients]]
         /\ queue' \in [Shards -> Seq(Msgs)]
         /\ senders' \in [Shards -> Seq(Msgs)]
<1> DEFINE s == ShardOf[m.dev]
<1>1. m.dev \in Devices /\ s \in Shards
  BY Zenon, PipelineAssumption DEF Msgs
<1>2. Append(queue[s], m) \in Seq(Msgs) /\ Append(senders[s], m) \in Seq(Msgs)
  BY SMTT(30), <1>1 DEF TypeOK
<1>3. cl' \in [Devices -> [1..MaxGen -> Clients]]
  BY Zenon, SetClientType, ClientStates, InitialValues DEF Submit, TypeOK
<1>4. queue' \in [Shards -> Seq(Msgs)] /\ senders' \in [Shards -> Seq(Msgs)]
  BY ZenonT(30), <1>1, <1>2 DEF Submit, TypeOK, laneVars
<1>5. QED
  BY <1>3, <1>4

\* Every step keeps the state well typed.
LEMMA TypedStep ==
  ASSUME Typed, [Next]_vars
  PROVE  Typed'
<1> USE DEF deviceVars, laneVars, flushVars, dbVars, endVars
<1>t. TypeOK
  BY DEF Typed
<1>1. ASSUME NEW d \in Devices, Publish(d)
      PROVE  Typed'
  <2>1. PICK m \in Outgoing(d) :
          /\ next' = [next EXCEPT ![d] = m.seq]
          /\ unacked' = [unacked EXCEPT ![d] = IF m.qos = 0 THEN {} ELSE {m}]
          /\ Submit(m)
    BY Zenon, <1>1 DEF Publish
  <2>2. m \in Msgs
    BY <1>t, OutgoingType
  <2>3. m.seq \in 0..MaxSeq
    BY <2>2 DEF Msgs
  <2>4. QED
    BY ZenonT(30), <1>1, <1>t, <2>1, <2>2, <2>3, SubmitType
    DEF Publish, Typed, TypeOK, SliceInRange
<1>2. ASSUME NEW d \in Devices, NEW g \in 1..MaxGen, Puback(d, g)
      PROVE  Typed'
  <2>1. cl[d][g].seq \in 0..MaxSeq
    BY ZenonT(30), <1>t DEF Clients, TypeOK
  <2>2. acked' \subseteq [dev : Devices, seq : 0..MaxSeq]
    BY <1>2, <1>t, <2>1 DEF Puback, TypeOK
  <2>3. unacked' \in [Devices -> SUBSET Msgs]
    <3>1. {m \in unacked[d] : m.seq # cl[d][g].seq} \in SUBSET Msgs
      BY Zenon, <1>t DEF TypeOK
    <3>2. \/ unacked' = unacked
          \/ unacked' = [unacked EXCEPT ![d] = {m \in unacked[d] : m.seq # cl[d][g].seq}]
      BY Zenon, <1>2 DEF Puback
    <3>3. QED
      BY Zenon, <1>t, <3>1, <3>2 DEF TypeOK
  <2>4. cl' \in [Devices -> [1..MaxGen -> Clients]]
    BY Zenon, <1>2, <1>t, InitialValues DEF Puback, TypeOK
  <2>5. QED
    BY Zenon, <1>2, <1>t, <2>2, <2>3, <2>4 DEF Puback, Typed, TypeOK, SliceInRange
<1>3. ASSUME NEW d \in Devices, NEW g \in 1..MaxGen, RejectPacket(d, g)
      PROVE  Typed'
  <2>1. cl' \in [Devices -> [1..MaxGen -> Clients]]
    BY <1>3, <1>t, InitialValues DEF RejectPacket, TypeOK
  <2>2. QED
    BY Zenon, <1>3, <1>t, <2>1 DEF RejectPacket, Typed, TypeOK, SliceInRange
<1>4. ASSUME NEW d \in Devices, Reconnect(d)
      PROVE  Typed'
  <2>1. faults' \in 0..MaxFaults
    BY <1>4, <1>t, PipelineAssumption DEF Reconnect, Fault, TypeOK
  <2>2. gen[d] + 1 \in 1..MaxGen
    BY <1>4, <1>t, PipelineAssumption DEF Reconnect, TypeOK
  <2>3. gen' = [gen EXCEPT ![d] = gen[d] + 1]
    BY <1>4 DEF Reconnect
  <2>4. gen' \in [Devices -> 1..MaxGen]
    BY <1>t, <2>2, <2>3 DEF TypeOK
  <2>5. QED
    BY Zenon, <1>4, <1>t, <2>1, <2>4 DEF Reconnect, Typed, TypeOK, SliceInRange
<1>5. ASSUME NEW s \in Shards, Receive(s)
      PROVE  Typed'
  <2>1. Head(queue[s]) \in Msgs /\ Tail(queue[s]) \in Seq(Msgs)
    BY <1>5, <1>t DEF Receive, TypeOK
  <2>2. CASE senders[s] = <<>>
    BY Zenon, <1>5, <1>t, <2>1, <2>2 DEF Receive, Typed, TypeOK, SliceInRange
  <2>3. CASE senders[s] # <<>>
    <3>1. Head(senders[s]) \in Msgs /\ Tail(senders[s]) \in Seq(Msgs)
      BY <1>t, <2>3 DEF TypeOK
    <3>2. Append(Tail(queue[s]), Head(senders[s])) \in Seq(Msgs)
      BY <2>1, <3>1
    <3>3. cl' \in [Devices -> [1..MaxGen -> Clients]]
      BY Zenon, <1>5, <1>t, <2>3, <3>1, SetClientType, ClientStates DEF Receive
    <3>4. /\ queue' = [queue EXCEPT ![s] = Append(Tail(queue[s]), Head(senders[s]))]
          /\ senders' = [senders EXCEPT ![s] = Tail(senders[s])]
      BY <1>5, <2>3 DEF Receive
    <3>5. queue' \in [Shards -> Seq(Msgs)] /\ senders' \in [Shards -> Seq(Msgs)]
      BY <1>t, <3>1, <3>2, <3>4 DEF TypeOK
    <3>6. QED
      BY Zenon, <1>5, <1>t, <2>1, <3>3, <3>5 DEF Receive, Typed, TypeOK, SliceInRange
  <2>4. QED
    BY <2>2, <2>3
<1>6. ASSUME NEW s \in Shards, ReceiveClosed(s) \/ TimerFires(s) \/ FlushFirst(s)
      PROVE  Typed'
  <2>1. PICK cont \in {"select", "control", "exit"} : FlushShard(s, cont)
    BY <1>6 DEF ReceiveClosed, TimerFires, FlushFirst
  <2>2. SliceInRange'
    BY <1>t, <2>1, SliceFacts DEF FlushShard, Typed, SliceInRange, TypeOK
  <2>3. QED
    BY Zenon, <1>6, <1>t, <2>1, <2>2, FlushShardType
    DEF ReceiveClosed, TimerFires, FlushFirst, Typed, TypeOK
<1>7. ASSUME NEW s \in Shards, ContextDone(s) \/ Retry(s)
      PROVE  Typed'
  BY Zenon, <1>7, <1>t DEF ContextDone, Retry, Typed, TypeOK, SliceInRange
<1>8. ASSUME NEW s \in Shards, Reject(s) \/ HandleControl(s)
      PROVE  Typed'
  <2>1. PICK m \in cur[s] :
          /\ Ack({m})
          /\ \/ consumed' = consumed \cup {Id(m)} /\ handled' = handled
             \/ handled' = handled \cup {Id(m)} /\ consumed' = consumed
    BY Zenon, <1>8 DEF Reject, HandleControl
  <2>2. m \in Msgs /\ Id(m) \in Ids
    BY <1>t, IdType DEF TypeOK
  <2>3. AfterHandle(s, batch[s]) /\ batch[s] \in Seq(Msgs)
    BY Zenon, <1>8, <1>t DEF Reject, HandleControl, TypeOK
  <2>4. SliceInRange'
    BY <1>t, <2>3, SliceFacts DEF AfterHandle, Typed, SliceInRange, TypeOK
  <2>5. QED
    BY Zenon, <1>8, <1>t, <2>1, <2>2, <2>3, <2>4, AckType, AfterHandleType
    DEF Reject, HandleControl, Typed, TypeOK
<1>9. ASSUME NEW s \in Shards, AddOp(s)
      PROVE  Typed'
  <2>1. PICK m \in cur[s] : AfterHandle(s, Append(batch[s], m))
    BY Zenon, <1>9 DEF AddOp
  <2>2. Append(batch[s], m) \in Seq(Msgs)
    BY <1>t DEF TypeOK
  <2>3. SliceInRange'
    BY <1>t, <2>1, <2>2 DEF AfterHandle, Typed, SliceInRange, TypeOK
  <2>4. QED
    BY Zenon, <1>9, <1>t, <2>1, <2>2, <2>3, AfterHandleType DEF AddOp, Typed, TypeOK
<1>10. ASSUME NEW s \in Shards, HandleStoreFails(s)
       PROVE  Typed'
  <2>1. faults' \in 0..MaxFaults
    BY <1>10, <1>t, PipelineAssumption DEF HandleStoreFails, Fault, TypeOK
  <2>2. CASE UNCHANGED <<cur, spc, flushVars, armed>>
    BY Zenon, <1>10, <1>t, <2>1, <2>2 DEF HandleStoreFails, Typed, TypeOK, SliceInRange
  <2>3. CASE AfterHandle(s, batch[s])
    <3>1. batch[s] \in Seq(Msgs)
      BY Zenon, <1>t DEF TypeOK
    <3>2. SliceInRange'
      BY <1>t, <2>3, <3>1 DEF AfterHandle, Typed, SliceInRange, TypeOK
    <3>3. QED
      BY Zenon, <1>10, <1>t, <2>1, <2>3, <3>1, <3>2, AfterHandleType
      DEF HandleStoreFails, Typed, TypeOK
  <2>4. QED
    BY Zenon, <1>10, <2>2, <2>3 DEF HandleStoreFails
<1>11. ASSUME NEW s \in Shards, HandlePanics(s) \/ FinalizePanics(s)
       PROVE  Typed'
  <2>1. PICK b \in Seq(Msgs) : RestartPass(s, b)
    BY Zenon, <1>11, <1>t, CompactType DEF HandlePanics, FinalizePanics, TypeOK
  <2>2. faults' \in 0..MaxFaults
    BY SMTT(30), <1>11, <1>t, PipelineAssumption DEF HandlePanics, FinalizePanics, Fault, TypeOK
  <2>3. cl' \in [Devices -> [1..MaxGen -> Clients]]
    BY Zenon, <1>11, <1>t, AckType DEF HandlePanics, FinalizePanics, TypeOK
  <2>4. SliceInRange'
    BY <1>t, <2>1 DEF RestartPass, Typed, SliceInRange, TypeOK
  <2>5. QED
    BY Zenon, <1>11, <1>t, <2>1, <2>2, <2>3, <2>4, RestartPassType
    DEF HandlePanics, FinalizePanics, Typed, TypeOK
<1>12. ASSUME NEW s \in Shards, CommitOk(s)
       PROVE  Typed'
  <2>1. Conversions(s, Live(s)) /\ Live(s) \in SUBSET (1..Len(batch[s]))
    BY <1>12, LiveIndices DEF CommitOk
  <2>2. Write(s, Written(s, Live(s))) /\ Written(s, Live(s)) \in SUBSET (1..Len(batch[s]))
    BY <1>12, <2>1 DEF CommitOk, Written
  <2>3. SliceInRange'
    BY Zenon, <1>12, <1>t, <2>1, ConversionsEffect DEF CommitOk, Typed, SliceInRange, TypeOK
  <2>4. QED
    BY Zenon, <1>12, <1>t, <2>1, <2>2, <2>3, ConversionsEffect, WriteType
    DEF CommitOk, Typed, TypeOK
<1>13. ASSUME NEW s \in Shards, CommitTransient(s) \/ BatchRefused(s)
       PROVE  Typed'
  <2>1. CommitFails(s) /\ faults' \in 0..MaxFaults
    BY <1>13, <1>t, PipelineAssumption DEF CommitTransient, BatchRefused, Fault, TypeOK
  <2>2. PICK j : /\ Conversions(s, {i \in Live(s) : i < j})
                 /\ Write(s, Written(s, {i \in Props(s, Live(s)) : i < j}))
    BY Zenon, <2>1 DEF CommitFails
  <2>3. Written(s, {i \in Props(s, Live(s)) : i < j}) \in SUBSET (1..Len(batch[s]))
    BY Zenon, LiveIndices DEF Written, Props
  <2>4. /\ spc' \in [Shards -> {"select", "handle", "commit", "park", "finalize",
                                "control", "exit"}]
        /\ slice' \in [Shards -> Nat]
    <3>1. CASE CommitTransient(s)
      BY Zenon, <1>t, <3>1 DEF CommitTransient, TypeOK
    <3>2. CASE BatchRefused(s)
      BY Zenon, <1>t, <3>2 DEF BatchRefused, TypeOK
    <3>3. QED
      BY Zenon, <1>13, <3>1, <3>2
  <2>5. SliceInRange'
    <3>1. /\ Len(batch'[s]) = Len(batch[s])
          /\ \A r \in Shards \ {s} : batch'[r] = batch[r]
      BY Zenon, <2>2, ConversionsEffect
    <3>2. /\ \A r \in Shards \ {s} : slice'[r] = slice[r]
          /\ \/ slice'[s] = slice[s]
             \/ slice'[s] = 1 /\ Len(batch[s]) > 1
      <4>1. CASE CommitTransient(s)
        BY Zenon, <4>1 DEF CommitTransient
      <4>2. CASE BatchRefused(s)
        BY Zenon, <1>t, <4>2 DEF BatchRefused, TypeOK
      <4>3. QED
        BY Zenon, <1>13, <4>1, <4>2
    <3>3. QED
      BY <1>t, <3>1, <3>2, SliceFacts DEF Typed, SliceInRange
  <2>6. QED
    BY Zenon, <1>t, <2>1, <2>2, <2>3, <2>4, <2>5, ConversionsEffect, WriteType
    DEF CommitFails, Typed, TypeOK
<1>14. ASSUME NEW s \in Shards, OpRefused(s) \/ Abandon(s) \/ Finalize(s)
       PROVE  Typed'
  <2>1. EndSlice(s)
    BY Zenon, <1>14 DEF OpRefused, Abandon, Finalize
  <2>2. cl' \in [Devices -> [1..MaxGen -> Clients]]
    BY Zenon, <1>14, <1>t, AckType DEF OpRefused, Abandon, Finalize, TypeOK
  <2>3. consumed' \subseteq Ids
    <3>1. CASE OpRefused(s)
      <4>1. PICK i \in Live(s) : consumed' = consumed \cup {Id(batch[s][i])}
        BY Zenon, <3>1 DEF OpRefused
      <4>2. Id(batch[s][i]) \in Ids
        BY Zenon, <1>t, LiveIndices, SliceFacts, IdType
      <4>3. QED
        BY Zenon, <1>t, <4>1, <4>2 DEF TypeOK
    <3>2. CASE Abandon(s) \/ Finalize(s)
      BY Zenon, <1>t, <3>2 DEF Abandon, Finalize, TypeOK
    <3>3. QED
      BY Zenon, <1>14, <3>1, <3>2
  <2>4. faults' \in 0..MaxFaults
    BY <1>14, <1>t, PipelineAssumption DEF OpRefused, Abandon, Finalize, Fault, TypeOK
  <2>5. SliceInRange'
    <3>1. CASE slice[s] = 0 \/ slice[s] = Len(batch[s])
      BY <1>t, <2>1, <3>1, InitialValues DEF EndSlice, Typed, SliceInRange, TypeOK
    <3>2. CASE ~(slice[s] = 0 \/ slice[s] = Len(batch[s]))
      <4>1. slice' = [slice EXCEPT ![s] = slice[s] + 1] /\ batch' = batch
        BY Zenon, <2>1, <3>2 DEF EndSlice
      <4>2. slice[s] + 1 <= Len(batch[s])
        BY <1>t, <3>2, SliceFacts DEF Typed, SliceInRange
      <4>3. QED
        BY Zenon, <1>t, <4>1, <4>2 DEF Typed, SliceInRange, TypeOK
    <3>3. QED
      BY Zenon, <3>1, <3>2
  <2>6. QED
    BY ZenonT(30), <1>14, <1>t, <2>1, <2>2, <2>3, <2>4, <2>5, EndSliceType
    DEF OpRefused, Abandon, Finalize, Typed, TypeOK
<1>15. ASSUME ServeError \/ Signal \/ StopStep
       PROVE  Typed'
  BY Zenon, <1>15, <1>t
  DEF ServeError, Signal, StopStep, BrokerClosing, BrokerClosed, CloseLanes,
      DrainReturns, StopVars, Typed, TypeOK, SliceInRange
<1>16. ASSUME Restart \/ Crash
       PROVE  Typed'
  <2>1. Boot /\ faults' \in 0..MaxFaults
    BY <1>16, <1>t, PipelineAssumption DEF Restart, Crash, Fault, TypeOK
  <2>2. cl' \in [Devices -> [1..MaxGen -> Clients]] /\ gen' \in [Devices -> 1..MaxGen]
    BY Zenon, <2>1, InitialValues DEF Boot
  <2>3. /\ queue' \in [Shards -> Seq(Msgs)] /\ senders' \in [Shards -> Seq(Msgs)]
        /\ batch' \in [Shards -> Seq(Msgs)]
    BY Zenon, <2>1, InitialValues DEF Boot
  <2>4. SliceInRange'
    BY <2>1, InitialValues DEF Boot, SliceInRange
  <2>5. QED
    BY Zenon, <1>t, <2>1, <2>2, <2>3, <2>4 DEF Boot, Typed, TypeOK
<1>17. CASE UNCHANGED vars
  BY Zenon, <1>17, <1>t DEF vars, Typed, TypeOK, SliceInRange
<1>18. QED
  BY Zenon, <1>1, <1>2, <1>3, <1>4, <1>5, <1>6, <1>7, <1>8, <1>9, <1>10, <1>11,
     <1>12, <1>13, <1>14, <1>15, <1>16, <1>17
  DEF Next, ClientStep, ShardStep

LEMMA InitTyped == Init => Typed
<1> SUFFICES ASSUME Init PROVE Typed
  OBVIOUS
<1>1. /\ cl \in [Devices -> [1..MaxGen -> Clients]]
      /\ gen \in [Devices -> 1..MaxGen]
      /\ next \in [Devices -> 0..MaxSeq] /\ value \in [Devices -> 0..MaxSeq]
      /\ faults \in 0..MaxFaults
  BY InitialValues DEF Init
<1>2. /\ queue \in [Shards -> Seq(Msgs)] /\ senders \in [Shards -> Seq(Msgs)]
      /\ batch \in [Shards -> Seq(Msgs)] /\ SliceInRange
  BY InitialValues DEF Init, SliceInRange
<1>3. QED
  BY Zenon, <1>1, <1>2 DEF Init, Typed, TypeOK

\* TypeOK holds in every reachable state of the pipeline.
THEOREM TypeCorrect == Spec => []TypeOK
<1>1. Init => Typed
  BY Zenon, InitTyped
<1>2. Typed /\ [Next]_vars => Typed'
  BY TypedStep
<1>3. Typed => TypeOK
  BY Zenon DEF Typed
<1>4. QED
  BY <1>1, <1>2, <1>3, PTL DEF Spec

-----------------------------------------------------------------------------
(* Acknowledgment after commit *)

Ended == stored \cup handled \cup consumed

Settled(d, n) == \E x \in Ended : x.dev = d /\ x.seq = n

\* A goroutine whose acked channel is closed waits for a settled message.
FlagSettled ==
  \A d \in Devices, g \in 1..MaxGen :
    cl[d][g].acked => Settled(d, cl[d][g].seq)

\* A flush acknowledges only what its commit wrote.
FinalizeStored ==
  \A s \in Shards : spc[s] = "finalize" =>
    \A i \in Live(s) : Id(batch[s][i]) \in stored

AckInv == Typed /\ FlagSettled /\ FinalizeStored /\ AckedIsSettled

\* Nothing that ended is forgotten, and no message is acknowledged but those
\* in M, all of which ended: the flags stay truthful.
LEMMA AckKeepsFlags ==
  ASSUME TypeOK, FlagSettled, Ended \subseteq Ended', NEW M \in SUBSET Msgs, Ack(M),
         \A m \in M : Id(m) \in Ended'
  PROVE  FlagSettled'
<1> SUFFICES ASSUME NEW d \in Devices, NEW g \in 1..MaxGen, cl'[d][g].acked
             PROVE  \E x \in Ended' : x.dev = d /\ x.seq = cl'[d][g].seq
  BY DEF FlagSettled, Settled
<1>1. cl[d][g] \in Clients
  BY Zenon DEF TypeOK
<1>2. CASE \E m \in M : m.dev = d /\ m.gen = g /\ m.seq = cl[d][g].seq
  <2>1. PICK m \in M : m.dev = d /\ m.gen = g /\ m.seq = cl[d][g].seq
    BY Zenon, <1>2
  <2>2. cl'[d][g].seq = cl[d][g].seq
    BY Zenon, <1>1 DEF Ack, Clients
  <2>3. Id(m) \in Ended' /\ Id(m).dev = d /\ Id(m).seq = cl[d][g].seq
    BY Zenon, <2>1 DEF Id
  <2>4. QED
    BY Zenon, <2>2, <2>3
<1>3. CASE ~\E m \in M : m.dev = d /\ m.gen = g /\ m.seq = cl[d][g].seq
  <2>1. cl'[d][g] = cl[d][g]
    BY Zenon, <1>3 DEF Ack
  <2>2. Settled(d, cl[d][g].seq)
    BY Zenon, <2>1 DEF FlagSettled
  <2>3. QED
    BY Zenon, <2>1, <2>2 DEF Settled
<1>4. QED
  BY Zenon, <1>2, <1>3

\* Goroutines that are only moved on, or start over unacknowledged.
LEMMA QuietKeepsFlags ==
  ASSUME FlagSettled, Ended \subseteq Ended',
         \A d \in Devices, g \in 1..MaxGen :
           cl'[d][g] = cl[d][g] \/ ~cl'[d][g].acked
  PROVE  FlagSettled'
BY DEF FlagSettled, Settled

LEMMA EndedKeepsAcked ==
  ASSUME AckedIsSettled, Ended \subseteq Ended', acked' = acked
  PROVE  AckedIsSettled'
BY Zenon DEF AckedIsSettled, Ended

LEMMA OtherShardsFinalize ==
  ASSUME Typed, FinalizeStored, stored \subseteq stored', NEW s \in Shards,
         spc'[s] # "finalize",
         \A r \in Shards \ {s} :
           spc'[r] = spc[r] /\ batch'[r] = batch[r] /\ slice'[r] = slice[r]
  PROVE  FinalizeStored'
BY Zenon DEF FinalizeStored, Live, Slice

LEMMA AckInvStep ==
  ASSUME AckInv, [Next]_vars
  PROVE  AckInv'
<1> USE DEF deviceVars, laneVars, flushVars, dbVars, endVars
<1>a. TypeOK /\ Typed /\ FlagSettled /\ FinalizeStored /\ AckedIsSettled
  BY DEF AckInv, Typed
<1>b. Typed'
  BY Zenon, <1>a, TypedStep
<1>c. SUFFICES FlagSettled' /\ FinalizeStored' /\ AckedIsSettled'
  BY Zenon, <1>b DEF AckInv
<1>1. ASSUME NEW d \in Devices, Publish(d)
      PROVE  FlagSettled' /\ FinalizeStored' /\ AckedIsSettled'
  <2>1. PICK m \in Outgoing(d) : Submit(m)
    BY Zenon, <1>1 DEF Publish
  <2>2. m \in Msgs
    BY Zenon, <1>a, OutgoingType
  <2>3. \A e \in Devices, g \in 1..MaxGen : cl'[e][g] = cl[e][g] \/ ~cl'[e][g].acked
    <3>1. cl' = cl \/ \E c \in Clients : ~c.acked /\ SetClient(m, c)
      BY Zenon, <2>1, <2>2, ClientStates, InitialValues DEF Submit, Idle, Waiting
    <3>2. ASSUME NEW c \in Clients, ~c.acked, SetClient(m, c)
          PROVE  \A e \in Devices, g \in 1..MaxGen : cl'[e][g] = cl[e][g] \/ ~cl'[e][g].acked
      BY Zenon, <1>a, <3>2 DEF SetClient, TypeOK
    <3>3. QED
      BY Zenon, <3>1, <3>2
  <2>4. Ended' = Ended /\ acked' = acked
    BY Zenon, <1>1 DEF Publish, Ended
  <2>5. QED
    BY ZenonT(30), <1>1, <1>a, <2>3, <2>4, QuietKeepsFlags, EndedKeepsAcked
    DEF Publish, FinalizeStored, Live, Slice
<1>2. ASSUME NEW d \in Devices, NEW g \in 1..MaxGen, Puback(d, g)
      PROVE  FlagSettled' /\ FinalizeStored' /\ AckedIsSettled'
  <2>1. Ended' = Ended
    BY Zenon, <1>2 DEF Puback, Ended
  <2>2. \A e \in Devices, h \in 1..MaxGen : cl'[e][h] = cl[e][h] \/ ~cl'[e][h].acked
    BY Zenon, <1>2, <1>a DEF Puback, TypeOK, Idle
  <2>3. AckedIsSettled'
    <3>1. PICK x \in Ended : x.dev = d /\ x.seq = cl[d][g].seq
      BY Zenon, <1>2, <1>a DEF Puback, FlagSettled, Settled
    <3>2. Key(x) = [dev |-> d, seq |-> cl[d][g].seq]
      BY Zenon, <3>1 DEF Key
    <3>3. \A k \in acked' : k \in acked \/ k = Key(x)
      BY Zenon, <1>2, <3>2 DEF Puback
    <3>4. QED
      BY Zenon, <1>a, <2>1, <3>3 DEF AckedIsSettled, Ended
  <2>4. QED
    BY Zenon, <1>2, <1>a, <2>1, <2>2, <2>3, QuietKeepsFlags
    DEF Puback, FinalizeStored, Live, Slice
<1>3. ASSUME NEW d \in Devices, NEW g \in 1..MaxGen, RejectPacket(d, g)
      PROVE  FlagSettled' /\ FinalizeStored' /\ AckedIsSettled'
  <2>1. Ended' = Ended /\ acked' = acked
    BY Zenon, <1>3 DEF RejectPacket, Ended
  <2>2. \A e \in Devices, h \in 1..MaxGen : cl'[e][h] = cl[e][h] \/ ~cl'[e][h].acked
    BY Zenon, <1>3, <1>a DEF RejectPacket, TypeOK, Idle
  <2>3. QED
    BY Zenon, <1>3, <1>a, <2>1, <2>2, QuietKeepsFlags, EndedKeepsAcked
    DEF RejectPacket, FinalizeStored, Live, Slice
<1>4. ASSUME NEW d \in Devices, Reconnect(d)
      PROVE  FlagSettled' /\ FinalizeStored' /\ AckedIsSettled'
  BY <1>4, <1>a
  DEF Reconnect, FlagSettled, Settled, Ended, FinalizeStored, Live, Slice, AckedIsSettled
<1>5. ASSUME NEW s \in Shards, Receive(s)
      PROVE  FlagSettled' /\ FinalizeStored' /\ AckedIsSettled'
  <2>1. Ended' = Ended /\ acked' = acked /\ stored' = stored
    BY Zenon, <1>5 DEF Receive, Ended
  <2>2. \A e \in Devices, h \in 1..MaxGen : cl'[e][h] = cl[e][h] \/ ~cl'[e][h].acked
    <3>1. CASE senders[s] = <<>>
      BY Zenon, <1>5, <3>1 DEF Receive
    <3>2. CASE senders[s] # <<>>
      <4>1. SetClient(Head(senders[s]), Waiting(Head(senders[s])))
        BY <1>5, <3>2 DEF Receive
      <4>2. ~Waiting(Head(senders[s])).acked
        BY Zenon DEF Waiting
      <4> HIDE DEF Waiting
      <4>3. QED
        BY Zenon, <1>a, <4>1, <4>2 DEF SetClient, TypeOK
    <3>3. QED
      BY Zenon, <3>1, <3>2
  <2>3. /\ spc'[s] # "finalize"
        /\ \A r \in Shards \ {s} :
             spc'[r] = spc[r] /\ batch'[r] = batch[r] /\ slice'[r] = slice[r]
    BY Zenon, <1>5, <1>a DEF Receive, TypeOK
  <2>4. QED
    BY Zenon, <1>a, <2>1, <2>2, <2>3, QuietKeepsFlags, EndedKeepsAcked, OtherShardsFinalize
<1>6. ASSUME NEW s \in Shards, ReceiveClosed(s) \/ TimerFires(s) \/ FlushFirst(s)
      PROVE  FlagSettled' /\ FinalizeStored' /\ AckedIsSettled'
  <2>1. PICK cont \in {"select", "control", "exit"} : FlushShard(s, cont)
    BY <1>6 DEF ReceiveClosed, TimerFires, FlushFirst
  <2>2. Ended' = Ended /\ acked' = acked /\ stored' = stored /\ cl' = cl
    BY Zenon, <1>6 DEF ReceiveClosed, TimerFires, FlushFirst, Ended
  <2>3. /\ spc'[s] # "finalize"
        /\ \A r \in Shards \ {s} :
             spc'[r] = spc[r] /\ batch'[r] = batch[r] /\ slice'[r] = slice[r]
    BY Zenon, <1>a, <2>1 DEF FlushShard, TypeOK
  <2>4. QED
    BY Zenon, <1>a, <2>2, <2>3, QuietKeepsFlags, EndedKeepsAcked, OtherShardsFinalize
<1>7. ASSUME NEW s \in Shards, ContextDone(s) \/ Retry(s)
      PROVE  FlagSettled' /\ FinalizeStored' /\ AckedIsSettled'
  <2>1. Ended' = Ended /\ acked' = acked /\ stored' = stored /\ cl' = cl
    BY Zenon, <1>7 DEF ContextDone, Retry, Ended
  <2>2. /\ spc'[s] # "finalize"
        /\ \A r \in Shards \ {s} :
             spc'[r] = spc[r] /\ batch'[r] = batch[r] /\ slice'[r] = slice[r]
    BY Zenon, <1>7, <1>a DEF ContextDone, Retry, TypeOK
  <2>3. QED
    BY Zenon, <1>a, <2>1, <2>2, QuietKeepsFlags, EndedKeepsAcked, OtherShardsFinalize
<1>8. ASSUME NEW s \in Shards, Reject(s) \/ HandleControl(s)
      PROVE  FlagSettled' /\ FinalizeStored' /\ AckedIsSettled'
  <2>1. PICK m \in cur[s] : /\ Ack({m})
                            /\ stored' = stored
                            /\ Ended' = Ended \cup {Id(m)}
    BY Zenon, <1>8 DEF Reject, HandleControl, Ended
  <2>2. m \in Msgs
    BY Zenon, <1>a DEF TypeOK
  <2>3. AfterHandle(s, batch[s]) /\ acked' = acked
    BY Zenon, <1>8 DEF Reject, HandleControl
  <2>4. /\ spc'[s] # "finalize"
        /\ \A r \in Shards \ {s} :
             spc'[r] = spc[r] /\ batch'[r] = batch[r] /\ slice'[r] = slice[r]
    BY Zenon, <1>a, <2>3 DEF AfterHandle, TypeOK
  <2>5. FlagSettled'
    BY Zenon, <1>a, <2>1, <2>2, AckKeepsFlags
  <2>6. QED
    BY Zenon, <1>a, <2>1, <2>3, <2>4, <2>5, EndedKeepsAcked, OtherShardsFinalize
<1>9. ASSUME NEW s \in Shards, AddOp(s) \/ HandleStoreFails(s) \/ HandlePanics(s)
      PROVE  FlagSettled' /\ FinalizeStored' /\ AckedIsSettled'
  <2>1. Ended' = Ended /\ acked' = acked /\ stored' = stored /\ cl' = cl
    BY Zenon, <1>9 DEF AddOp, HandleStoreFails, HandlePanics, Ended
  <2>2. CASE UNCHANGED <<cur, spc, flushVars, armed>>
    BY Zenon, <1>a, <2>1, <2>2, QuietKeepsFlags, EndedKeepsAcked DEF FinalizeStored, Live, Slice
  <2>3. CASE \E b : AfterHandle(s, b) \/ RestartPass(s, b)
    <3>1. /\ spc'[s] # "finalize"
          /\ \A r \in Shards \ {s} :
               spc'[r] = spc[r] /\ batch'[r] = batch[r] /\ slice'[r] = slice[r]
      BY ZenonT(30), <1>a, <2>3 DEF AfterHandle, RestartPass, TypeOK
    <3>2. QED
      BY <1>a, <2>1, <3>1, QuietKeepsFlags, EndedKeepsAcked, OtherShardsFinalize
  <2>4. QED
    BY Zenon, <1>9, <2>2, <2>3 DEF AddOp, HandleStoreFails, HandlePanics
<1>10. ASSUME NEW s \in Shards, CommitOk(s)
       PROVE  FlagSettled' /\ FinalizeStored' /\ AckedIsSettled'
  <2>1. Conversions(s, Live(s)) /\ Live(s) \in SUBSET (1..Len(batch[s]))
    BY <1>10, <1>a, LiveIndices DEF CommitOk
  <2>2. Write(s, Written(s, Live(s))) /\ Written(s, Live(s)) \in SUBSET (1..Len(batch[s]))
    BY <1>10, <2>1 DEF CommitOk, Written
  <2>3. stored' = stored \cup {Id(batch[s][i]) : i \in Written(s, Live(s))}
    BY <1>a, <2>2, WriteType
  <2>4. PICK bad \in SUBSET Live(s) : MarkBroken(s, bad)
    BY Zenon, <2>1 DEF Conversions
  <2>5. Ended \subseteq Ended' /\ acked' = acked
    BY <1>10, <1>a, <2>1, <2>3, ConversionsEffect DEF CommitOk, Ended
  <2>6. FlagSettled'
    <3>1. Ack({batch[s][i] : i \in bad}) /\ {batch[s][i] : i \in bad} \in SUBSET Msgs
      BY Zenon, <1>a, <2>1, <2>4, SliceFacts DEF MarkBroken
    <3>2. \A m \in {batch[s][i] : i \in bad} : Id(m) \in Ended'
      BY Zenon, <2>4 DEF MarkBroken, Ended
    <3>3. QED
      BY Zenon, <1>a, <2>5, <3>1, <3>2, AckKeepsFlags
  <2>7. FinalizeStored'
    <3>1. /\ Len(batch'[s]) = Len(batch[s]) /\ slice' = slice
          /\ \A i \in 1..Len(batch[s]) : /\ Id(batch'[s][i]) = Id(batch[s][i])
                                         /\ batch[s][i].broken => batch'[s][i].broken
          /\ \A r \in Shards \ {s} : batch'[r] = batch[r] /\ spc'[r] = spc[r]
      BY Zenon, <1>10, <1>a, <2>1, ConversionsEffect DEF CommitOk, TypeOK
    <3>2. \A i \in Live(s)' : i \in Written(s, Live(s))
      <4>1. Slice(s)' = Slice(s)
        BY Zenon, <3>1 DEF Slice
      <4>2. Slice(s) \subseteq 1..Len(batch[s])
        BY <1>a, SliceFacts DEF Slice, Typed, SliceInRange
      <4>3. \A i \in Live(s)' : i \in Slice(s) /\ ~batch'[s][i].broken
        BY Zenon, <4>1 DEF Live
      <4>4. \A i \in Live(s)' : i \in Live(s)
        BY Zenon, <3>1, <4>2, <4>3 DEF Live
      <4>5. QED
        BY Zenon, <4>3, <4>4 DEF Written
    <3>3. \A i \in Live(s)' : Id(batch'[s][i]) \in stored'
      BY Zenon, <2>2, <2>3, <3>1, <3>2
    <3>4. ASSUME NEW r \in Shards \ {s}, spc'[r] = "finalize", NEW i \in Live(r)'
          PROVE  Id(batch'[r][i]) \in stored'
      BY Zenon, <1>a, <2>3, <3>1, <3>4 DEF FinalizeStored, Live, Slice
    <3>5. QED
      BY Zenon, <3>3, <3>4 DEF FinalizeStored
  <2>8. QED
    BY <1>a, <2>5, <2>6, <2>7, EndedKeepsAcked
<1>11. ASSUME NEW s \in Shards, CommitTransient(s) \/ BatchRefused(s)
       PROVE  FlagSettled' /\ FinalizeStored' /\ AckedIsSettled'
  <2>1. CommitFails(s)
    BY <1>11 DEF CommitTransient, BatchRefused
  <2>2. PICK j : /\ Conversions(s, {i \in Live(s) : i < j})
                 /\ Write(s, Written(s, {i \in Props(s, Live(s)) : i < j}))
    BY Zenon, <2>1 DEF CommitFails
  <2>3. stored \subseteq stored'
    BY <2>2 DEF Write
  <2>4. PICK bad \in SUBSET Live(s) : MarkBroken(s, bad)
    BY ZenonT(30), <2>2 DEF Conversions
  <2>5. Ended \subseteq Ended' /\ acked' = acked
    BY Zenon, <2>1, <2>3, <2>4 DEF CommitFails, MarkBroken, Ended
  <2>6. FlagSettled'
    <3>1. Ack({batch[s][i] : i \in bad}) /\ {batch[s][i] : i \in bad} \in SUBSET Msgs
      BY Zenon, <1>a, <2>4, LiveIndices, SliceFacts DEF MarkBroken
    <3>2. \A m \in {batch[s][i] : i \in bad} : Id(m) \in Ended'
      BY <2>4 DEF MarkBroken, Ended
    <3>3. QED
      BY <1>a, <2>5, <3>1, <3>2, AckKeepsFlags
  <2>7. /\ spc'[s] # "finalize"
        /\ \A r \in Shards \ {s} : spc'[r] = spc[r] /\ slice'[r] = slice[r]
    <3>1. CASE CommitTransient(s)
      BY Zenon, <1>a, <3>1 DEF CommitTransient, TypeOK
    <3>2. CASE BatchRefused(s)
      BY Zenon, <1>a, <2>1, <3>2 DEF BatchRefused, CommitFails, TypeOK
    <3>3. QED
      BY Zenon, <1>11, <3>1, <3>2
  <2>8. \A r \in Shards \ {s} : batch'[r] = batch[r]
    BY Zenon, <1>a, <2>4 DEF MarkBroken, TypeOK
  <2>9. QED
    BY Zenon, <1>a, <2>3, <2>5, <2>6, <2>7, <2>8, EndedKeepsAcked, OtherShardsFinalize
<1>12. ASSUME NEW s \in Shards, OpRefused(s) \/ Abandon(s) \/ Finalize(s)
       PROVE  FlagSettled' /\ FinalizeStored' /\ AckedIsSettled'
  <2>1. EndSlice(s) /\ stored' = stored /\ acked' = acked /\ Ended \subseteq Ended'
    BY Zenon, <1>12 DEF OpRefused, Abandon, Finalize, Ended
  <2>2. /\ spc'[s] # "finalize"
        /\ \A r \in Shards \ {s} :
             spc'[r] = spc[r] /\ batch'[r] = batch[r] /\ slice'[r] = slice[r]
    BY ZenonT(30), <1>a, <2>1 DEF EndSlice, TypeOK
  <2>3. FlagSettled'
    <3>1. CASE OpRefused(s)
      <4>1. PICK i \in Live(s) : /\ Ack({batch[s][i]})
                                 /\ consumed' = consumed \cup {Id(batch[s][i])}
        BY Zenon, <3>1 DEF OpRefused
      <4>2. batch[s][i] \in Msgs
        BY Zenon, <1>a, LiveIndices, SliceFacts
      <4>3. QED
        BY Zenon, <1>a, <2>1, <4>1, <4>2, AckKeepsFlags DEF Ended
    <3>2. CASE Abandon(s)
      BY Zenon, <1>a, <2>1, <3>2, QuietKeepsFlags DEF Abandon
    <3>3. CASE Finalize(s)
      <4>1. Ack({batch[s][i] : i \in Live(s)}) /\ {batch[s][i] : i \in Live(s)} \in SUBSET Msgs
        BY Zenon, <1>a, <3>3, LiveIndices, SliceFacts DEF Finalize
      <4>2. \A m \in {batch[s][i] : i \in Live(s)} : Id(m) \in Ended'
        BY Zenon, <1>a, <2>1, <3>3 DEF Finalize, FinalizeStored, Ended
      <4>3. QED
        BY Zenon, <1>a, <2>1, <4>1, <4>2, AckKeepsFlags
    <3>4. QED
      BY <1>12, <3>1, <3>2, <3>3
  <2>4. QED
    BY Zenon, <1>a, <2>1, <2>2, <2>3, EndedKeepsAcked, OtherShardsFinalize
<1>13. ASSUME NEW s \in Shards, FinalizePanics(s)
       PROVE  FlagSettled' /\ FinalizeStored' /\ AckedIsSettled'
  <2>1. stored' = stored /\ acked' = acked /\ Ended' = Ended
    BY ZenonT(30), <1>13 DEF FinalizePanics, Ended
  <2>2. PICK b : RestartPass(s, b)
    BY Zenon, <1>13 DEF FinalizePanics
  <2>3. /\ spc'[s] # "finalize"
        /\ \A r \in Shards \ {s} :
             spc'[r] = spc[r] /\ batch'[r] = batch[r] /\ slice'[r] = slice[r]
    BY Zenon, <1>a, <2>2 DEF RestartPass, TypeOK
  <2>4. Ack({batch[s][i] : i \in Live(s)}) /\ {batch[s][i] : i \in Live(s)} \in SUBSET Msgs
    BY ZenonT(30), <1>13, <1>a, LiveIndices, SliceFacts DEF FinalizePanics
  <2>5. \A m \in {batch[s][i] : i \in Live(s)} : Id(m) \in Ended'
    BY Zenon, <1>13, <1>a, <2>1 DEF FinalizePanics, FinalizeStored, Ended
  <2>6. FlagSettled'
    BY Zenon, <1>a, <2>1, <2>4, <2>5, AckKeepsFlags
  <2>7. QED
    BY Zenon, <1>a, <2>1, <2>3, <2>6, EndedKeepsAcked, OtherShardsFinalize
<1>14. ASSUME ServeError \/ Signal \/ StopStep \/ UNCHANGED vars
       PROVE  FlagSettled' /\ FinalizeStored' /\ AckedIsSettled'
  <2>1. UNCHANGED <<cl, spc, batch, slice, stored, handled, consumed, acked>>
    BY ZenonT(30), <1>14 DEF ServeError, Signal, StopStep, BrokerClosing, BrokerClosed, CloseLanes,
                 DrainReturns, StopVars, vars
  <2>2. FlagSettled'
    BY <1>a, <2>1 DEF FlagSettled, Settled, Ended
  <2>3. FinalizeStored'
    BY Zenon, <1>a, <2>1 DEF FinalizeStored, Live, Slice
  <2>4. AckedIsSettled'
    BY Zenon, <1>a, <2>1 DEF AckedIsSettled
  <2>5. QED
    BY Zenon, <2>2, <2>3, <2>4
<1>15. ASSUME Restart \/ Crash
       PROVE  FlagSettled' /\ FinalizeStored' /\ AckedIsSettled'
  <2>1. Boot /\ stored' = stored /\ acked' = acked /\ Ended' = Ended
    BY Zenon, <1>15 DEF Restart, Crash, Boot, Ended
  <2>2. \A d \in Devices, g \in 1..MaxGen : ~cl'[d][g].acked
    BY Zenon, <2>1 DEF Boot, Idle
  <2>3. FinalizeStored'
    BY Zenon, <2>1 DEF Boot, FinalizeStored
  <2>4. QED
    BY Zenon, <1>a, <2>1, <2>2, <2>3, QuietKeepsFlags, EndedKeepsAcked
<1>16. QED
  BY Zenon, <1>1, <1>2, <1>3, <1>4, <1>5, <1>6, <1>7, <1>8, <1>9, <1>10, <1>11,
     <1>12, <1>13, <1>14, <1>15
  DEF Next, ClientStep, ShardStep

\* A PUBACK is only ever sent for a message that is in the database or was
\* consumed on purpose, whatever fails, panics, crashes or stops in between.
THEOREM AckAfterCommit == Spec => []AckedIsSettled
<1>1. Init => AckInv
  <2> SUFFICES ASSUME Init PROVE AckInv
    OBVIOUS
  <2>1. Typed
    BY Zenon, InitTyped
  <2>2. FlagSettled /\ FinalizeStored /\ AckedIsSettled
    BY DEF Init, FlagSettled, FinalizeStored, AckedIsSettled, Idle
  <2>3. QED
    BY Zenon, <2>1, <2>2 DEF AckInv
<1>2. AckInv /\ [Next]_vars => AckInv'
  BY AckInvStep
<1>3. AckInv => AckedIsSettled
  BY Zenon DEF AckInv
<1>4. QED
  BY <1>1, <1>2, <1>3, PTL DEF Spec

-----------------------------------------------------------------------------
(* No batch is stranded *)

\* A step that leaves the other shards alone has to be checked on its own.
LEMMA TimerOfOneShard ==
  ASSUME TimerCoversBatch, NEW s \in Shards,
         spc'[s] = "select" /\ batch'[s] # <<>> => armed'[s],
         \A r \in Shards \ {s} :
           spc'[r] = spc[r] /\ batch'[r] = batch[r] /\ armed'[r] = armed[r]
  PROVE  TimerCoversBatch'
BY Zenon DEF TimerCoversBatch

\* Ops wait in a batch only while the flush timer runs.
THEOREM NoStrandedBatch == Spec => []TimerCoversBatch
<1> USE DEF deviceVars, laneVars, flushVars, dbVars, endVars
<1>1. Init => Typed /\ TimerCoversBatch
  BY Zenon, InitTyped DEF Init, TimerCoversBatch
<1>2. Typed /\ TimerCoversBatch /\ [Next]_vars => (Typed /\ TimerCoversBatch)'
  <2> SUFFICES ASSUME Typed, TimerCoversBatch, [Next]_vars
               PROVE  TimerCoversBatch'
    BY Zenon, TypedStep
  <2>t. TypeOK
    BY Zenon DEF Typed
  <2>1. ASSUME UNCHANGED <<spc, batch, armed>>
        PROVE  TimerCoversBatch'
    BY Zenon, <2>1 DEF TimerCoversBatch
  <2>2. ASSUME NEW s \in Shards, Receive(s) \/ ContextDone(s) \/ Retry(s)
        PROVE  TimerCoversBatch'
    BY Zenon, <2>2, <2>t, TimerOfOneShard DEF Receive, ContextDone, Retry, TypeOK
  <2>3. ASSUME NEW s \in Shards, NEW cont, FlushShard(s, cont)
        PROVE  TimerCoversBatch'
    BY Zenon, <2>3, <2>t, TimerOfOneShard DEF FlushShard, TypeOK
  <2>4. ASSUME NEW s \in Shards, NEW b, AfterHandle(s, b)
        PROVE  TimerCoversBatch'
    BY Zenon, <2>4, <2>t, TimerOfOneShard DEF AfterHandle, TypeOK
  <2>5. ASSUME NEW s \in Shards, NEW b, RestartPass(s, b)
        PROVE  TimerCoversBatch'
    BY Zenon, <2>5, <2>t, TimerOfOneShard DEF RestartPass, TypeOK
  <2>6. ASSUME NEW s \in Shards, EndSlice(s), armed' = armed
        PROVE  TimerCoversBatch'
    BY ZenonT(30), <2>6, <2>t, TimerOfOneShard DEF EndSlice, TypeOK
  <2>7. ASSUME NEW s \in Shards, CommitOk(s) \/ CommitTransient(s) \/ BatchRefused(s)
        PROVE  TimerCoversBatch'
    <3>1. PICK bad : MarkBroken(s, bad)
      BY Zenon, <2>7 DEF CommitOk, CommitTransient, BatchRefused, CommitFails, Conversions
    <3>2. \A r \in Shards \ {s} : batch'[r] = batch[r]
      BY <2>t, <3>1 DEF MarkBroken, TypeOK
    <3>3. /\ spc'[s] # "select" /\ armed' = armed
          /\ \A r \in Shards \ {s} : spc'[r] = spc[r]
      BY Zenon, <2>7, <2>t DEF CommitOk, CommitTransient, BatchRefused, CommitFails, TypeOK
    <3>4. QED
      BY <3>2, <3>3, TimerOfOneShard
  <2>8. CASE Restart \/ Crash
    BY ZenonT(30), <2>8 DEF Restart, Crash, Boot, TimerCoversBatch
  <2>9. ASSUME NEW s \in Shards, ShardStep(s)
        PROVE  TimerCoversBatch'
    BY Zenon, <2>9, <2>1, <2>2, <2>3, <2>4, <2>5, <2>6, <2>7
    DEF ShardStep, ReceiveClosed, TimerFires, Reject, AddOp, FlushFirst, HandleControl,
        HandleStoreFails, HandlePanics, OpRefused, Abandon, Finalize, FinalizePanics
  <2>10. ASSUME NEW d \in Devices, ClientStep(d) \/ Reconnect(d)
         PROVE  TimerCoversBatch'
    BY Zenon, <2>10, <2>1 DEF ClientStep, Publish, Puback, RejectPacket, Reconnect
  <2>11. CASE ServeError \/ Signal \/ StopStep \/ UNCHANGED vars
    BY Zenon, <2>11, <2>1
    DEF ServeError, Signal, StopStep, BrokerClosing, BrokerClosed, CloseLanes,
        DrainReturns, StopVars, vars
  <2>12. QED
    BY Zenon, <2>8, <2>9, <2>10, <2>11 DEF Next
<1>3. QED
  BY <1>1, <1>2, PTL DEF Spec

-----------------------------------------------------------------------------
(* Lanes are closed behind the last submitter *)

\* A device only holds messages of its own.
OwnMessages == \A d \in Devices : \A m \in unacked[d] : m.dev = d

\* Every message in a lane's send queue is that of one goroutine blocked in
\* Submit, in the lane of its device.
SendersBlocked ==
  \A s \in Shards : \A i \in 1..Len(senders[s]) :
    /\ ShardOf[senders[s][i].dev] = s
    /\ cl[senders[s][i].dev][senders[s][i].gen].pc = "send"

SendersDistinct ==
  \A s \in Shards : \A i, j \in 1..Len(senders[s]) :
    i # j => \/ senders[s][i].dev # senders[s][j].dev
             \/ senders[s][i].gen # senders[s][j].gen

LaneInv == /\ Typed /\ OwnMessages /\ SendersBlocked /\ SendersDistinct
           /\ NoSendOnClosedLane

LEMMA OutgoingOwn ==
  ASSUME Typed, OwnMessages, NEW d \in Devices, NEW m \in Outgoing(d)
  PROVE  m \in Msgs /\ m.dev = d /\ m.gen = gen[d]
<1>1. m \in Msgs
  BY OutgoingType DEF Typed
<1>2. CASE unacked[d] = {}
  BY <1>1, <1>2 DEF Outgoing
<1>3. CASE unacked[d] # {}
  <2>1. PICK u \in unacked[d] : m = [u EXCEPT !.gen = gen[d]]
    BY Zenon, <1>3 DEF Outgoing
  <2>2. u \in Msgs /\ u.dev = d
    BY Zenon DEF Typed, TypeOK, OwnMessages
  <2>3. QED
    BY Zenon, <1>1, <2>1, <2>2 DEF Msgs
<1>4. QED
  BY Zenon, <1>2, <1>3

LEMMA SenderType ==
  ASSUME TypeOK
  PROVE  \A s \in Shards : \A i \in 1..Len(senders[s]) :
           /\ senders[s][i] \in Msgs
           /\ senders[s][i].dev \in Devices /\ senders[s][i].gen \in 1..MaxGen
<1> TAKE s \in Shards
<1>1. senders[s] \in Seq(Msgs)
  BY Zenon DEF TypeOK
<1> TAKE i \in 1..Len(senders[s])
<1>2. senders[s][i] \in Msgs
  BY <1>1
<1>3. QED
  BY Zenon, <1>2 DEF Msgs

LEMMA ClientType ==
  ASSUME TypeOK
  PROVE  \A d \in Devices, g \in 1..MaxGen : cl[d][g] \in Clients
BY ZenonT(30) DEF TypeOK

LEMMA OtherClients ==
  ASSUME TypeOK, NEW m, m.dev \in Devices, m.gen \in 1..MaxGen, NEW c, SetClient(m, c)
  PROVE  \A e \in Devices, g \in 1..MaxGen :
           e # m.dev \/ g # m.gen => cl'[e][g] = cl[e][g]
<1>1. cl \in [Devices -> [1..MaxGen -> Clients]]
  BY Zenon DEF TypeOK
<1>2. cl' = [cl EXCEPT ![m.dev] = [cl[m.dev] EXCEPT ![m.gen] = c]]
  BY Zenon DEF SetClient
<1>3. QED
  BY <1>1, <1>2

\* Steps that move no goroutine into or out of Submit.
LEMMA LaneUntouched ==
  ASSUME LaneInv, senders' = senders,
         \A d \in Devices, g \in 1..MaxGen : cl[d][g].pc = "send" => cl'[d][g].pc = "send",
         \A d \in Devices : unacked'[d] \subseteq unacked[d],
         stop' \in {"closed", "down"} => stop \in {"closed", "down"}
  PROVE  OwnMessages' /\ SendersBlocked' /\ SendersDistinct' /\ NoSendOnClosedLane'
<1>1. \A s \in Shards : \A i \in 1..Len(senders[s]) :
        senders[s][i].dev \in Devices /\ senders[s][i].gen \in 1..MaxGen
  BY Zenon, SenderType DEF LaneInv, Typed
<1>2. SendersBlocked' /\ SendersDistinct'
  BY SMTT(30), <1>1 DEF LaneInv, SendersBlocked, SendersDistinct
<1>3. OwnMessages' /\ NoSendOnClosedLane'
  BY DEF LaneInv, OwnMessages, NoSendOnClosedLane
<1>4. QED
  BY Zenon, <1>2, <1>3

LEMMA AckKeepsPc ==
  ASSUME TypeOK, NEW M, Ack(M), NEW d \in Devices, NEW g \in 1..MaxGen
  PROVE  cl'[d][g].pc = cl[d][g].pc
<1>1. cl[d][g] \in Clients
  BY Zenon, ClientType
<1>2. cl'[d][g] = cl[d][g] \/ cl'[d][g] = [cl[d][g] EXCEPT !.acked = TRUE]
  BY Zenon DEF Ack
<1>3. QED
  BY Zenon, <1>1, <1>2 DEF Clients

LEMMA LanePublish ==
  ASSUME LaneInv, NEW d \in Devices, Publish(d)
  PROVE  OwnMessages' /\ SendersBlocked' /\ SendersDistinct' /\ NoSendOnClosedLane'
<1> USE DEF laneVars
<1>t. TypeOK /\ Typed
  BY DEF LaneInv, Typed
<1>1. PICK m \in Outgoing(d) :
        /\ unacked' = [unacked EXCEPT ![d] = IF m.qos = 0 THEN {} ELSE {m}]
        /\ Submit(m)
  BY Zenon DEF Publish
<1>2. m \in Msgs /\ m.dev = d /\ m.gen = gen[d]
  BY Zenon, OutgoingOwn DEF LaneInv
<1>3. OwnMessages'
  BY Zenon, <1>1, <1>2, <1>t DEF LaneInv, OwnMessages, TypeOK
<1> DEFINE s == ShardOf[d]
<1>4. s \in Shards /\ cl[d][gen[d]].pc = "idle" /\ gen[d] \in 1..MaxGen /\ stop' = stop
  BY Zenon, <1>t, PipelineAssumption DEF Publish, TypeOK
<1>5. \A r \in Shards : \A i \in 1..Len(senders[r]) :
        /\ senders[r][i].dev \in Devices /\ senders[r][i].gen \in 1..MaxGen
        /\ senders[r][i].dev # d \/ senders[r][i].gen # gen[d]
  BY Zenon, <1>t, <1>4, SenderType DEF LaneInv, SendersBlocked
<1>6. \A e \in Devices, g \in 1..MaxGen :
        e # d \/ g # gen[d] => cl'[e][g] = cl[e][g]
  <2>1. CASE UNCHANGED cl
    BY Zenon, <2>1
  <2>2. CASE \E c : SetClient(m, c)
    BY SMTT(30), <1>2, <1>4, <1>t, <2>2, OtherClients
  <2>3. QED
    BY Zenon, <1>1, <2>1, <2>2 DEF Submit
<1>7. CASE senders' = senders
  <2>1. SendersBlocked'
    <3>1. SUFFICES ASSUME NEW r \in Shards, NEW i \in 1..Len(senders[r])
                   PROVE  LET w == senders[r][i] IN ShardOf[w.dev] = r /\ cl'[w.dev][w.gen].pc = "send"
      BY <1>7 DEF SendersBlocked
    <3> DEFINE w == senders[r][i]
    <3>2. ShardOf[w.dev] = r /\ cl[w.dev][w.gen].pc = "send"
      BY Zenon DEF LaneInv, SendersBlocked
    <3>3. w.dev \in Devices /\ w.gen \in 1..MaxGen /\ (w.dev # d \/ w.gen # gen[d])
      BY Zenon, <1>5
    <3>4. cl'[w.dev][w.gen] = cl[w.dev][w.gen]
      BY Zenon, <1>6, <3>3
    <3>5. QED
      BY Zenon, <3>2, <3>4
  <2>2. SendersDistinct'
    BY <1>7 DEF LaneInv, SendersDistinct
  <2>3. NoSendOnClosedLane'
    BY Zenon, <1>4, <1>7 DEF LaneInv, NoSendOnClosedLane
  <2>4. QED
    BY ZenonT(30), <1>3, <2>1, <2>2, <2>3
<1>8. CASE /\ stop # "closed"
           /\ senders' = [senders EXCEPT ![s] = Append(senders[s], m)]
           /\ SetClient(m, [Waiting(m) EXCEPT !.pc = "send"])
  <2>1. senders[s] \in Seq(Msgs) /\ senders'[s] = Append(senders[s], m)
        /\ \A r \in Shards \ {s} : senders'[r] = senders[r]
    BY Zenon, <1>8, <1>4, <1>t DEF TypeOK
  <2>2. /\ Len(senders'[s]) = Len(senders[s]) + 1
        /\ senders'[s][Len(senders[s]) + 1] = m
        /\ \A i \in 1..Len(senders[s]) : senders'[s][i] = senders[s][i]
        /\ Len(senders[s]) \in Nat
    BY <1>2, <2>1
  <2>3. cl'[d][gen[d]].pc = "send"
    BY ZenonT(30), <1>8, <1>2, <1>4, <1>t DEF SetClient, TypeOK, Waiting
  <2>4. SendersBlocked'
    <3> SUFFICES ASSUME NEW r \in Shards, NEW i \in 1..Len(senders'[r])
                 PROVE  /\ ShardOf[senders'[r][i].dev] = r
                        /\ cl'[senders'[r][i].dev][senders'[r][i].gen].pc = "send"
      BY SMTT(30) DEF SendersBlocked
    <3>1. CASE r = s /\ i = Len(senders[s]) + 1
      BY ZenonT(30), <1>2, <2>2, <2>3, <3>1
    <3>2. CASE ~(r = s /\ i = Len(senders[s]) + 1)
      <4>1. i \in 1..Len(senders[r]) /\ senders'[r][i] = senders[r][i]
        BY SMTT(30), <2>1, <2>2, <3>2
      <4>2. QED
        BY SMTT(30), <1>5, <1>6, <4>1 DEF LaneInv, SendersBlocked
    <3>3. QED
      BY Zenon, <3>1, <3>2
  <2>5. SendersDistinct'
    <3> SUFFICES ASSUME NEW r \in Shards, NEW i \in 1..Len(senders'[r]),
                        NEW j \in 1..Len(senders'[r]), i # j
                 PROVE  \/ senders'[r][i].dev # senders'[r][j].dev
                        \/ senders'[r][i].gen # senders'[r][j].gen
      BY Zenon DEF SendersDistinct
    <3>1. CASE r # s
      <4>1. senders'[r] = senders[r]
        BY Zenon, <2>1, <3>1
      <4>2. QED
        BY Zenon, <4>1 DEF LaneInv, SendersDistinct
    <3>2. CASE r = s /\ i # Len(senders[s]) + 1 /\ j # Len(senders[s]) + 1
      <4>1. /\ i \in 1..Len(senders[s]) /\ j \in 1..Len(senders[s])
            /\ senders'[r][i] = senders[s][i] /\ senders'[r][j] = senders[s][j]
        BY SMTT(30), <2>2, <3>2
      <4>2. QED
        BY Zenon, <1>4, <4>1 DEF LaneInv, SendersDistinct
    <3>3. CASE r = s /\ i = Len(senders[s]) + 1
      <4>1. /\ j \in 1..Len(senders[s]) /\ senders'[r][i] = m
            /\ senders'[r][j] = senders[s][j]
        BY SMTT(30), <2>2, <3>3
      <4>2. QED
        BY ZenonT(30), <1>2, <1>4, <1>5, <4>1
    <3>4. CASE r = s /\ j = Len(senders[s]) + 1
      <4>1. /\ i \in 1..Len(senders[s]) /\ senders'[r][j] = m
            /\ senders'[r][i] = senders[s][i]
        BY <2>2, <3>4
      <4>2. QED
        BY Zenon, <1>2, <1>4, <1>5, <4>1
    <3>5. QED
      BY Zenon, <3>1, <3>2, <3>3, <3>4
  <2>6. NoSendOnClosedLane'
    BY Zenon, <1>4, <1>8 DEF NoSendOnClosedLane, Publish
  <2>7. QED
    BY Zenon, <1>3, <2>4, <2>5, <2>6
<1>9. QED
  BY Zenon, <1>1, <1>2, <1>7, <1>8 DEF Submit

LEMMA LaneReceive ==
  ASSUME LaneInv, NEW s \in Shards, Receive(s)
  PROVE  OwnMessages' /\ SendersBlocked' /\ SendersDistinct' /\ NoSendOnClosedLane'
<1>t. TypeOK
  BY Zenon DEF LaneInv, Typed
<1>1. CASE senders[s] = <<>>
  <2>1. UNCHANGED <<senders, cl, unacked, stop>>
    BY Zenon, <1>1 DEF Receive
  <2>2. QED
    BY Zenon, <2>1, LaneUntouched
<1>2. CASE senders[s] # <<>>
  <2> DEFINE h == senders[s][1]
  <2>1. /\ senders[s] \in Seq(Msgs) /\ Len(senders[s]) \in Nat \ {0}
        /\ h = Head(senders[s])
    BY <1>2, <1>t DEF TypeOK
  <2>2. /\ senders' = [senders EXCEPT ![s] = Tail(senders[s])]
        /\ SetClient(h, Waiting(h))
        /\ UNCHANGED <<unacked, stop>>
    BY Zenon, <1>2, <2>1 DEF Receive
  <2>3. /\ Len(senders'[s]) = Len(senders[s]) - 1
        /\ \A i \in 1..Len(senders'[s]) : senders'[s][i] = senders[s][i + 1]
        /\ \A r \in Shards \ {s} : senders'[r] = senders[r]
    BY SMTT(30), <2>1, <2>2, <1>t DEF TypeOK
  <2>4. h.dev \in Devices /\ h.gen \in 1..MaxGen /\ ShardOf[h.dev] = s
    BY SMTT(30), <1>t, <2>1, SenderType DEF LaneInv, SendersBlocked
  <2>5. \A e \in Devices, g \in 1..MaxGen :
          e # h.dev \/ g # h.gen => cl'[e][g] = cl[e][g]
    BY Zenon, <2>2, <2>4, <1>t, OtherClients
  <2> HIDE DEF h
  <2>6. ASSUME NEW r \in Shards, NEW i \in 1..Len(senders'[r])
        PROVE  /\ ShardOf[senders'[r][i].dev] = r
               /\ cl'[senders'[r][i].dev][senders'[r][i].gen].pc = "send"
    <3>1. CASE r # s
      <4>1. senders'[r] = senders[r]
        BY <2>3, <3>1
      <4>2. /\ senders[r][i].dev \in Devices /\ senders[r][i].gen \in 1..MaxGen
            /\ ShardOf[senders[r][i].dev] = r
            /\ cl[senders[r][i].dev][senders[r][i].gen].pc = "send"
        BY ZenonT(30), <1>t, <4>1, SenderType DEF LaneInv, SendersBlocked
      <4>3. QED
        BY ZenonT(30), <2>4, <2>5, <3>1, <4>1, <4>2
    <3>2. CASE r = s
      <4>1. /\ i + 1 \in 1..Len(senders[s]) /\ i + 1 # 1 /\ 1 \in 1..Len(senders[s])
            /\ senders'[s][i] = senders[s][i + 1]
        BY SMTT(30), <2>1, <2>3, <3>2
      <4>2. /\ senders[s][i + 1].dev \in Devices
            /\ senders[s][i + 1].gen \in 1..MaxGen
            /\ ShardOf[senders[s][i + 1].dev] = s
            /\ cl[senders[s][i + 1].dev][senders[s][i + 1].gen].pc = "send"
            /\ senders[s][i + 1].dev # h.dev \/ senders[s][i + 1].gen # h.gen
        BY ZenonT(30), <1>t, <4>1, SenderType DEF LaneInv, SendersBlocked, SendersDistinct, h
      <4>3. QED
        BY ZenonT(30), <2>5, <3>2, <4>1, <4>2
    <3>3. QED
      BY Zenon, <3>1, <3>2
  <2>7. ASSUME NEW r \in Shards, NEW i \in 1..Len(senders'[r]),
               NEW j \in 1..Len(senders'[r]), i # j
        PROVE  \/ senders'[r][i].dev # senders'[r][j].dev
               \/ senders'[r][i].gen # senders'[r][j].gen
    <3>1. CASE r # s
      <4>1. senders'[r] = senders[r]
        BY Zenon, <2>3, <3>1
      <4>2. QED
        BY Zenon, <2>7, <4>1 DEF LaneInv, SendersDistinct
    <3>2. CASE r = s
      <4>1. /\ i + 1 \in 1..Len(senders[s]) /\ j + 1 \in 1..Len(senders[s])
            /\ i + 1 # j + 1
        BY <2>1, <2>3, <2>7, <3>2
      <4>2. /\ senders'[r][i] = senders[s][i + 1]
            /\ senders'[r][j] = senders[s][j + 1]
        BY Zenon, <2>3, <3>2
      <4>3. QED
        BY SMTT(30), <3>2, <4>1, <4>2 DEF LaneInv, SendersDistinct
    <3>3. QED
      BY Zenon, <3>1, <3>2
  <2>8. SendersBlocked'
    BY Zenon, <2>6 DEF SendersBlocked
  <2>9. SendersDistinct'
    BY Zenon, <2>7 DEF SendersDistinct
  <2>10. OwnMessages'
    BY Zenon, <2>2 DEF LaneInv, OwnMessages
  <2>11. NoSendOnClosedLane'
    BY Zenon, <1>2, <2>2 DEF LaneInv, NoSendOnClosedLane
  <2>12. QED
    BY Zenon, <2>8, <2>9, <2>10, <2>11
<1>3. QED
  BY Zenon, <1>1, <1>2

LEMMA LaneInvStep ==
  ASSUME LaneInv, [Next]_vars
  PROVE  LaneInv'
<1> USE DEF deviceVars, laneVars, StopVars
<1>t. TypeOK /\ Typed'
  BY Zenon, TypedStep DEF LaneInv, Typed
<1> SUFFICES OwnMessages' /\ SendersBlocked' /\ SendersDistinct' /\ NoSendOnClosedLane'
  BY Zenon, <1>t DEF LaneInv
<1>1. CASE UNCHANGED vars
  <2>1. UNCHANGED <<senders, cl, unacked, stop>>
    BY Zenon, <1>1 DEF vars
  <2>2. QED
    BY Zenon, <2>1, LaneUntouched
<1>2. ASSUME NEW d \in Devices, Publish(d) PROVE OwnMessages' /\ SendersBlocked' /\ SendersDistinct' /\ NoSendOnClosedLane'
  BY Zenon, <1>2, LanePublish
<1>3. ASSUME NEW d \in Devices, NEW g \in 1..MaxGen, Puback(d, g) \/ RejectPacket(d, g)
      PROVE OwnMessages' /\ SendersBlocked' /\ SendersDistinct' /\ NoSendOnClosedLane'
  <2>1. UNCHANGED <<senders, stop>> /\ cl[d][g].pc # "send"
    BY Zenon, <1>3 DEF Puback, RejectPacket
  <2>2. PICK c : cl' = [cl EXCEPT ![d][g] = c]
    BY Zenon, <1>3 DEF Puback, RejectPacket
  <2>3. \A e \in Devices : unacked'[e] \subseteq unacked[e]
    <3>1. CASE UNCHANGED unacked
      BY Zenon, <3>1
    <3>2. CASE unacked' = [unacked EXCEPT ![d] = {m \in unacked[d] : m.seq # cl[d][g].seq}]
      BY ZenonT(30), <3>2, <1>t DEF TypeOK
    <3>3. QED
      BY Zenon, <1>3, <3>1, <3>2 DEF Puback, RejectPacket
  <2>4. \A e \in Devices, h \in 1..MaxGen : cl[e][h].pc = "send" => cl'[e][h].pc = "send"
    BY Zenon, <2>1, <2>2, <1>t DEF TypeOK
  <2>5. QED
    BY Zenon, <2>1, <2>3, <2>4, LaneUntouched
<1>4. ASSUME NEW d \in Devices, Reconnect(d) PROVE OwnMessages' /\ SendersBlocked' /\ SendersDistinct' /\ NoSendOnClosedLane'
  <2>1. UNCHANGED <<senders, cl, unacked, stop>>
    BY Zenon, <1>4 DEF Reconnect
  <2>2. QED
    BY Zenon, <2>1, LaneUntouched
<1>5. ASSUME NEW s \in Shards, ShardStep(s) PROVE OwnMessages' /\ SendersBlocked' /\ SendersDistinct' /\ NoSendOnClosedLane'
  <2>1. CASE Receive(s)
    BY <2>1, LaneReceive
  <2>2. CASE ~Receive(s)
    <3>1. UNCHANGED <<senders, unacked, stop>>
      BY ZenonT(30), <1>5, <2>2 DEF ShardStep, ReceiveClosed, TimerFires, ContextDone, Reject,
         AddOp, FlushFirst, HandleControl, HandleStoreFails, HandlePanics, CommitOk,
         CommitTransient, BatchRefused, CommitFails, OpRefused, Retry, Abandon,
         Finalize, FinalizePanics
    <3>2. UNCHANGED cl \/ \E M : Ack(M)
      BY Zenon, <1>5, <2>2 DEF ShardStep, ReceiveClosed, TimerFires, ContextDone, Reject,
         AddOp, FlushFirst, HandleControl, HandleStoreFails, HandlePanics, CommitOk,
         CommitTransient, BatchRefused, CommitFails, Conversions, MarkBroken,
         OpRefused, Retry, Abandon, Finalize, FinalizePanics
    <3>3. \A e \in Devices, h \in 1..MaxGen : cl'[e][h].pc = cl[e][h].pc
      BY Zenon, <1>t, <3>2, AckKeepsPc
    <3>4. QED
      BY Zenon, <3>1, <3>3, LaneUntouched
  <2>3. QED
    BY Zenon, <2>1, <2>2
<1>6. CASE ServeError \/ Signal \/ BrokerClosing \/ BrokerClosed \/ DrainReturns
  <2>1. /\ UNCHANGED <<senders, cl, unacked>>
        /\ stop' \in {"closed", "down"} => stop \in {"closed", "down"}
    BY Zenon, <1>6 DEF ServeError, Signal, BrokerClosing, BrokerClosed, DrainReturns
  <2>2. QED
    BY Zenon, <2>1, LaneUntouched
<1>7. CASE CloseLanes
  <2>1. UNCHANGED <<senders, cl, unacked>>
    BY Zenon, <1>7 DEF CloseLanes
  <2>2. \A s \in Shards : senders[s] = <<>>
    <3> SUFFICES ASSUME NEW s \in Shards, senders[s] # <<>> PROVE FALSE
      OBVIOUS
    <3>1. 1 \in 1..Len(senders[s])
      BY SMTT(30), <1>t DEF TypeOK
    <3>2. QED
      BY ZenonT(30), <1>7, <1>t, <3>1, SenderType DEF CloseLanes, LaneInv, SendersBlocked
  <2>u. senders' = senders /\ cl' = cl /\ unacked' = unacked
    BY Zenon, <2>1
  <2>i. OwnMessages
    BY DEF LaneInv
  <2>3. OwnMessages'
    BY Zenon, <2>u, <2>i DEF OwnMessages
  <2>e. \A s \in Shards : senders'[s] = <<>> /\ 1..Len(senders'[s]) = {}
    BY SMTT(30), <2>2, <2>u
  <2>4. SendersBlocked'
    BY Zenon, <2>e DEF SendersBlocked
  <2>5. SendersDistinct'
    BY Zenon, <2>e DEF SendersDistinct
  <2>6. NoSendOnClosedLane'
    BY Zenon, <2>u, <2>2 DEF NoSendOnClosedLane
  <2>7. QED
    BY Zenon, <2>3, <2>4, <2>5, <2>6
<1>8. CASE Restart \/ Crash
  <2>1. UNCHANGED unacked /\ senders' = [s \in Shards |-> <<>>]
    BY Zenon, <1>8 DEF Restart, Crash, Boot
  <2>2. \A s \in Shards : senders'[s] = <<>> /\ 1..Len(senders'[s]) = {}
    BY SMTT(30), <2>1
  <2>i. OwnMessages /\ unacked' = unacked
    BY <2>1 DEF LaneInv
  <2>3. OwnMessages'
    BY Zenon, <2>i DEF OwnMessages
  <2>4. SendersBlocked'
    BY SMTT(30), <2>2 DEF SendersBlocked
  <2>5. SendersDistinct'
    BY SMTT(30), <2>2 DEF SendersDistinct
  <2>6. NoSendOnClosedLane'
    BY ZenonT(30), <2>2 DEF NoSendOnClosedLane
  <2>7. QED
    BY <2>3, <2>4, <2>5, <2>6
<1>9. QED
  BY Zenon, <1>1, <1>2, <1>3, <1>4, <1>5, <1>6, <1>7, <1>8 DEF Next, ClientStep, StopStep

\* drain never closes a lane under a blocked submitter: the write lock it
\* takes first waits for every reader inside Submit (router.go, Submit and
\* drain), for any number of devices, connections and shards.
THEOREM LanesClosedBehindSenders == Spec => []NoSendOnClosedLane
<1>1. Init => LaneInv
  <2> SUFFICES ASSUME Init PROVE LaneInv
    OBVIOUS
  <2>1. \A s \in Shards : senders[s] = <<>> /\ 1..Len(senders[s]) = {}
    BY DEF Init
  <2>2. OwnMessages
    BY Zenon DEF Init, OwnMessages
  <2>3. QED
    BY Zenon, <2>1, <2>2, InitTyped DEF LaneInv, SendersBlocked, SendersDistinct, NoSendOnClosedLane
<1>2. LaneInv /\ [Next]_vars => LaneInv'
  BY LaneInvStep
<1>3. LaneInv => NoSendOnClosedLane
  BY DEF LaneInv
<1>4. QED
  BY <1>1, <1>2, <1>3, PTL DEF Spec

-----------------------------------------------------------------------------
(* A shard that leaves its loop leaves nothing behind *)

Flushing == {"commit", "park", "finalize"}

DrainedShard(s) ==
  /\ spc[s] = "exit" \/ (after[s] = "exit" /\ spc[s] \in Flushing) =>
       stop \in {"closed", "down"} /\ queue[s] = <<>>
  /\ spc[s] = "exit" => batch[s] = <<>>

\* With no signal the context stays alive, and a shard is only on its way out
\* once its lane is closed and empty.
Drained == ~ctxDone /\ \A s \in Shards : DrainedShard(s)

\* The other shards are where they were.
LEMMA DrainOfOneShard ==
  ASSUME Drained, ctxDone' = ctxDone, stop' = stop, NEW s \in Shards, DrainedShard(s)',
         \A r \in Shards \ {s} :
           /\ spc'[r] = spc[r] /\ after'[r] = after[r]
           /\ batch'[r] = batch[r] /\ queue'[r] = queue[r]
  PROVE  Drained'
BY DEF Drained, DrainedShard

LEMMA DrainedStep ==
  ASSUME "signal" \notin StopCauses, Typed, Drained, [Next]_vars
  PROVE  Drained'
<1> USE DEF deviceVars, laneVars, flushVars, dbVars, endVars
<1>t. TypeOK
  BY DEF Typed
<1>d. ~ctxDone /\ \A s \in Shards : DrainedShard(s)
  BY DEF Drained
<1>1. ASSUME NEW d \in Devices, Publish(d)
      PROVE  Drained'
  <2>1. PICK m \in Outgoing(d) : Submit(m)
    BY Zenon, <1>1 DEF Publish
  <2>2. UNCHANGED <<spc, flushVars, stop, ctxDone>> /\ stop # "down"
    BY <1>1 DEF Publish
  <2>3. stop = "closed" => queue' = queue
    BY <2>1 DEF Submit
  <2>4. QED
    BY <1>d, <2>2, <2>3 DEF Drained, DrainedShard
<1>2. ASSUME UNCHANGED <<queue, spc, batch, after, ctxDone>>,
             stop' = stop \/ (stop' \in {"closed", "down"})
                          \/ stop \notin {"closed", "down"}
      PROVE  Drained'
  BY <1>2, <1>d DEF Drained, DrainedShard
<1>3. ASSUME NEW s \in Shards, Receive(s) \/ Retry(s)
      PROVE  Drained'
  <2>1. /\ UNCHANGED <<stop, ctxDone, batch, after>>
        /\ spc' = [spc EXCEPT ![s] = IF Receive(s) THEN "handle" ELSE "commit"]
    BY <1>3 DEF Receive, Retry
  <2>2. CASE Receive(s)
    <3>1. \A r \in Shards \ {s} : queue'[r] = queue[r]
      BY <1>t, <2>2 DEF Receive, TypeOK
    <3>2. spc'[s] = "handle"
      BY <1>t, <2>2 DEF Receive, TypeOK
    <3>3. DrainedShard(s)'
      BY <3>2 DEF DrainedShard, Flushing
    <3>4. QED
      BY Zenon, <1>t, <2>1, <3>1, <3>3, DrainOfOneShard DEF TypeOK
  <2>3. CASE Retry(s)
    <3>1. queue' = queue /\ spc[s] = "park" /\ spc'[s] = "commit"
      BY <1>t, <2>3 DEF Retry, TypeOK
    <3>2. DrainedShard(s)'
      BY <1>d, <2>1, <3>1 DEF DrainedShard, Flushing
    <3>3. \A r \in Shards \ {s} : spc'[r] = spc[r]
      BY <1>t, <2>3 DEF Retry, TypeOK
    <3>4. QED
      BY Zenon, <2>1, <3>1, <3>2, <3>3, DrainOfOneShard
  <2>4. QED
    BY <1>3, <2>2, <2>3
<1>4. ASSUME NEW s \in Shards, NEW cont \in {"select", "control", "exit"},
             FlushShard(s, cont), UNCHANGED <<queue, stop, ctxDone>>,
             cont = "exit" => stop = "closed" /\ queue[s] = <<>>
      PROVE  Drained'
  <2>1. /\ batch' = batch /\ after'[s] = cont
        /\ spc'[s] = IF batch[s] = <<>> THEN cont ELSE "commit"
        /\ \A r \in Shards \ {s} : spc'[r] = spc[r] /\ after'[r] = after[r]
    BY <1>t, <1>4 DEF FlushShard, TypeOK
  <2>2. DrainedShard(s)'
    BY <1>4, <2>1 DEF DrainedShard, Flushing
  <2>3. QED
    BY <1>4, <2>1, <2>2, DrainOfOneShard
<1>5. ASSUME NEW s \in Shards, NEW b, AfterHandle(s, b) \/ RestartPass(s, b),
             UNCHANGED <<queue, stop, ctxDone>>
      PROVE  Drained'
  <2>1. /\ after'[s] = "select" /\ spc'[s] # "exit"
        /\ \A r \in Shards \ {s} : /\ spc'[r] = spc[r] /\ after'[r] = after[r]
                                   /\ batch'[r] = batch[r]
    BY <1>t, <1>5 DEF AfterHandle, RestartPass, TypeOK
  <2>2. DrainedShard(s)'
    BY <2>1 DEF DrainedShard
  <2>3. QED
    BY Zenon, <1>5, <2>1, <2>2, DrainOfOneShard
<1>6. ASSUME NEW s \in Shards, EndSlice(s), spc[s] \in Flushing,
             UNCHANGED <<queue, stop, ctxDone, after>>
      PROVE  Drained'
  <2>1. /\ \/ batch'[s] = <<>> /\ spc'[s] = after[s]
           \/ spc'[s] = "commit"
        /\ \A r \in Shards \ {s} : spc'[r] = spc[r] /\ batch'[r] = batch[r]
    BY <1>t, <1>6 DEF EndSlice, TypeOK
  <2>2. DrainedShard(s)'
    BY <1>6, <1>d, <2>1 DEF DrainedShard, Flushing
  <2>3. QED
    BY Zenon, <1>6, <2>1, <2>2, DrainOfOneShard
<1>7. ASSUME NEW s \in Shards, CommitOk(s) \/ CommitTransient(s) \/ BatchRefused(s)
      PROVE  Drained'
  <2>1. PICK bad : MarkBroken(s, bad)
    BY Zenon, <1>7 DEF CommitOk, CommitTransient, BatchRefused, CommitFails, Conversions
  <2>2. \A r \in Shards \ {s} : batch'[r] = batch[r]
    BY <1>t, <2>1 DEF MarkBroken, TypeOK
  <2>3. UNCHANGED <<queue, stop, ctxDone, after>> /\ spc[s] = "commit"
    BY <1>7 DEF CommitOk, CommitTransient, BatchRefused, CommitFails
  <2>4. /\ spc'[s] \in Flushing
        /\ \A r \in Shards \ {s} : spc'[r] = spc[r]
    BY Zenon, <1>7, <1>t DEF CommitOk, CommitTransient, BatchRefused, CommitFails, Flushing, TypeOK
  <2>5. DrainedShard(s)'
    BY Zenon, <1>d, <2>3, <2>4 DEF DrainedShard, Flushing
  <2>6. QED
    BY <2>2, <2>3, <2>4, <2>5, DrainOfOneShard
<1>8. CASE Restart \/ Crash
  <2>1. Boot
    BY <1>8 DEF Restart, Crash
  <2>2. \A s \in Shards : spc'[s] = "select" /\ ctxDone' = FALSE
    BY <2>1 DEF Boot
  <2>3. QED
    BY <2>1, <2>2 DEF Drained, DrainedShard, Flushing, Boot
<1>9. ASSUME NEW s \in Shards, ShardStep(s)
      PROVE  Drained'
  <2>1. CASE Receive(s) \/ Retry(s)
    BY <1>3, <2>1
  <2>2. CASE CommitOk(s) \/ CommitTransient(s) \/ BatchRefused(s)
    BY <1>7, <2>2
  <2>3. CASE ReceiveClosed(s) \/ TimerFires(s) \/ FlushFirst(s)
    BY <1>4, <2>3 DEF ReceiveClosed, TimerFires, FlushFirst
  <2>4. CASE Reject(s) \/ AddOp(s) \/ HandleControl(s) \/ HandlePanics(s) \/ FinalizePanics(s)
    <3>1. UNCHANGED <<queue, stop, ctxDone>>
      BY <2>4 DEF Reject, AddOp, HandleControl, HandlePanics, FinalizePanics
    <3>2. \E b : AfterHandle(s, b) \/ RestartPass(s, b)
      BY Zenon, <2>4 DEF Reject, AddOp, HandleControl, HandlePanics, FinalizePanics
    <3>3. QED
      BY Zenon, <1>5, <3>1, <3>2
  <2>5. CASE HandleStoreFails(s)
    <3>1. UNCHANGED <<queue, stop, ctxDone>>
      BY <2>5 DEF HandleStoreFails
    <3>2. UNCHANGED <<spc, batch, after>> \/ AfterHandle(s, batch[s])
      BY Zenon, <2>5 DEF HandleStoreFails
    <3>3. QED
      BY Zenon, <1>2, <1>5, <3>1, <3>2
  <2>6. CASE OpRefused(s) \/ Abandon(s) \/ Finalize(s)
    <3>1. UNCHANGED <<queue, stop, ctxDone, after>> /\ EndSlice(s) /\ spc[s] \in Flushing
      BY <2>6 DEF OpRefused, Abandon, Finalize, Flushing
    <3>2. QED
      BY Zenon, <1>6, <3>1
  <2>7. CASE ContextDone(s)
    BY <1>d, <2>7 DEF ContextDone
  <2>8. QED
    BY Zenon, <1>9, <2>1, <2>2, <2>3, <2>4, <2>5, <2>6, <2>7 DEF ShardStep
<1>10. ASSUME NEW d \in Devices, ClientStep(d) \/ Reconnect(d)
       PROVE  Drained'
  <2>1. ASSUME NEW g \in 1..MaxGen, Puback(d, g) \/ RejectPacket(d, g)
        PROVE  UNCHANGED <<queue, spc, batch, after, ctxDone, stop>>
    BY <2>1 DEF Puback, RejectPacket
  <2>2. ASSUME Reconnect(d)
        PROVE  UNCHANGED <<queue, spc, batch, after, ctxDone, stop>>
    BY Zenon, <2>2 DEF Reconnect
  <2>3. QED
    BY Zenon, <1>1, <1>2, <1>10, <2>1, <2>2 DEF ClientStep
<1>11. CASE ServeError \/ StopStep \/ UNCHANGED vars
  BY <1>2, <1>11, <1>t
  DEF ServeError, StopStep, BrokerClosing, BrokerClosed, CloseLanes, DrainReturns,
      StopVars, vars
<1>12. ~Signal
  BY DEF Signal
<1>13. QED
  BY <1>8, <1>9, <1>10, <1>11, <1>12 DEF Next

\* Unless SIGTERM cancels the engine's context, a shard that returned from its
\* loop has handled every message of its lane and flushed or abandoned its last
\* batch (drain, shardPass), panics, retries and refused batches included.
THEOREM ShutdownDrains ==
  ASSUME "signal" \notin StopCauses
  PROVE  Spec => []ExitedShardIsDrained
<1>1. Init => Typed /\ Drained
  BY InitTyped DEF Init, Drained, DrainedShard, Flushing
<1>2. Typed /\ Drained /\ [Next]_vars => (Typed /\ Drained)'
  BY TypedStep, DrainedStep
<1>3. Drained => ExitedShardIsDrained
  BY DEF Drained, DrainedShard, ExitedShardIsDrained
<1>4. QED
  BY <1>1, <1>2, <1>3, PTL DEF Spec

-----------------------------------------------------------------------------
(* The inductive invariant *)

\* A shard between flushes works on the whole batch; it has one message in
\* hand, and the batch is gone when a control message takes effect.
PhaseOf(s) ==
  /\ spc[s] \notin Flushing => slice[s] = 0
  /\ \A m, n \in cur[s] : m = n
  /\ spc[s] = "control" => batch[s] = <<>>
  /\ spc[s] = "control" \/ (after[s] = "control" /\ spc[s] \in Flushing) =>
       \A m \in cur[s] : m.kind = "control"

Phase == \A s \in Shards : PhaseOf(s)

\* What a shard has yet to turn into ops.
Ahead(s) ==
  cur[s] \cup {queue[s][i] : i \in 1..Len(queue[s])}
         \cup {senders[s][i] : i \in 1..Len(senders[s])}

Ops(s) == {batch[s][i] : i \in 1..Len(batch[s])}

\* What came out of the lanes.
Past == stored \cup handled \cup {Id(m) : m \in UNION {Ops(s) : s \in Shards}}

\* Every message there is a trace of.
Seen ==
  consumed \cup Past
    \cup {Id(m) : m \in (UNION {Ahead(s) : s \in Shards})
                           \cup (UNION {unacked[d] : d \in Devices})}

\* A number names one message of a device, and the device keeps its last.
Genuine ==
  /\ \A x, y \in Seen : x.dev = y.dev /\ x.seq = y.seq => x = y
  /\ \A x \in Seen : x.seq <= next[x.dev]
  /\ \A d \in Devices : \A m \in unacked[d] : m.dev = d /\ m.seq = next[d]

\* An op is marked broken in its batch, not before.
Whole ==
  /\ \A s \in Shards : \A m \in Ahead(s) : ~m.broken
  /\ \A d \in Devices : \A m \in unacked[d] : ~m.broken

\* m was not published before x.
Follows(m, x) == m.dev = x.dev => x.seq <= m.seq

Sorted(q) == \A i, j \in 1..Len(q) : i < j => Follows(q[j], q[i])

\* Messages are in the lane of their device.
OwnLane == \A s \in Shards : \A m \in Ahead(s) \cup Ops(s) : ShardOf[m.dev] = s

\* A lane is in the order of publication, and a goroutine blocks only behind a
\* full queue.
LaneOf(s) ==
  /\ Sorted(queue[s]) /\ Sorted(senders[s])
  /\ \A i \in 1..Len(queue[s]), j \in 1..Len(senders[s]) :
       Follows(senders[s][j], queue[s][i])
  /\ \A m \in cur[s] :
       /\ \A i \in 1..Len(queue[s]) : Follows(queue[s][i], m)
       /\ \A j \in 1..Len(senders[s]) : Follows(senders[s][j], m)
  /\ senders[s] # <<>> => Len(queue[s]) >= ShardQueue

Lanes == \A s \in Shards : LaneOf(s)

\* Nothing in a lane is older than what came out.
PastFirst == \A s \in Shards : \A m \in Ahead(s) : \A x \in Past : Follows(m, x)

\* An op the running flush has yet to write.
Pending(s, i) ==
  /\ slice[s] <= i
  /\ ~batch[s][i].broken
  /\ Id(batch[s][i]) \notin stored

\* A batch is in order, holds data only, and what it has yet to write is newer
\* than what the database has.
BatchOf(s) ==
  /\ Sorted(batch[s])
  /\ \A i \in 1..Len(batch[s]) :
       /\ batch[s][i].kind # "control"
       /\ \A y \in handled : y.dev = batch[s][i].dev => y.seq < batch[s][i].seq
       /\ Pending(s, i) =>
            \A y \in stored : y.dev = batch[s][i].dev /\ y.kind = batch[s][i].kind
                                => y.seq < batch[s][i].seq

Batches == \A s \in Shards : BatchOf(s)

ControlOnly == \A y \in handled : y.kind = "control"

\* What was written is not newer than an op, unless the same batch wrote it.
RewrittenOf(s) ==
  \A i \in 1..Len(batch[s]) :
    /\ batch[s][i].broken => Id(batch[s][i]) \in consumed
    /\ \A y \in stored : y.dev = batch[s][i].dev =>
         \/ y.seq <= batch[s][i].seq
         \/ \E j \in 1..Len(batch[s]) : i < j /\ y = Id(batch[s][j])

Rewritten == \A s \in Shards : RewrittenOf(s)

OrderInv ==
  /\ Phase /\ Genuine /\ Whole /\ OwnLane /\ Lanes /\ PastFirst /\ Batches /\ ControlOnly
  /\ Rewritten /\ LastValueWins

-----------------------------------------------------------------------------
(* Phases of a shard *)

LEMMA PhaseOfOneShard ==
  ASSUME Phase, NEW s \in Shards, PhaseOf(s)',
         \A r \in Shards \ {s} :
           /\ spc'[r] = spc[r] /\ after'[r] = after[r] /\ slice'[r] = slice[r]
           /\ batch'[r] = batch[r] /\ cur'[r] = cur[r]
  PROVE  Phase'
BY DEF Phase, PhaseOf

LEMMA PhaseStep ==
  ASSUME Typed, Phase, [Next]_vars
  PROVE  Phase'
<1> USE DEF deviceVars, laneVars, flushVars, dbVars, endVars
<1>t. TypeOK
  BY DEF Typed
<1>p. \A s \in Shards : PhaseOf(s)
  BY Zenon DEF Phase
<1>1. ASSUME UNCHANGED <<spc, cur, batch, after, slice>>
      PROVE  Phase'
  BY <1>1, <1>p DEF Phase, PhaseOf
<1>2. ASSUME NEW s \in Shards, Receive(s) \/ Retry(s) \/ ContextDone(s)
      PROVE  Phase'
  <2>1. /\ UNCHANGED <<batch, after, slice>>
        /\ \A r \in Shards \ {s} : spc'[r] = spc[r] /\ cur'[r] = cur[r]
    BY Zenon, <1>2, <1>t DEF Receive, Retry, ContextDone, TypeOK
  <2>2. CASE Receive(s)
    <3>1. cur'[s] = {Head(queue[s])} /\ spc'[s] = "handle" /\ spc[s] = "select"
      BY Zenon, <1>t, <2>2 DEF Receive, TypeOK
    <3>2. PhaseOf(s)'
      BY Zenon, <1>p, <2>1, <3>1 DEF PhaseOf, Flushing
    <3>3. QED
      BY Zenon, <2>1, <3>2, PhaseOfOneShard
  <2>3. CASE Retry(s) \/ ContextDone(s)
    <3>1. /\ cur' = cur
          /\ \/ spc[s] = "park" /\ spc'[s] = "commit"
             \/ spc[s] = "select" /\ spc'[s] = "exit"
      BY Zenon, <1>t, <2>3 DEF Retry, ContextDone, TypeOK
    <3>2. PhaseOf(s)'
      BY Zenon, <1>p, <2>1, <3>1 DEF PhaseOf, Flushing
    <3>3. QED
      BY <2>1, <3>2, PhaseOfOneShard
  <2>4. QED
    BY Zenon, <1>2, <2>2, <2>3
<1>3. ASSUME NEW s \in Shards, NEW cont \in {"select", "control", "exit"},
             FlushShard(s, cont), UNCHANGED cur,
             cont = "control" => \E m \in cur[s] : m.kind = "control"
      PROVE  Phase'
  <2>1. /\ batch' = batch /\ after'[s] = cont /\ slice'[s] = 0
        /\ spc'[s] = IF batch[s] = <<>> THEN cont ELSE "commit"
        /\ \A r \in Shards \ {s} : spc'[r] = spc[r] /\ after'[r] = after[r]
                                   /\ slice'[r] = slice[r]
    BY Zenon, <1>t, <1>3 DEF FlushShard, TypeOK
  <2>2. cont = "control" => \A m \in cur[s] : m.kind = "control"
    BY Zenon, <1>3, <1>p DEF PhaseOf
  <2>3. PhaseOf(s)'
    BY Zenon, <1>3, <1>p, <2>1, <2>2 DEF PhaseOf, Flushing
  <2>4. QED
    BY Zenon, <1>3, <2>1, <2>3, PhaseOfOneShard
<1>4. ASSUME NEW s \in Shards, NEW b, AfterHandle(s, b) \/ RestartPass(s, b)
      PROVE  Phase'
  <2>1. /\ after'[s] = "select" /\ spc'[s] # "control" /\ slice'[s] = 0 /\ cur'[s] = {}
        /\ \A r \in Shards \ {s} : /\ spc'[r] = spc[r] /\ after'[r] = after[r]
                                   /\ batch'[r] = batch[r] /\ slice'[r] = slice[r]
                                   /\ cur'[r] = cur[r]
    BY <1>t, <1>4 DEF AfterHandle, RestartPass, TypeOK
  <2>2. PhaseOf(s)'
    BY <2>1 DEF PhaseOf
  <2>3. QED
    BY Zenon, <2>1, <2>2, PhaseOfOneShard
<1>5. ASSUME NEW s \in Shards, EndSlice(s), spc[s] \in Flushing, UNCHANGED <<cur, after>>
      PROVE  Phase'
  <2>1. /\ \/ batch'[s] = <<>> /\ spc'[s] = after[s] /\ slice'[s] = 0
           \/ spc'[s] = "commit"
        /\ \A r \in Shards \ {s} : spc'[r] = spc[r] /\ batch'[r] = batch[r]
                                   /\ slice'[r] = slice[r]
    BY Zenon, <1>t, <1>5 DEF EndSlice, TypeOK
  <2>2. PhaseOf(s)'
    BY Zenon, <1>5, <1>p, <2>1 DEF PhaseOf, Flushing
  <2>3. QED
    BY Zenon, <1>5, <2>1, <2>2, PhaseOfOneShard
<1>6. ASSUME NEW s \in Shards, CommitOk(s) \/ CommitTransient(s) \/ BatchRefused(s)
      PROVE  Phase'
  <2>1. PICK bad : MarkBroken(s, bad)
    BY Zenon, <1>6 DEF CommitOk, CommitTransient, BatchRefused, CommitFails, Conversions
  <2>2. \A r \in Shards \ {s} : batch'[r] = batch[r]
    BY Zenon, <1>t, <2>1 DEF MarkBroken, TypeOK
  <2>3. UNCHANGED <<cur, after>> /\ spc[s] = "commit"
    BY Zenon, <1>6 DEF CommitOk, CommitTransient, BatchRefused, CommitFails
  <2>4. /\ spc'[s] \in Flushing
        /\ \A r \in Shards \ {s} : spc'[r] = spc[r] /\ slice'[r] = slice[r]
    BY Zenon, <1>6, <1>t DEF CommitOk, CommitTransient, BatchRefused, CommitFails, Flushing, TypeOK
  <2>5. PhaseOf(s)'
    BY Zenon, <1>p, <2>3, <2>4 DEF PhaseOf, Flushing
  <2>6. QED
    BY Zenon, <2>2, <2>3, <2>4, <2>5, PhaseOfOneShard
<1>7. CASE Restart \/ Crash
  <2>1. Boot
    BY Zenon, <1>7 DEF Restart, Crash
  <2>2. QED
    BY <2>1 DEF Phase, PhaseOf, Flushing, Boot
<1>8. ASSUME NEW s \in Shards, ShardStep(s)
      PROVE  Phase'
  <2>1. CASE Receive(s) \/ Retry(s) \/ ContextDone(s)
    BY <1>2, <2>1
  <2>2. CASE CommitOk(s) \/ CommitTransient(s) \/ BatchRefused(s)
    BY Zenon, <1>6, <2>2
  <2>3. CASE ReceiveClosed(s) \/ TimerFires(s) \/ FlushFirst(s)
    BY <1>3, <2>3 DEF ReceiveClosed, TimerFires, FlushFirst
  <2>4. CASE Reject(s) \/ AddOp(s) \/ HandleControl(s) \/ HandlePanics(s) \/ FinalizePanics(s)
    <3>1. \E b : AfterHandle(s, b) \/ RestartPass(s, b)
      BY Zenon, <2>4 DEF Reject, AddOp, HandleControl, HandlePanics, FinalizePanics
    <3>2. QED
      BY <1>4, <3>1
  <2>5. CASE HandleStoreFails(s)
    <3>1. UNCHANGED <<spc, cur, batch, after, slice>> \/ AfterHandle(s, batch[s])
      BY Zenon, <2>5 DEF HandleStoreFails
    <3>2. QED
      BY <1>1, <1>4, <3>1
  <2>6. CASE OpRefused(s) \/ Abandon(s) \/ Finalize(s)
    <3>1. UNCHANGED <<cur, after>> /\ EndSlice(s) /\ spc[s] \in Flushing
      BY <2>6 DEF OpRefused, Abandon, Finalize, Flushing
    <3>2. QED
      BY Zenon, <1>5, <3>1
  <2>7. QED
    BY Zenon, <1>8, <2>1, <2>2, <2>3, <2>4, <2>5, <2>6 DEF ShardStep
<1>9. ASSUME NEW d \in Devices, ClientStep(d) \/ Reconnect(d)
      PROVE  Phase'
  <2>1. UNCHANGED <<spc, cur, batch, after, slice>>
    BY Zenon, <1>9 DEF ClientStep, Publish, Puback, RejectPacket, Reconnect
  <2>2. QED
    BY Zenon, <1>1, <2>1
<1>10. CASE ServeError \/ Signal \/ StopStep \/ UNCHANGED vars
  BY Zenon, <1>1, <1>10
  DEF ServeError, Signal, StopStep, BrokerClosing, BrokerClosed, CloseLanes,
      DrainReturns, StopVars, vars
<1>11. QED
  BY <1>7, <1>8, <1>9, <1>10 DEF Next
=============================================================================
