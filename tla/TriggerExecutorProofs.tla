--------------------- MODULE TriggerExecutorProofs ---------------------
(* Proofs about TriggerExecutor, for every value of its constants. *)
EXTENDS TriggerExecutor, TLAPS

-----------------------------------------------------------------------------
(* The inductive invariant *)

ProducerStates == {"out", "check", "send", "full"}
WorkerStates == {"range", "deliver", "attempt", "sleep", "done"}
CloseStates == {"open", "locking", "waiting", "returned", "interrupted"}

Shape ==
  /\ sent \in [Producers -> 0..MaxEvents]
  /\ ppc \in [Producers -> ProducerStates]
  /\ pd \in [Producers -> SUBSET Deliveries]
  /\ queue \in Seq(Deliveries)
  /\ wpc \in [Workers -> WorkerStates]
  /\ wd \in [Workers -> SUBSET Deliveries]
  /\ attempts \in [Workers -> Nat]
  /\ closing \in BOOLEAN
  /\ close \in CloseStates

\* What Close has done so far and where producers and workers can be then.
Closes ==
  /\ close # "open" => closing
  /\ ChannelClosed => \A p \in Producers : ppc[p] = "out"
  /\ close = "returned" => \A w \in Workers : wpc[w] = "done"

\* What a worker's position says about what it carries.
Works(w) ==
  /\ wpc[w] \in {"range", "done"} => wd[w] = {}
  /\ \A d, e \in wd[w] : d = e
  /\ wpc[w] = "done" => ChannelClosed /\ queue = <<>>
  /\ \A d \in wd[w] :
       /\ wpc[w] = "deliver" => attempts[w] = 0
       /\ wpc[w] \in {"attempt", "sleep"} => attempts[w] + 1 <= Cap(d)

IInv == Shape /\ Closes /\ \A w \in Workers : Works(w)

LEMMA CapPositive ==
  ASSUME NEW d \in Deliveries
  PROVE  Cap(d) \in Nat /\ Cap(d) >= 1
<1>1. d.trigger \in Triggers
  BY DEF Deliveries
<1>2. CASE d.trigger.policy = NoPolicy
  BY <1>2, ExecutorAssumption DEF Cap
<1>3. CASE d.trigger.policy # NoPolicy
  <2>1. d.trigger.policy \in Policies
    BY <1>1, <1>3 DEF Policies
  <2>2. Compiles(d.trigger.policy.def)
    BY <2>1, ExecutorAssumption
  <2>3. d.trigger.policy.def.times = -1 \/ d.trigger.policy.def.times \in 1..100
    BY <2>2, ZenonT(30) DEF Compiles, RetryTimesOk
  <2>4. QED
    BY SMTT(30), <1>3, <2>3 DEF Cap
<1>4. QED
  BY <1>2, <1>3

LEMMA EmptyQueue == <<>> \in Seq(Deliveries)
OBVIOUS

LEMMA Starts == Init => IInv
<1> SUFFICES ASSUME Init PROVE IInv
  OBVIOUS
<1>1. 0 \in 0..MaxEvents
  BY ExecutorAssumption
<1>2. Shape
  BY <1>1, EmptyQueue, ZenonT(30) DEF Init, Shape, ProducerStates, WorkerStates, CloseStates
<1>3. Closes
  BY DEF Init, Closes, ChannelClosed
<1>4. \A w \in Workers : Works(w)
  BY DEF Init, Works
<1>5. QED
  BY <1>2, <1>3, <1>4 DEF IInv

-----------------------------------------------------------------------------
(* Steps of producers: the workers are not touched, and once the channel is
   closed the queue is not either. *)

LEMMA ProducerStep ==
  ASSUME IInv, NEW p \in Producers, EnqueueStart(p) \/ EnqueueStep(p)
  PROVE  IInv'
<1>0. Shape /\ Closes /\ \A w \in Workers : Works(w)
  BY DEF IInv
<1>1. UNCHANGED <<workerVars, closeVars>>
  BY DEF EnqueueStart, EnqueueStep, CheckCapacity, Send, DropFull
<1>2. wpc' = wpc /\ wd' = wd /\ attempts' = attempts /\ closing' = closing /\ close' = close
  BY <1>1 DEF workerVars, closeVars
<1>3. CASE EnqueueStart(p)
  <2>1. sent[p] \in 0..MaxEvents /\ sent[p] < MaxEvents /\ queue' = queue
    BY <1>0, <1>3 DEF EnqueueStart, Shape
  <2>2. sent[p] + 1 \in 1..MaxEvents /\ sent[p] + 1 \in 0..MaxEvents
    BY <2>1, ExecutorAssumption
  <2>3. sent' \in [Producers -> 0..MaxEvents]
    BY <1>0, <1>3, <2>2 DEF EnqueueStart, Shape
  <2>4. PICK t \in Triggers :
          LET d == [by |-> p, n |-> sent[p] + 1, trigger |-> t]
          IN IF closing
             THEN Record(d, "dropped") /\ UNCHANGED <<ppc, pd>>
             ELSE /\ ppc' = [ppc EXCEPT ![p] = "check"]
                  /\ pd' = [pd EXCEPT ![p] = {d}]
                  /\ UNCHANGED outcome
    BY <1>3 DEF EnqueueStart
  <2>5. [by |-> p, n |-> sent[p] + 1, trigger |-> t] \in Deliveries
    BY <2>2 DEF Deliveries
  <2>6. /\ ppc' \in [Producers -> ProducerStates] /\ pd' \in [Producers -> SUBSET Deliveries]
        /\ closing => ppc' = ppc
    <3>1. CASE closing
      BY <1>0, <2>4, <3>1 DEF Shape
    <3>2. CASE ~closing
      <4>1. /\ ppc' = [ppc EXCEPT ![p] = "check"]
            /\ pd' = [pd EXCEPT ![p] = {[by |-> p, n |-> sent[p] + 1, trigger |-> t]}]
        BY <2>4, <3>2
      <4>2. QED
        BY <1>0, <2>5, <3>2, <4>1 DEF Shape, ProducerStates
    <3>3. QED
      BY <3>1, <3>2
  <2>7. QED
    BY <1>0, <1>2, <2>1, <2>3, <2>6 DEF IInv, Shape, Closes, Works, ChannelClosed
<1>4. CASE EnqueueStep(p)
  <2>1. ppc[p] # "out" /\ sent' = sent
    BY <1>4 DEF EnqueueStep, CheckCapacity, Send, DropFull
  <2>2. ~ChannelClosed
    BY <1>0, <2>1 DEF Closes
  <2>3. /\ ppc' \in [Producers -> ProducerStates]
        /\ pd' \in [Producers -> SUBSET Deliveries]
    <3>1. CASE CheckCapacity(p)
      BY <1>0, <3>1, ZenonT(30) DEF CheckCapacity, Shape, ProducerStates
    <3>2. CASE Send(p)
      BY <1>0, <3>2, ZenonT(30) DEF Send, Shape, ProducerStates
    <3>3. CASE DropFull(p)
      BY <1>0, <3>3 DEF DropFull, Shape, ProducerStates
    <3>4. QED
      BY <1>4, <3>1, <3>2, <3>3 DEF EnqueueStep
  <2>4. queue' \in Seq(Deliveries)
    <3>1. CASE Send(p)
      <4>1. pd[p] \subseteq Deliveries /\ queue \in Seq(Deliveries)
        BY <1>0 DEF Shape
      <4>2. QED
        BY <3>1, <4>1 DEF Send
    <3>2. CASE CheckCapacity(p) \/ DropFull(p)
      BY <1>0, <3>2 DEF Shape, CheckCapacity, DropFull
    <3>3. QED
      BY <1>4, <3>1, <3>2 DEF EnqueueStep
  <2>5. QED
    BY <1>0, <1>2, <2>1, <2>2, <2>3, <2>4 DEF IInv, Shape, Closes, Works, ChannelClosed
<1>5. QED
  BY <1>3, <1>4

-----------------------------------------------------------------------------
(* Steps of workers: producers and Close are not touched. *)

LEMMA Finishes ==
  ASSUME IInv, NEW w \in Workers, wpc[w] # "done", NEW d, NEW o, Finish(w, d, o)
  PROVE  IInv'
<1>0. Shape /\ Closes /\ \A v \in Workers : Works(v)
  BY DEF IInv
<1>1. /\ wpc' = [wpc EXCEPT ![w] = "range"] /\ wd' = [wd EXCEPT ![w] = {}]
      /\ UNCHANGED <<sent, ppc, pd, queue, attempts, closing, close>>
  BY DEF Finish, producerVars, closeVars
<1>2. Shape'
  BY <1>0, <1>1 DEF Shape, WorkerStates
<1>3. Closes'
  BY <1>0, <1>1 DEF Closes, ChannelClosed
<1>4. ASSUME NEW v \in Workers PROVE Works(v)'
  <2>1. CASE v = w
    BY <1>0, <1>1, <2>1 DEF Works, Shape
  <2>2. CASE v # w
    <3>1. wpc'[v] = wpc[v] /\ wd'[v] = wd[v] /\ attempts'[v] = attempts[v]
      BY <1>0, <1>1, <2>2 DEF Shape
    <3>2. QED
      BY <1>0, <1>1, <3>1 DEF Works, ChannelClosed
  <2>3. QED
    BY <2>1, <2>2
<1>5. QED
  BY <1>2, <1>3, <1>4 DEF IInv

\* A step that leaves queue and channel alone and keeps what w carries.
LEMMA Moves ==
  ASSUME IInv, NEW w \in Workers, NEW s \in WorkerStates, NEW n \in Nat,
         s # "done", s # "range", wpc[w] # "done",
         wpc' = [wpc EXCEPT ![w] = s], attempts' = [attempts EXCEPT ![w] = n],
         UNCHANGED <<sent, ppc, pd, queue, wd, closing, close>>,
         \A d \in wd[w] : /\ s = "deliver" => n = 0
                          /\ s \in {"attempt", "sleep"} => n + 1 <= Cap(d)
  PROVE  IInv'
<1>0. Shape /\ Closes /\ \A v \in Workers : Works(v)
  BY DEF IInv
<1>2. Shape'
  BY <1>0 DEF Shape
<1>3. Closes'
  BY <1>0 DEF Closes, ChannelClosed
<1>4. ASSUME NEW v \in Workers PROVE Works(v)'
  <2>1. CASE v = w
    <3>1. wpc'[v] = s /\ attempts'[v] = n /\ wd'[v] = wd[w]
      BY <1>0, <2>1 DEF Shape
    <3>2. QED
      BY <1>0, <3>1 DEF Works, Cap
  <2>2. CASE v # w
    <3>1. wpc'[v] = wpc[v] /\ wd'[v] = wd[v] /\ attempts'[v] = attempts[v]
      BY <1>0, <2>2 DEF Shape
    <3>2. QED
      BY <1>0, <3>1 DEF Works, ChannelClosed
  <2>3. QED
    BY <2>1, <2>2
<1>5. QED
  BY <1>2, <1>3, <1>4 DEF IInv

LEMMA TakeStep ==
  ASSUME IInv, NEW w \in Workers, Take(w)
  PROVE  IInv'
<1>0. Shape /\ Closes /\ \A v \in Workers : Works(v)
  BY DEF IInv
<1>1. /\ wpc[w] = "range" /\ queue # <<>> /\ queue' = Tail(queue)
      /\ wd' = [wd EXCEPT ![w] = {Head(queue)}]
      /\ wpc' = [wpc EXCEPT ![w] = "deliver"] /\ attempts' = [attempts EXCEPT ![w] = 0]
      /\ UNCHANGED <<sent, ppc, pd, closing, close>>
  BY DEF Take, producerVars, closeVars
<1>2. Head(queue) \in Deliveries /\ Tail(queue) \in Seq(Deliveries)
  BY <1>0, <1>1 DEF Shape
<1>3. Shape'
  BY <1>0, <1>1, <1>2 DEF Shape, WorkerStates
<1>4. Closes'
  BY <1>0, <1>1 DEF Closes, ChannelClosed
<1>5. ASSUME NEW v \in Workers PROVE Works(v)'
  <2>0. wpc[v] # "done"
    BY <1>0, <1>1 DEF Works
  <2>1. CASE v = w
    BY <1>0, <1>1, <2>1 DEF Works, Shape
  <2>2. CASE v # w
    <3>1. wpc'[v] = wpc[v] /\ wd'[v] = wd[v] /\ attempts'[v] = attempts[v]
      BY <1>0, <1>1, <2>2 DEF Shape
    <3>2. QED
      BY <1>0, <2>0, <3>1 DEF Works, Cap
  <2>3. QED
    BY <2>1, <2>2
<1>6. QED
  BY <1>3, <1>4, <1>5 DEF IInv

LEMMA EndStep ==
  ASSUME IInv, NEW w \in Workers, WorkerEnds(w)
  PROVE  IInv'
<1>0. Shape /\ Closes /\ \A v \in Workers : Works(v)
  BY DEF IInv
<1>1. /\ wpc[w] = "range" /\ queue = <<>> /\ ChannelClosed
      /\ wpc' = [wpc EXCEPT ![w] = "done"]
      /\ UNCHANGED <<sent, ppc, pd, queue, wd, attempts, closing, close>>
  BY DEF WorkerEnds, producerVars, closeVars
<1>2. Shape'
  BY <1>0, <1>1 DEF Shape, WorkerStates
<1>3. Closes'
  BY <1>0, <1>1 DEF Closes, ChannelClosed, Shape
<1>4. ASSUME NEW v \in Workers PROVE Works(v)'
  <2>1. wpc'[v] = wpc[v] \/ (v = w /\ wpc'[v] = "done")
    BY <1>0, <1>1 DEF Shape
  <2>2. QED
    BY <1>0, <1>1, <2>1 DEF Works, ChannelClosed
<1>5. QED
  BY <1>2, <1>3, <1>4 DEF IInv

LEMMA WorkerStepKeeps ==
  ASSUME IInv, NEW w \in Workers, WorkerStep(w)
  PROVE  IInv'
<1>0. Shape /\ Works(w)
  BY DEF IInv
<1>1. \A d \in wd[w] : d \in Deliveries /\ Cap(d) \in Nat /\ Cap(d) >= 1
  BY <1>0, CapPositive DEF Shape
<1>2. attempts[w] \in Nat /\ attempts = [attempts EXCEPT ![w] = attempts[w]]
  BY <1>0 DEF Shape
<1>3. CASE Take(w)
  BY <1>3, TakeStep
<1>4. CASE WorkerEnds(w)
  BY <1>4, EndStep
<1>5. CASE Expire(w) \/ MarshalFails(w) \/ Forward(w) \/ Delivered(w) \/ AbandonSleep(w)
  <2>1. wpc[w] # "done" /\ \E d, o : Finish(w, d, o)
    BY <1>5 DEF Expire, MarshalFails, Forward, Delivered, AbandonSleep
  <2>2. QED
    BY <2>1, Finishes
<1>6. CASE Begin(w)
  <2>1. /\ wpc[w] = "deliver" /\ wpc' = [wpc EXCEPT ![w] = "attempt"]
        /\ attempts' = [attempts EXCEPT ![w] = attempts[w]]
        /\ UNCHANGED <<sent, ppc, pd, queue, wd, closing, close>>
    BY <1>2, <1>6 DEF Begin, producerVars, closeVars
  <2>2. \A d \in wd[w] : attempts[w] + 1 <= Cap(d)
    BY <1>0, <1>1, <2>1 DEF Works
  <2>3. QED
    BY <1>2, <2>1, <2>2, Moves, ZenonT(30) DEF WorkerStates
<1>7. CASE Backoff(w)
  <2>1. /\ wpc[w] = "sleep" /\ wpc' = [wpc EXCEPT ![w] = "attempt"]
        /\ attempts' = [attempts EXCEPT ![w] = attempts[w]]
        /\ UNCHANGED <<sent, ppc, pd, queue, wd, closing, close>>
    BY <1>2, <1>7 DEF Backoff, producerVars, closeVars
  <2>2. \A d \in wd[w] : attempts[w] + 1 <= Cap(d)
    BY <1>0, <2>1 DEF Works
  <2>3. QED
    BY <1>2, <2>1, <2>2, Moves, ZenonT(30) DEF WorkerStates
<1>8. CASE AttemptFails(w)
  <2>1. PICK d \in wd[w], status \in Failures :
          IF Retries(d, status) /\ attempts[w] + 1 < Cap(d)
          THEN /\ wpc' = [wpc EXCEPT ![w] = "sleep"]
               /\ attempts' = [attempts EXCEPT ![w] = @ + 1]
               /\ UNCHANGED <<producerVars, queue, wd, inflight, outcome,
                              closeVars>>
          ELSE Finish(w, d, "failed")
    BY <1>8 DEF AttemptFails
  <2>2. wpc[w] = "attempt"
    BY <1>8 DEF AttemptFails
  <2>3. CASE Retries(d, status) /\ attempts[w] + 1 < Cap(d)
    <3>1. /\ wpc' = [wpc EXCEPT ![w] = "sleep"]
          /\ attempts' = [attempts EXCEPT ![w] = attempts[w] + 1]
          /\ UNCHANGED <<sent, ppc, pd, queue, wd, closing, close>>
      BY <2>1, <2>3 DEF producerVars, closeVars
    <3>2. \A e \in wd[w] : (attempts[w] + 1) + 1 <= Cap(e)
      BY <1>0, <1>1, <1>2, <2>3 DEF Works
    <3>3. attempts[w] + 1 \in Nat /\ "sleep" \in WorkerStates
      BY <1>2 DEF WorkerStates
    <3>4. QED
      BY <2>2, <3>1, <3>2, <3>3, Moves, ZenonT(30)
  <2>4. CASE ~(Retries(d, status) /\ attempts[w] + 1 < Cap(d))
    BY <2>1, <2>2, <2>4, Finishes
  <2>5. QED
    BY <2>3, <2>4
<1>9. QED
  BY <1>3, <1>4, <1>5, <1>6, <1>7, <1>8 DEF WorkerStep

-----------------------------------------------------------------------------
(* Steps of Close *)

LEMMA CloseKeeps ==
  ASSUME IInv, CloseStart \/ CloseChannel \/ CloseReturns \/ CloseInterrupted
  PROVE  IInv'
<1>0. Shape /\ Closes /\ \A w \in Workers : Works(w)
  BY DEF IInv
<1>1. UNCHANGED <<sent, ppc, pd, queue, wpc, wd, attempts>>
  BY DEF CloseStart, CloseChannel, CloseReturns, CloseInterrupted, producerVars, workerVars
<1>2. Shape'
  BY <1>0, <1>1, ZenonT(30) DEF Shape, CloseStates, CloseStart, CloseChannel, CloseReturns, CloseInterrupted
<1>3. Closes'
  BY <1>0, <1>1 DEF Closes, ChannelClosed, CloseStart, CloseChannel, CloseReturns, CloseInterrupted
<1>4. ChannelClosed => ChannelClosed'
  BY DEF ChannelClosed, CloseStart, CloseChannel, CloseReturns, CloseInterrupted
<1>5. \A w \in Workers : Works(w)'
  BY <1>0, <1>1, <1>4 DEF Works, Cap
<1>6. QED
  BY <1>2, <1>3, <1>5 DEF IInv

LEMMA Inductive == IInv /\ [Next]_vars => IInv'
<1> SUFFICES ASSUME IInv, [Next]_vars PROVE IInv'
  OBVIOUS
<1>1. CASE Next
  BY <1>1, ProducerStep, WorkerStepKeeps, CloseKeeps DEF Next
<1>2. CASE UNCHANGED vars
  BY <1>2 DEF vars, IInv, Shape, Closes, Works, ChannelClosed, Cap
<1>3. QED
  BY <1>1, <1>2

LEMMA Invariance == Spec => []IInv
BY Starts, Inductive, PTL DEF Spec

-----------------------------------------------------------------------------
(* Where deliveries are *)

InHand == UNION {pd[p] : p \in Producers}
Queued == {queue[i] : i \in DOMAIN queue}
AtWork == UNION {wd[w] : w \in Workers}
Made == InHand \cup Queued \cup AtWork \cup DOMAIN outcome

\* A delivery is in one of the places, and there once.
OnePlace ==
  /\ \A p \in Producers : /\ \A d \in pd[p] : d.by = p
                          /\ \A d, e \in pd[p] : d = e
                          /\ ppc[p] = "out" <=> pd[p] = {}
  /\ \A i, j \in DOMAIN queue : queue[i] = queue[j] => i = j
  /\ \A v, w \in Workers : v # w => wd[v] \cap wd[w] = {}
  /\ InHand \cap Queued = {} /\ InHand \cap AtWork = {} /\ Queued \cap AtWork = {}
  /\ DOMAIN outcome \cap (InHand \cup Queued \cup AtWork) = {}

\* A producer numbers its deliveries, and each number is still known.
Numbered ==
  /\ DOMAIN outcome \subseteq Deliveries
  /\ \A d \in DOMAIN outcome : outcome[d] \in Outcomes
  /\ \A d, e \in Made : d.by = e.by /\ d.n = e.n => d = e
  /\ \A d \in Made : d.n <= sent[d.by]
  /\ \A p \in Producers, n \in 1..MaxEvents : n <= sent[p] => \E d \in Made : d.by = p /\ d.n = n

Under(n) == {d \in Carried : d.trigger.policy # NoPolicy /\ d.trigger.policy.name = n}
Governed(q) == {d \in Carried : d.trigger.policy = q}

\* Slots are taken and given back with the delivery.
Counted ==
  /\ IsFiniteSet(Carried)
  /\ inflight \in [Names -> Int]
  /\ \A n \in Names : inflight[n] = Cardinality(Under(n))
  /\ \A q \in Policies : Cardinality(Governed(q)) <= q.cap

PlaceInv == OnePlace /\ Numbered

LEMMA Recorded ==
  ASSUME NEW d, NEW o, d \notin DOMAIN outcome, Record(d, o)
  PROVE  /\ DOMAIN outcome' = DOMAIN outcome \cup {d} /\ outcome'[d] = o
         /\ \A e \in DOMAIN outcome : outcome'[e] = outcome[e]
BY DEF Record

LEMMA HandGone ==
  ASSUME Shape, OnePlace, NEW p \in Producers, NEW d \in pd[p], pd' = [pd EXCEPT ![p] = {}]
  PROVE  /\ InHand' = InHand \ {d} /\ d \in InHand /\ d \in Deliveries /\ d.by = p
         /\ pd[p] = {d} /\ pd'[p] = {} /\ \A q \in Producers : q # p => pd'[q] = pd[q]
<1>1. /\ pd[p] = {d} /\ pd'[p] = {} /\ \A q \in Producers : q # p => pd'[q] = pd[q]
  BY DEF Shape, OnePlace
<1>2. d \in Deliveries /\ d.by = p /\ d \in InHand
  BY DEF Shape, OnePlace, InHand
<1>3. \A q \in Producers : q # p => d \notin pd[q]
  BY <1>2 DEF OnePlace
<1>4. InHand' = InHand \ {d}
  BY <1>1, <1>3 DEF InHand
<1>5. QED
  BY <1>1, <1>2, <1>4

LEMMA WorkGone ==
  ASSUME Shape, OnePlace, NEW w \in Workers, Works(w), NEW d \in wd[w], wd' = [wd EXCEPT ![w] = {}]
  PROVE  /\ AtWork' = AtWork \ {d} /\ d \in AtWork /\ d \in Deliveries
         /\ wd'[w] = {} /\ \A v \in Workers : v # w => wd'[v] = wd[v]
<1>1. /\ wd[w] = {d} /\ wd'[w] = {} /\ \A v \in Workers : v # w => wd'[v] = wd[v]
  BY DEF Shape, Works
<1>2. d \in Deliveries /\ d \in AtWork
  BY DEF Shape, AtWork
<1>3. \A v \in Workers : v # w => d \notin wd[v]
  BY DEF OnePlace
<1>4. AtWork' = AtWork \ {d}
  BY <1>1, <1>3 DEF AtWork
<1>5. QED
  BY <1>1, <1>2, <1>4

\* A delivery that changes its place keeps its number.
LEMMA MovedNumbered ==
  ASSUME Numbered, Made' = Made, sent' = sent, DOMAIN outcome' \subseteq Deliveries,
         \A d \in DOMAIN outcome' : outcome'[d] \in Outcomes
  PROVE  Numbered'
BY DEF Numbered

-----------------------------------------------------------------------------
(* Enqueue moves a delivery *)

LEMMA StartPlaces ==
  ASSUME IInv, PlaceInv, NEW p \in Producers, EnqueueStart(p)
  PROVE  PlaceInv'
<1>0. Shape /\ OnePlace /\ Numbered
  BY DEF IInv, PlaceInv
<1>1. PICK t \in Triggers :
        LET d == [by |-> p, n |-> sent[p] + 1, trigger |-> t]
        IN IF closing
           THEN Record(d, "dropped") /\ UNCHANGED <<ppc, pd>>
           ELSE /\ ppc' = [ppc EXCEPT ![p] = "check"]
                /\ pd' = [pd EXCEPT ![p] = {d}]
                /\ UNCHANGED outcome
  BY DEF EnqueueStart
<1>2. sent[p] \in 0..MaxEvents /\ sent[p] < MaxEvents /\ ppc[p] = "out"
  BY <1>0 DEF EnqueueStart, Shape
<1>3. PICK d \in Deliveries : d = [by |-> p, n |-> sent[p] + 1, trigger |-> t]
  <2>1. sent[p] + 1 \in 1..MaxEvents
    BY <1>2, ExecutorAssumption
  <2>2. QED
    BY <2>1, ZenonT(30) DEF Deliveries
<1>4. d.by = p /\ d.n = sent[p] + 1
  BY <1>3
<1>5. /\ sent' = [sent EXCEPT ![p] = sent[p] + 1] /\ queue' = queue /\ wd' = wd
  BY DEF EnqueueStart, workerVars
<1>6. d \notin Made
  <2>1. d \in Made => sent[p] + 1 <= sent[p]
    BY <1>0, <1>4 DEF Numbered
  <2>2. QED
    BY <1>2, <2>1
<1>7. Queued' = Queued /\ AtWork' = AtWork
  BY <1>5 DEF Queued, AtWork
<1>8. OnePlace' /\ Made' = Made \cup {d} /\ DOMAIN outcome' \subseteq DOMAIN outcome \cup {d}
      /\ \A e \in DOMAIN outcome' : outcome'[e] \in Outcomes
  <2>1. CASE closing
    <3>1. Record(d, "dropped") /\ ppc' = ppc /\ pd' = pd
      BY <1>1, <1>3, <2>1
    <3>2. /\ DOMAIN outcome' = DOMAIN outcome \cup {d} /\ outcome'[d] = "dropped"
          /\ \A e \in DOMAIN outcome : outcome'[e] = outcome[e]
      BY <1>6, <3>1, Recorded DEF Made
    <3>3. InHand' = InHand
      BY <3>1 DEF InHand
    <3>4. Made' = Made \cup {d}
      BY <1>7, <3>2, <3>3 DEF Made
    <3>5. OnePlace'
      BY <1>0, <1>5, <1>6, <1>7, <3>1, <3>2, <3>3 DEF OnePlace, Made
    <3>6. \A e \in DOMAIN outcome' : outcome'[e] \in Outcomes
      BY <1>0, <3>2 DEF Numbered, Outcomes
    <3>7. QED
      BY <3>2, <3>4, <3>5, <3>6
  <2>2. CASE ~closing
    <3>1. /\ ppc' = [ppc EXCEPT ![p] = "check"] /\ pd' = [pd EXCEPT ![p] = {d}] /\ outcome' = outcome
      BY <1>1, <1>3, <2>2
    <3>2. /\ ppc'[p] = "check" /\ pd'[p] = {d} /\ pd[p] = {}
          /\ \A q \in Producers : q # p => pd'[q] = pd[q] /\ ppc'[q] = ppc[q]
      BY <1>0, <1>2, <3>1 DEF Shape, OnePlace
    <3>3. InHand' = InHand \cup {d}
      BY <3>2 DEF InHand
    <3>4. Made' = Made \cup {d}
      BY <1>7, <3>1, <3>3 DEF Made
    <3>5. (\A q \in Producers : /\ \A e \in pd[q] : e.by = q
                                /\ \A e, f \in pd[q] : e = f
                                /\ ppc[q] = "out" <=> pd[q] = {})'
      BY <1>0, <1>4, <3>2 DEF OnePlace
    <3>6. OnePlace'
      BY <1>0, <1>5, <1>6, <1>7, <3>1, <3>3, <3>5 DEF OnePlace, Made
    <3>7. QED
      BY <1>0, <3>1, <3>4, <3>6 DEF Numbered
  <2>3. QED
    BY <2>1, <2>2
<1>9. Numbered'
  <2>1. /\ sent'[p] = sent[p] + 1 /\ \A q \in Producers : q # p => sent'[q] = sent[q]
        /\ \A q \in Producers : sent[q] \in Int /\ sent'[q] \in Int /\ sent[q] <= sent'[q]
    BY <1>0, <1>2, <1>5 DEF Shape
  <2>2. \A e \in Made : e \in Deliveries /\ e.by \in Producers /\ e.n \in Int
    <3>1. Made \subseteq Deliveries
      BY <1>0 DEF Made, Numbered, InHand, Queued, AtWork, Shape
    <3>2. QED
      BY <3>1 DEF Deliveries
  <2>3. \A e \in Made : e.n <= sent[e.by] /\ ~(e.by = p /\ e.n = d.n)
    BY <1>0, <1>2, <1>4, <2>2, SMTT(30) DEF Numbered
  <2>4. \A e, f \in Made' : e.by = f.by /\ e.n = f.n => e = f
    BY <1>0, <1>4, <1>8, <2>3 DEF Numbered
  <2>5. \A e \in Made' : e.n <= sent'[e.by]
    <3>1. \A e \in Made : e.n <= sent'[e.by]
      BY <2>1, <2>2, <2>3
    <3>2. d.n <= sent'[d.by]
      BY <1>2, <1>4, <2>1
    <3>3. QED
      BY <1>8, <3>1, <3>2
  <2>6. ASSUME NEW q \in Producers, NEW n \in 1..MaxEvents, n <= sent'[q]
        PROVE  \E e \in Made' : e.by = q /\ e.n = n
    <3>1. CASE q = p /\ n = sent[p] + 1
      BY <1>4, <1>8, <3>1
    <3>2. CASE ~(q = p /\ n = sent[p] + 1)
      <4>1. n <= sent[q]
        BY <1>2, <2>1, <2>6, <3>2
      <4>2. QED
        BY <1>0, <1>8, <4>1 DEF Numbered
    <3>3. QED
      BY <3>1, <3>2
  <2>7. DOMAIN outcome' \subseteq Deliveries
    BY <1>0, <1>8 DEF Numbered
  <2>8. QED
    BY <1>8, <2>4, <2>5, <2>6, <2>7 DEF Numbered
<1>10. QED
  BY <1>8, <1>9 DEF PlaceInv

LEMMA PastCheck ==
  ASSUME NEW hands, NEW pcs, \A p \in Producers : \A d \in hands[p] : d.by = p
  PROVE  UNION {hands[p] : p \in {q \in Producers : pcs[q] \in {"send", "full"}}}
           = {d \in UNION {hands[p] : p \in Producers} : pcs[d.by] \in {"send", "full"}}
<1>1. \A d : (\E p \in Producers : pcs[p] \in {"send", "full"} /\ d \in hands[p])
             <=> d \in UNION {hands[p] : p \in Producers} /\ pcs[d.by] \in {"send", "full"}
  OBVIOUS
<1>2. \A d : d \in UNION {hands[p] : p \in {q \in Producers : pcs[q] \in {"send", "full"}}}
             <=> \E p \in Producers : pcs[p] \in {"send", "full"} /\ d \in hands[p]
  OBVIOUS
<1>3. QED
  BY <1>1, <1>2

LEMMA CarriedParts ==
  ASSUME OnePlace
  PROVE  Carried = {d \in InHand : ppc[d.by] \in {"send", "full"}} \cup Queued \cup AtWork
<1>1. UNION {pd[p] : p \in {q \in Producers : ppc[q] \in {"send", "full"}}}
        = {d \in InHand : ppc[d.by] \in {"send", "full"}}
  BY PastCheck DEF OnePlace, InHand
<1>2. Carried = (UNION {pd[p] : p \in {q \in Producers : ppc[q] \in {"send", "full"}}})
                  \cup Queued \cup AtWork
  BY DEF Carried, Queued, AtWork
<1>3. QED
  BY <1>1, <1>2

LEMMA CarriedPartsNext ==
  ASSUME OnePlace'
  PROVE  Carried' = {d \in InHand' : ppc'[d.by] \in {"send", "full"}} \cup Queued' \cup AtWork'
<1>1. UNION {pd'[p] : p \in {q \in Producers : ppc'[q] \in {"send", "full"}}}
        = {d \in InHand' : ppc'[d.by] \in {"send", "full"}}
  BY PastCheck DEF OnePlace, InHand
<1>2. Carried' = (UNION {pd'[p] : p \in {q \in Producers : ppc'[q] \in {"send", "full"}}})
                  \cup Queued' \cup AtWork'
  BY DEF Carried, Queued, AtWork
<1>3. QED
  BY <1>1, <1>2

\* A producer's delivery gets its outcome in Enqueue.
LEMMA DropPlaces ==
  ASSUME Shape, PlaceInv, NEW p \in Producers, NEW d \in pd[p], Record(d, "dropped"),
         ppc' = [ppc EXCEPT ![p] = "out"], pd' = [pd EXCEPT ![p] = {}],
         sent' = sent, queue' = queue, wd' = wd
  PROVE  /\ PlaceInv' /\ Carried' = Carried \ {d} /\ d \in Deliveries
         /\ ppc[p] = "full" => d \in Carried
         /\ ppc[p] = "check" => d \notin Carried
<1>0. OnePlace /\ Numbered
  BY DEF PlaceInv
<1>1. /\ InHand' = InHand \ {d} /\ d \in InHand /\ d \in Deliveries /\ d.by = p
      /\ pd[p] = {d} /\ pd'[p] = {} /\ \A q \in Producers : q # p => pd'[q] = pd[q]
  BY <1>0, HandGone, ZenonT(30)
<1>2. Queued' = Queued /\ AtWork' = AtWork
  BY DEF Queued, AtWork
<1>3. d \notin DOMAIN outcome /\ d \notin Queued /\ d \notin AtWork
  BY <1>0, <1>1 DEF OnePlace
<1>4. /\ DOMAIN outcome' = DOMAIN outcome \cup {d} /\ outcome'[d] = "dropped"
      /\ \A e \in DOMAIN outcome : outcome'[e] = outcome[e]
  BY <1>3, Recorded
<1>5. ppc'[p] = "out" /\ \A q \in Producers : q # p => ppc'[q] = ppc[q]
  BY DEF Shape
<1>6. OnePlace'
  <2>1. (\A q \in Producers : /\ \A e \in pd[q] : e.by = q
                              /\ \A e, f \in pd[q] : e = f
                              /\ ppc[q] = "out" <=> pd[q] = {})'
    BY <1>0, <1>1, <1>5 DEF OnePlace
  <2>2. QED
    BY <1>0, <1>1, <1>2, <1>3, <1>4, <2>1 DEF OnePlace
<1>7. Made' = Made
  BY <1>1, <1>2, <1>4 DEF Made
<1>8. Numbered'
  <2>1. DOMAIN outcome' \subseteq Deliveries /\ \A e \in DOMAIN outcome' : outcome'[e] \in Outcomes
    BY <1>0, <1>1, <1>4 DEF Numbered, Outcomes
  <2>2. QED
    BY <1>0, <1>7, <2>1, MovedNumbered
<1>9. /\ Carried = {e \in InHand : ppc[e.by] \in {"send", "full"}} \cup Queued \cup AtWork
      /\ Carried' = {e \in InHand' : ppc'[e.by] \in {"send", "full"}} \cup Queued \cup AtWork
  <2>1. Carried = {e \in InHand : ppc[e.by] \in {"send", "full"}} \cup Queued \cup AtWork
    BY <1>0, CarriedParts
  <2>2. Carried' = {e \in InHand' : ppc'[e.by] \in {"send", "full"}} \cup Queued' \cup AtWork'
    BY <1>6, CarriedPartsNext
  <2>3. QED
    BY <1>2, <2>1, <2>2
<1>10. \A e \in InHand : e # d => e.by \in Producers /\ e.by # p
  BY <1>0, <1>1 DEF OnePlace, InHand
<1>11. Carried' = Carried \ {d}
  BY <1>1, <1>3, <1>5, <1>9, <1>10
<1>12. QED
  BY <1>0, <1>1, <1>3, <1>6, <1>8, <1>9, <1>11 DEF PlaceInv

\* A producer's delivery is past the capacity check, in its hands still.
LEMMA PassPlaces ==
  ASSUME Shape, PlaceInv, NEW p \in Producers, NEW d \in pd[p], ppc[p] # "out",
         NEW to \in {"send", "full"}, ppc' = [ppc EXCEPT ![p] = to],
         pd' = pd, sent' = sent, queue' = queue, wd' = wd, outcome' = outcome
  PROVE  /\ PlaceInv' /\ Carried' = Carried \cup {d} /\ d \in Deliveries
         /\ ppc[p] = "check" => d \notin Carried
         /\ ppc[p] # "check" => d \in Carried
<1>0. OnePlace /\ Numbered
  BY DEF PlaceInv
<1>1. Queued' = Queued /\ AtWork' = AtWork /\ InHand' = InHand
  BY DEF Queued, AtWork, InHand
<1>2. d \in InHand /\ d.by = p /\ d \in Deliveries /\ pd[p] = {d}
  BY <1>0 DEF OnePlace, InHand, Shape
<1>3. d \notin Queued /\ d \notin AtWork
  BY <1>0, <1>2 DEF OnePlace
<1>4. ppc'[p] = to /\ \A q \in Producers : q # p => ppc'[q] = ppc[q]
  BY DEF Shape
<1>5. OnePlace'
  <2>1. (\A q \in Producers : /\ \A e \in pd[q] : e.by = q
                              /\ \A e, f \in pd[q] : e = f
                              /\ ppc[q] = "out" <=> pd[q] = {})'
    BY <1>0, <1>2, <1>4 DEF OnePlace
  <2>2. QED
    BY <1>0, <1>1, <2>1 DEF OnePlace
<1>6. Numbered'
  <2>1. Made' = Made
    BY <1>1 DEF Made
  <2>2. QED
    BY <1>0, <2>1, MovedNumbered DEF Numbered
<1>7. /\ Carried = {e \in InHand : ppc[e.by] \in {"send", "full"}} \cup Queued \cup AtWork
      /\ Carried' = {e \in InHand : ppc'[e.by] \in {"send", "full"}} \cup Queued \cup AtWork
  <2>1. Carried = {e \in InHand : ppc[e.by] \in {"send", "full"}} \cup Queued \cup AtWork
    BY <1>0, CarriedParts
  <2>2. Carried' = {e \in InHand' : ppc'[e.by] \in {"send", "full"}} \cup Queued' \cup AtWork'
    BY <1>5, CarriedPartsNext
  <2>3. QED
    BY <1>1, <2>1, <2>2
<1>8. \A e \in InHand : e # d => e.by \in Producers /\ e.by # p
  BY <1>0, <1>2 DEF OnePlace, InHand
<1>9. Carried' = Carried \cup {d}
  BY <1>2, <1>4, <1>7, <1>8
<1>10. ppc[p] \in {"check", "send", "full"}
  BY DEF Shape, ProducerStates
<1>11. QED
  BY <1>2, <1>3, <1>5, <1>6, <1>7, <1>9, <1>10 DEF PlaceInv

\* The send moves a producer's delivery to the queue.
LEMMA SendPlaces ==
  ASSUME Shape, PlaceInv, NEW p \in Producers, NEW d \in pd[p], ppc[p] = "send",
         queue' = Append(queue, d), ppc' = [ppc EXCEPT ![p] = "out"], pd' = [pd EXCEPT ![p] = {}],
         sent' = sent, wd' = wd, outcome' = outcome
  PROVE  PlaceInv' /\ Carried' = Carried
<1>0. OnePlace /\ Numbered
  BY DEF PlaceInv
<1>1. /\ InHand' = InHand \ {d} /\ d \in InHand /\ d \in Deliveries /\ d.by = p
      /\ pd[p] = {d} /\ pd'[p] = {} /\ \A q \in Producers : q # p => pd'[q] = pd[q]
  BY <1>0, HandGone, ZenonT(30)
<1>2. AtWork' = AtWork
  BY DEF AtWork
<1>3. /\ Len(queue) \in Nat /\ DOMAIN queue = 1..Len(queue) /\ DOMAIN queue' = 1..Len(queue) + 1
      /\ queue'[Len(queue) + 1] = d /\ \A i \in 1..Len(queue) : queue'[i] = queue[i]
  BY <1>1 DEF Shape
<1>4. Queued' = Queued \cup {d}
  <2>1. \A i \in 1..Len(queue) + 1 : i \in 1..Len(queue) \/ i = Len(queue) + 1
    BY <1>3
  <2>2. 1..Len(queue) \subseteq 1..Len(queue) + 1 /\ Len(queue) + 1 \in 1..Len(queue) + 1
    BY <1>3
  <2>3. QED
    BY <1>3, <2>1, <2>2 DEF Queued
<1>5. d \notin Queued /\ d \notin AtWork /\ d \notin DOMAIN outcome
  BY <1>0, <1>1 DEF OnePlace
<1>6. ppc'[p] = "out" /\ \A q \in Producers : q # p => ppc'[q] = ppc[q]
  BY DEF Shape
<1>7. OnePlace'
  <2>1. (\A q \in Producers : /\ \A e \in pd[q] : e.by = q
                              /\ \A e, f \in pd[q] : e = f
                              /\ ppc[q] = "out" <=> pd[q] = {})'
    BY <1>0, <1>1, <1>6 DEF OnePlace
  <2>2. \A i, j \in DOMAIN queue' : queue'[i] = queue'[j] => i = j
    <3>1. \A i \in 1..Len(queue) : queue[i] # d
      BY <1>3, <1>5 DEF Queued
    <3>2. \A i \in 1..Len(queue) + 1 : i \in 1..Len(queue) \/ i = Len(queue) + 1
      BY <1>3
    <3>3. \A i, j \in 1..Len(queue) : queue[i] = queue[j] => i = j
      BY <1>0, <1>3 DEF OnePlace
    <3>4. QED
      BY <1>3, <3>1, <3>2, <3>3
  <2>3. QED
    BY <1>0, <1>1, <1>2, <1>4, <1>5, <2>1, <2>2 DEF OnePlace
<1>8. Numbered'
  <2>1. Made' = Made
    BY <1>1, <1>2, <1>4 DEF Made
  <2>2. QED
    BY <1>0, <2>1, MovedNumbered DEF Numbered
<1>9. /\ Carried = {e \in InHand : ppc[e.by] \in {"send", "full"}} \cup Queued \cup AtWork
      /\ Carried' = {e \in InHand' : ppc'[e.by] \in {"send", "full"}} \cup Queued' \cup AtWork
  <2>1. Carried = {e \in InHand : ppc[e.by] \in {"send", "full"}} \cup Queued \cup AtWork
    BY <1>0, CarriedParts
  <2>2. Carried' = {e \in InHand' : ppc'[e.by] \in {"send", "full"}} \cup Queued' \cup AtWork'
    BY <1>7, CarriedPartsNext
  <2>3. QED
    BY <1>2, <2>1, <2>2
<1>10. \A e \in InHand : e # d => e.by \in Producers /\ e.by # p
  BY <1>0, <1>1 DEF OnePlace, InHand
<1>11. Carried' = Carried
  BY <1>1, <1>4, <1>6, <1>9, <1>10
<1>12. QED
  BY <1>7, <1>8, <1>11 DEF PlaceInv

-----------------------------------------------------------------------------
(* A worker moves a delivery *)

LEMMA TakePlaces ==
  ASSUME Shape, PlaceInv, NEW w \in Workers, Works(w), Take(w)
  PROVE  PlaceInv' /\ Carried' = Carried
<1>0. OnePlace /\ Numbered
  BY DEF PlaceInv
<1>1. /\ queue # <<>> /\ wd[w] = {} /\ wd' = [wd EXCEPT ![w] = {Head(queue)}]
      /\ queue' = Tail(queue) /\ pd' = pd /\ ppc' = ppc /\ sent' = sent /\ outcome' = outcome
  BY DEF Take, Works, producerVars
<1>2. PICK d \in Deliveries : d = Head(queue)
  BY <1>1 DEF Shape
<1>3. /\ Len(queue) \in Nat \ {0} /\ DOMAIN queue = 1..Len(queue) /\ queue[1] = d
      /\ DOMAIN queue' = 1..Len(queue) - 1
      /\ \A i \in 1..Len(queue) - 1 : queue'[i] = queue[i + 1]
  BY <1>1, <1>2 DEF Shape
<1>4. \A i \in 1..Len(queue) - 1 : i + 1 \in 1..Len(queue) /\ i + 1 # 1
  BY <1>3
<1>5. \A i \in 1..Len(queue) : i = 1 \/ (i - 1 \in 1..Len(queue) - 1 /\ (i - 1) + 1 = i)
  BY <1>3
<1>6. 1 \in 1..Len(queue)
  BY <1>3
<1>7. Queued' = Queued \ {d} /\ d \in Queued
  <2>1. \A i \in 1..Len(queue) - 1 : queue'[i] \in Queued /\ queue'[i] # d
    BY <1>0, <1>3, <1>4, <1>6 DEF OnePlace, Queued
  <2>2. \A i \in 1..Len(queue) : queue[i] # d => \E j \in 1..Len(queue) - 1 : queue'[j] = queue[i]
    BY <1>3, <1>5, ZenonT(30)
  <2>3. d \in Queued
    BY <1>3, <1>6 DEF Queued
  <2>4. Queued' = {queue'[i] : i \in 1..Len(queue) - 1} /\ Queued = {queue[i] : i \in 1..Len(queue)}
    BY <1>3 DEF Queued
  <2>5. QED
    BY <2>1, <2>2, <2>3, <2>4
<1>8. wd'[w] = {d} /\ \A v \in Workers : v # w => wd'[v] = wd[v]
  BY <1>1, <1>2 DEF Shape
<1>9. AtWork' = AtWork \cup {d}
  BY <1>1, <1>8 DEF AtWork
<1>10. InHand' = InHand
  BY <1>1 DEF InHand
<1>11. d \notin InHand /\ d \notin AtWork /\ d \notin DOMAIN outcome
  BY <1>0, <1>7 DEF OnePlace
<1>12. OnePlace'
  <2>1. \A i, j \in DOMAIN queue' : queue'[i] = queue'[j] => i = j
    <3>1. SUFFICES ASSUME NEW i \in 1..Len(queue) - 1, NEW j \in 1..Len(queue) - 1,
                          queue[i + 1] = queue[j + 1]
                   PROVE  i = j
      BY <1>3
    <3>2. i + 1 = j + 1
      BY <1>0, <1>3, <1>4, <3>1 DEF OnePlace
    <3>3. QED
      BY <1>3, <3>2
  <2>2. \A u, v \in Workers : u # v => wd'[u] \cap wd'[v] = {}
    BY <1>0, <1>8, <1>11 DEF OnePlace, AtWork
  <2>3. QED
    BY <1>0, <1>1, <1>7, <1>9, <1>10, <1>11, <2>1, <2>2 DEF OnePlace
<1>13. Numbered'
  <2>1. Made' = Made
    BY <1>1, <1>7, <1>9, <1>10 DEF Made
  <2>2. QED
    BY <1>0, <1>1, <2>1, MovedNumbered DEF Numbered
<1>14. Carried' = Carried
  <2>1. Carried = {e \in InHand : ppc[e.by] \in {"send", "full"}} \cup Queued \cup AtWork
    BY <1>0, CarriedParts
  <2>2. Carried' = {e \in InHand' : ppc'[e.by] \in {"send", "full"}} \cup Queued' \cup AtWork'
    BY <1>12, CarriedPartsNext
  <2>3. Queued' \cup AtWork' = Queued \cup AtWork
    BY <1>7, <1>9
  <2>4. QED
    BY <1>1, <1>10, <2>1, <2>2, <2>3
<1>15. QED
  BY <1>12, <1>13, <1>14 DEF PlaceInv

LEMMA FinishPlaces ==
  ASSUME Shape, PlaceInv, NEW w \in Workers, Works(w), NEW d \in wd[w],
         NEW o \in Outcomes, Finish(w, d, o)
  PROVE  PlaceInv' /\ Carried' = Carried \ {d} /\ d \in Deliveries /\ d \in Carried
<1>0. OnePlace /\ Numbered
  BY DEF PlaceInv
<1>1. /\ Record(d, o) /\ wd' = [wd EXCEPT ![w] = {}]
      /\ queue' = queue /\ pd' = pd /\ ppc' = ppc /\ sent' = sent
  BY DEF Finish, producerVars
<1>2. /\ AtWork' = AtWork \ {d} /\ d \in AtWork /\ d \in Deliveries
      /\ wd'[w] = {} /\ \A v \in Workers : v # w => wd'[v] = wd[v]
  BY <1>0, <1>1, WorkGone, ZenonT(30)
<1>3. InHand' = InHand /\ Queued' = Queued
  BY <1>1 DEF InHand, Queued
<1>4. d \notin InHand /\ d \notin Queued /\ d \notin DOMAIN outcome
  BY <1>0, <1>2 DEF OnePlace
<1>5. /\ DOMAIN outcome' = DOMAIN outcome \cup {d} /\ outcome'[d] = o
      /\ \A e \in DOMAIN outcome : outcome'[e] = outcome[e]
  BY <1>1, <1>4, Recorded
<1>6. OnePlace'
  <2>1. \A u, v \in Workers : u # v => wd'[u] \cap wd'[v] = {}
    BY <1>0, <1>2 DEF OnePlace
  <2>2. QED
    BY <1>0, <1>1, <1>2, <1>3, <1>4, <1>5, <2>1 DEF OnePlace
<1>7. Numbered'
  <2>1. Made' = Made
    BY <1>2, <1>3, <1>5 DEF Made
  <2>2. DOMAIN outcome' \subseteq Deliveries /\ \A e \in DOMAIN outcome' : outcome'[e] \in Outcomes
    BY <1>0, <1>2, <1>5 DEF Numbered
  <2>3. QED
    BY <1>0, <1>1, <2>1, <2>2, MovedNumbered
<1>8. /\ Carried = {e \in InHand : ppc[e.by] \in {"send", "full"}} \cup Queued \cup AtWork
      /\ Carried' = {e \in InHand : ppc[e.by] \in {"send", "full"}} \cup Queued \cup AtWork'
  <2>1. Carried = {e \in InHand : ppc[e.by] \in {"send", "full"}} \cup Queued \cup AtWork
    BY <1>0, CarriedParts
  <2>2. Carried' = {e \in InHand' : ppc'[e.by] \in {"send", "full"}} \cup Queued' \cup AtWork'
    BY <1>6, CarriedPartsNext
  <2>3. QED
    BY <1>1, <1>3, <2>1, <2>2
<1>9. QED
  BY <1>2, <1>4, <1>6, <1>7, <1>8 DEF PlaceInv

\* Steps that move no delivery.
LEMMA StillPlaces ==
  ASSUME PlaceInv, UNCHANGED <<sent, ppc, pd, queue, wd, outcome>>
  PROVE  PlaceInv' /\ Carried' = Carried
<1>1. InHand' = InHand /\ Queued' = Queued /\ AtWork' = AtWork /\ Made' = Made
  BY DEF InHand, Queued, AtWork, Made
<1>2. OnePlace' /\ Numbered'
  BY <1>1 DEF PlaceInv, OnePlace, Numbered
<1>3. QED
  BY <1>2 DEF PlaceInv, Carried

-----------------------------------------------------------------------------
(* Slots *)

INSTANCE FiniteSetTheorems

LEMMA PlacesStart == Init => PlaceInv /\ Counted
<1> SUFFICES ASSUME Init PROVE PlaceInv /\ Counted
  OBVIOUS
<1>1. InHand = {} /\ Queued = {} /\ AtWork = {} /\ DOMAIN outcome = {} /\ Made = {} /\ Carried = {}
  BY DEF Init, InHand, Queued, AtWork, Made, Carried
<1>2. OnePlace
  BY <1>1 DEF Init, OnePlace
<1>3. Numbered
  BY <1>1 DEF Init, Numbered
<1>4. \A n : Under(n) = {} /\ Governed(n) = {}
  BY <1>1 DEF Under, Governed
<1>5. \A n \in Names : inflight[n] = Cardinality(Under(n))
  BY <1>4, FS_EmptySet, ZenonT(30) DEF Init
<1>6. \A q \in Policies : Cardinality(Governed(q)) <= q.cap
  BY <1>4, FS_EmptySet, ExecutorAssumption
<1>7. IsFiniteSet(Carried) /\ inflight \in [Names -> Int]
  BY <1>1, FS_EmptySet DEF Init
<1>8. QED
  BY <1>2, <1>3, <1>5, <1>6, <1>7 DEF PlaceInv, Counted

LEMMA StartCarries ==
  ASSUME Shape, NEW p \in Producers, EnqueueStart(p)
  PROVE  Carried' = Carried /\ inflight' = inflight
<1>1. /\ ppc[p] = "out" /\ queue' = queue /\ wd' = wd /\ inflight' = inflight
      /\ \/ ppc' = ppc /\ pd' = pd
         \/ \E d : ppc' = [ppc EXCEPT ![p] = "check"] /\ pd' = [pd EXCEPT ![p] = {d}]
  BY DEF EnqueueStart, workerVars
<1>2. \A q \in Producers : /\ ppc'[q] \in {"send", "full"} <=> ppc[q] \in {"send", "full"}
                           /\ ppc[q] \in {"send", "full"} => pd'[q] = pd[q]
  BY <1>1 DEF Shape
<1>3. UNION {pd'[q] : q \in {r \in Producers : ppc'[r] \in {"send", "full"}}}
        = UNION {pd[q] : q \in {r \in Producers : ppc[r] \in {"send", "full"}}}
  BY <1>2
<1>4. QED
  BY <1>1, <1>3 DEF Carried

LEMMA CountedSame ==
  ASSUME Counted, Carried' = Carried, inflight' = inflight
  PROVE  Counted'
BY DEF Counted, Under, Governed

LEMMA PolicyNamed ==
  ASSUME NEW d \in Deliveries, d.trigger.policy # NoPolicy
  PROVE  d.trigger.policy \in Policies /\ d.trigger.policy.name \in Names
<1>1. d.trigger \in Triggers
  BY DEF Deliveries
<1>2. d.trigger.policy \in Policies
  BY <1>1 DEF Policies
<1>3. QED
  BY <1>2 DEF Names

\* A delivery that passes the capacity check takes a slot of its policy.
LEMMA CountedTaken ==
  ASSUME Counted, NEW d \in Deliveries, d \notin Carried, Carried' = Carried \cup {d}, Count(d, 1),
         d.trigger.policy # NoPolicy => inflight[d.trigger.policy.name] < d.trigger.policy.cap
  PROVE  Counted'
<1> DEFINE pol == d.trigger.policy
<1>1. IsFiniteSet(Carried) /\ IsFiniteSet(Carried')
  BY FS_AddElement DEF Counted
<1>2. \A n : IsFiniteSet(Under(n)) /\ IsFiniteSet(Governed(n))
  <2>1. \A n : Under(n) \subseteq Carried /\ Governed(n) \subseteq Carried
    BY DEF Under, Governed
  <2>2. QED
    BY <1>1, <2>1, FS_Subset
<1>3. \A n : /\ pol # NoPolicy /\ pol.name = n => Under(n)' = Under(n) \cup {d} /\ d \notin Under(n)
             /\ ~(pol # NoPolicy /\ pol.name = n) => Under(n)' = Under(n)
  BY DEF Under
<1>4. \A n : /\ pol = n => Governed(n)' = Governed(n) \cup {d} /\ d \notin Governed(n)
             /\ pol # n => Governed(n)' = Governed(n)
  BY DEF Governed
<1>5. inflight' \in [Names -> Int]
  <2>1. CASE pol = NoPolicy
    BY <2>1 DEF Counted, Count
  <2>2. CASE pol # NoPolicy
    BY <2>2, PolicyNamed DEF Counted, Count
  <2>3. QED
    BY <2>1, <2>2
<1>6. \A n \in Names : inflight'[n] = Cardinality(Under(n)')
  <2>1. SUFFICES ASSUME NEW n \in Names PROVE inflight'[n] = Cardinality(Under(n)')
    OBVIOUS
  <2>2. inflight[n] = Cardinality(Under(n)) /\ inflight \in [Names -> Int]
    BY DEF Counted
  <2>3. CASE pol # NoPolicy /\ pol.name = n
    <3>1. Cardinality(Under(n)') = Cardinality(Under(n)) + 1
      BY <1>2, <1>3, <2>3, FS_AddElement
    <3>2. inflight'[n] = inflight[n] + 1
      BY <2>2, <2>3 DEF Count
    <3>3. QED
      BY <2>2, <3>1, <3>2
  <2>4. CASE ~(pol # NoPolicy /\ pol.name = n)
    <3>1. inflight'[n] = inflight[n]
      BY <2>2, <2>4 DEF Count
    <3>2. QED
      BY <1>3, <2>2, <2>4, <3>1
  <2>5. QED
    BY <2>3, <2>4
<1>7. \A q \in Policies : Cardinality(Governed(q)') <= q.cap
  <2>1. SUFFICES ASSUME NEW q \in Policies PROVE Cardinality(Governed(q)') <= q.cap
    OBVIOUS
  <2>2. Cardinality(Governed(q)) <= q.cap
    BY DEF Counted
  <2>3. CASE pol = q
    <3>1. q # NoPolicy /\ q.name \in Names /\ q.cap \in Nat
      BY ExecutorAssumption DEF Policies, Names
    <3>2. Governed(q) \subseteq Under(q.name)
      BY <3>1 DEF Governed, Under
    <3>3. Cardinality(Governed(q)) <= Cardinality(Under(q.name))
      BY <1>2, <3>2, FS_Subset
    <3>4. Cardinality(Governed(q)) \in Nat /\ Cardinality(Under(q.name)) \in Nat
      BY <1>2, FS_CardinalityType
    <3>5. Cardinality(Under(q.name)) < q.cap
      BY <2>3, <3>1 DEF Counted
    <3>6. Cardinality(Governed(q)') = Cardinality(Governed(q)) + 1
      BY <1>2, <1>4, <2>3, FS_AddElement
    <3>7. QED
      BY <3>1, <3>3, <3>4, <3>5, <3>6
  <2>4. CASE pol # q
    BY <1>4, <2>2, <2>4
  <2>5. QED
    BY <2>3, <2>4
<1>8. QED
  BY <1>1, <1>5, <1>6, <1>7 DEF Counted

\* A delivery that is dropped at a full queue or finished gives it back.
LEMMA CountedGiven ==
  ASSUME Counted, NEW d \in Deliveries, d \in Carried, Carried' = Carried \ {d}, Count(d, -1)
  PROVE  Counted'
<1> DEFINE pol == d.trigger.policy
<1>1. IsFiniteSet(Carried) /\ IsFiniteSet(Carried')
  BY FS_RemoveElement DEF Counted
<1>2. \A n : IsFiniteSet(Under(n)) /\ IsFiniteSet(Governed(n))
  <2>1. \A n : Under(n) \subseteq Carried /\ Governed(n) \subseteq Carried
    BY DEF Under, Governed
  <2>2. QED
    BY <1>1, <2>1, FS_Subset
<1>3. \A n : /\ pol # NoPolicy /\ pol.name = n => Under(n)' = Under(n) \ {d} /\ d \in Under(n)
             /\ ~(pol # NoPolicy /\ pol.name = n) => Under(n)' = Under(n)
  BY DEF Under
<1>4. inflight' \in [Names -> Int]
  <2>1. CASE pol = NoPolicy
    BY <2>1 DEF Counted, Count
  <2>2. CASE pol # NoPolicy
    BY <2>2, PolicyNamed DEF Counted, Count
  <2>3. QED
    BY <2>1, <2>2
<1>5. \A n \in Names : inflight'[n] = Cardinality(Under(n)')
  <2>1. SUFFICES ASSUME NEW n \in Names PROVE inflight'[n] = Cardinality(Under(n)')
    OBVIOUS
  <2>2. inflight[n] = Cardinality(Under(n)) /\ inflight \in [Names -> Int]
    BY DEF Counted
  <2>3. CASE pol # NoPolicy /\ pol.name = n
    <3>1. Cardinality(Under(n)') = Cardinality(Under(n)) - 1
      BY <1>2, <1>3, <2>3, FS_RemoveElement
    <3>2. inflight'[n] = inflight[n] + (-1)
      BY <2>2, <2>3 DEF Count
    <3>3. QED
      BY <2>2, <3>1, <3>2
  <2>4. CASE ~(pol # NoPolicy /\ pol.name = n)
    <3>1. inflight'[n] = inflight[n]
      BY <2>2, <2>4 DEF Count
    <3>2. QED
      BY <1>3, <2>2, <2>4, <3>1
  <2>5. QED
    BY <2>3, <2>4
<1>6. \A q \in Policies : Cardinality(Governed(q)') <= q.cap
  <2>1. SUFFICES ASSUME NEW q \in Policies PROVE Cardinality(Governed(q)') <= q.cap
    OBVIOUS
  <2>2. Governed(q)' \subseteq Governed(q)
    BY DEF Governed
  <2>3. Cardinality(Governed(q)') <= Cardinality(Governed(q)) /\ Cardinality(Governed(q)') \in Nat
        /\ Cardinality(Governed(q)) \in Nat
    BY <1>2, <2>2, FS_Subset, FS_CardinalityType
  <2>4. QED
    BY <2>3, ExecutorAssumption DEF Counted
<1>7. QED
  BY <1>1, <1>4, <1>5, <1>6 DEF Counted

-----------------------------------------------------------------------------
(* Every step *)

LEMMA EnqueueAccounts ==
  ASSUME IInv, PlaceInv, Counted, NEW p \in Producers, EnqueueStart(p) \/ EnqueueStep(p)
  PROVE  PlaceInv' /\ Counted'
<1>0. Shape /\ OnePlace
  BY DEF IInv, PlaceInv
<1>1. CASE EnqueueStart(p)
  BY <1>0, <1>1, StartPlaces, StartCarries, CountedSame, SMTT(30)
<1>2. CASE CheckCapacity(p)
  <2>1. /\ sent' = sent /\ queue' = queue /\ wd' = wd /\ ppc[p] = "check"
    BY <1>2 DEF CheckCapacity, workerVars
  <2>2. PICK d \in pd[p] :
          \/ /\ Record(d, "dropped") /\ ppc' = [ppc EXCEPT ![p] = "out"]
             /\ pd' = [pd EXCEPT ![p] = {}] /\ inflight' = inflight
          \/ /\ ~(d.trigger.policy # NoPolicy
                  /\ inflight[d.trigger.policy.name] >= d.trigger.policy.cap)
             /\ Count(d, 1) /\ ppc' = [ppc EXCEPT ![p] = "send"] /\ pd' = pd /\ outcome' = outcome
    BY <1>2, ZenonT(30) DEF CheckCapacity
  <2>3. CASE Record(d, "dropped") /\ ppc' = [ppc EXCEPT ![p] = "out"]
             /\ pd' = [pd EXCEPT ![p] = {}] /\ inflight' = inflight
    <3>1. PlaceInv' /\ Carried' = Carried \ {d} /\ d \notin Carried
      BY <1>0, <2>1, <2>3, DropPlaces, ZenonT(30)
    <3>2. Carried' = Carried
      BY <3>1
    <3>3. QED
      BY <2>3, <3>1, <3>2, CountedSame
  <2>4. CASE /\ ~(d.trigger.policy # NoPolicy
                  /\ inflight[d.trigger.policy.name] >= d.trigger.policy.cap)
             /\ Count(d, 1) /\ ppc' = [ppc EXCEPT ![p] = "send"] /\ pd' = pd /\ outcome' = outcome
    <3>1. PlaceInv' /\ Carried' = Carried \cup {d} /\ d \notin Carried /\ d \in Deliveries
      BY <1>0, <2>1, <2>4, PassPlaces, ZenonT(30)
    <3>2. d.trigger.policy # NoPolicy => inflight[d.trigger.policy.name] < d.trigger.policy.cap
      BY <2>4, <3>1, PolicyNamed, ExecutorAssumption DEF Counted
    <3>3. QED
      BY <2>4, <3>1, <3>2, CountedTaken
  <2>5. QED
    BY <2>2, <2>3, <2>4
<1>3. CASE Send(p)
  <2>1. sent' = sent /\ wd' = wd /\ outcome' = outcome /\ inflight' = inflight /\ ppc[p] = "send"
    BY <1>3 DEF Send, workerVars
  <2>2. CASE Len(queue) < QueueSize
    <3>1. PICK d \in pd[p] : queue' = Append(queue, d)
      BY <1>3, <2>2 DEF Send
    <3>2. ppc' = [ppc EXCEPT ![p] = "out"] /\ pd' = [pd EXCEPT ![p] = {}]
      BY <1>3, <2>2 DEF Send
    <3>3. PlaceInv' /\ Carried' = Carried
      BY <1>0, <2>1, <3>1, <3>2, SendPlaces, ZenonT(30)
    <3>4. QED
      BY <2>1, <3>3, CountedSame
  <2>3. CASE ~(Len(queue) < QueueSize)
    <3>1. ppc' = [ppc EXCEPT ![p] = "full"] /\ queue' = queue /\ pd' = pd
      BY <1>3, <2>3 DEF Send
    <3>2. PICK d \in pd[p] : TRUE
      BY <1>0, <2>1 DEF OnePlace
    <3>3. PlaceInv' /\ Carried' = Carried \cup {d} /\ d \in Carried
      BY <1>0, <2>1, <3>1, PassPlaces, ZenonT(30)
    <3>4. Carried' = Carried
      BY <3>3
    <3>5. QED
      BY <2>1, <3>3, <3>4, CountedSame
  <2>4. QED
    BY <2>2, <2>3
<1>4. CASE DropFull(p)
  <2>1. /\ sent' = sent /\ queue' = queue /\ wd' = wd /\ ppc[p] = "full"
        /\ ppc' = [ppc EXCEPT ![p] = "out"] /\ pd' = [pd EXCEPT ![p] = {}]
    BY <1>4 DEF DropFull, workerVars
  <2>2. PICK d \in pd[p] : Count(d, -1) /\ Record(d, "dropped")
    BY <1>4 DEF DropFull
  <2>3. PlaceInv' /\ Carried' = Carried \ {d} /\ d \in Carried /\ d \in Deliveries
    BY <1>0, <2>1, <2>2, DropPlaces, ZenonT(30)
  <2>4. QED
    BY <2>2, <2>3, CountedGiven
<1>5. QED
  BY <1>1, <1>2, <1>3, <1>4 DEF EnqueueStep

LEMMA WorkerAccounts ==
  ASSUME IInv, PlaceInv, Counted, NEW w \in Workers, WorkerStep(w)
  PROVE  PlaceInv' /\ Counted'
<1>0. Shape /\ Works(w)
  BY DEF IInv
<1>1. CASE Take(w)
  <2>1. PlaceInv' /\ Carried' = Carried
    BY <1>0, <1>1, TakePlaces
  <2>2. inflight' = inflight
    BY <1>1 DEF Take
  <2>3. QED
    BY <2>1, <2>2, CountedSame
<1>2. CASE UNCHANGED <<sent, ppc, pd, queue, wd, inflight, outcome>>
  BY <1>2, StillPlaces, CountedSame
<1>3. CASE \E d \in wd[w], o \in Outcomes : Finish(w, d, o)
  <2>1. PICK d \in wd[w], o \in Outcomes : Finish(w, d, o)
    BY <1>3
  <2>2. PlaceInv' /\ Carried' = Carried \ {d} /\ d \in Deliveries /\ d \in Carried
    BY <1>0, <2>1, FinishPlaces
  <2>3. Count(d, -1)
    BY <2>1, SMTT(30) DEF Finish
  <2>4. QED
    BY <2>2, <2>3, CountedGiven
<1>4. \/ Take(w) \/ UNCHANGED <<sent, ppc, pd, queue, wd, inflight, outcome>>
      \/ \E d \in wd[w], o \in Outcomes : Finish(w, d, o)
  <2>1. /\ "expired" \in Outcomes /\ "failed" \in Outcomes /\ "delivered" \in Outcomes
        /\ {"forwarded", "failed", "skipped"} \subseteq Outcomes
    BY DEF Outcomes
  <2>2. CASE WorkerEnds(w) \/ Begin(w) \/ Backoff(w)
    BY <2>2, SMTT(30) DEF WorkerEnds, Begin, Backoff, producerVars
  <2>3. CASE Expire(w) \/ MarshalFails(w) \/ Delivered(w) \/ AbandonSleep(w)
    BY <2>1, <2>3 DEF Expire, MarshalFails, Delivered, AbandonSleep
  <2>4. CASE Forward(w)
    BY <2>1, <2>4 DEF Forward
  <2>5. CASE AttemptFails(w)
    BY <2>1, <2>5, ZenonT(30) DEF AttemptFails, producerVars
  <2>6. QED
    BY <2>2, <2>3, <2>4, <2>5 DEF WorkerStep
<1>5. QED
  BY <1>1, <1>2, <1>3, <1>4

LEMMA Accounts == IInv /\ PlaceInv /\ Counted /\ [Next]_vars => PlaceInv' /\ Counted'
<1> SUFFICES ASSUME IInv, PlaceInv, Counted, [Next]_vars PROVE PlaceInv' /\ Counted'
  OBVIOUS
<1>1. CASE \E p \in Producers : EnqueueStart(p) \/ EnqueueStep(p)
  BY <1>1, EnqueueAccounts
<1>2. CASE \E w \in Workers : WorkerStep(w)
  BY <1>2, WorkerAccounts
<1>3. CASE CloseStart \/ CloseChannel \/ CloseReturns \/ CloseInterrupted \/ UNCHANGED vars
  <2>1. UNCHANGED <<sent, ppc, pd, queue, wd, outcome>> /\ inflight' = inflight
    BY <1>3 DEF CloseStart, CloseChannel, CloseReturns, CloseInterrupted, vars, producerVars, workerVars
  <2>2. QED
    BY <2>1, StillPlaces, CountedSame
<1>4. QED
  BY <1>1, <1>2, <1>3 DEF Next

LEMMA Accounted == Spec => [](PlaceInv /\ Counted)
<1>1. Init => PlaceInv /\ Counted
  BY PlacesStart
<1>2. QED
  BY <1>1, Accounts, Invariance, PTL DEF Spec

\* Where producer p's n-th delivery is.
ProducersWith(p, n) == {r \in Producers : \E d \in pd[r] : d.by = p /\ d.n = n}
SlotsWith(p, n) == {j \in DOMAIN queue : queue[j].by = p /\ queue[j].n = n}
WorkersWith(p, n) == {v \in Workers : \E d \in wd[v] : d.by = p /\ d.n = n}
OutcomesOf(p, n) == {e \in DOMAIN outcome : (e.by = p /\ e.n = n) /\ outcome[e] \in Outcomes}

LEMMA PlaceOfEach ==
  ASSUME Shape, PlaceInv, NEW p \in Producers, NEW n \in 1..MaxEvents, n <= sent[p]
  PROVE  \E x : {<<"p", q>> : q \in ProducersWith(p, n)} \cup {<<"q", i>> : i \in SlotsWith(p, n)}
                  \cup {<<"w", w>> : w \in WorkersWith(p, n)}
                  \cup {<<"o", d>> : d \in OutcomesOf(p, n)} = {x}
<1> DEFINE P == ProducersWith(p, n)
           Q == SlotsWith(p, n)
           W == WorkersWith(p, n)
           O == OutcomesOf(p, n)
<1>sets. /\ P = {r \in Producers : \E d \in pd[r] : d.by = p /\ d.n = n}
       /\ Q = {j \in DOMAIN queue : queue[j].by = p /\ queue[j].n = n}
       /\ W = {v \in Workers : \E d \in wd[v] : d.by = p /\ d.n = n}
       /\ O = {e \in DOMAIN outcome : (e.by = p /\ e.n = n) /\ outcome[e] \in Outcomes}
  BY DEF ProducersWith, SlotsWith, WorkersWith, OutcomesOf
<1> HIDE DEF P, Q, W, O
<1>0. OnePlace /\ Numbered
  BY DEF PlaceInv
<1>1. PICK d \in Made : d.by = p /\ d.n = n
  BY <1>0 DEF Numbered
<1>2. \A e \in Made : e.by = p /\ e.n = n <=> e = d
  BY <1>0, <1>1 DEF Numbered
<1>3. /\ P = {r \in Producers : d \in pd[r]} /\ Q = {j \in DOMAIN queue : queue[j] = d}
      /\ W = {v \in Workers : d \in wd[v]} /\ O = {e \in DOMAIN outcome : e = d}
  <2>1. /\ \A r \in Producers : pd[r] \subseteq Made
        /\ \A j \in DOMAIN queue : queue[j] \in Made
        /\ \A v \in Workers : wd[v] \subseteq Made
        /\ DOMAIN outcome \subseteq Made
    BY DEF Made, InHand, Queued, AtWork
  <2>2. P = {r \in Producers : d \in pd[r]}
    BY <1>sets, <1>1, <1>2, <2>1
  <2>3. Q = {j \in DOMAIN queue : queue[j] = d}
    BY <1>sets, <1>2, <2>1
  <2>4. W = {v \in Workers : d \in wd[v]}
    BY <1>sets, <1>1, <1>2, <2>1, SMTT(30)
  <2>5. O = {e \in DOMAIN outcome : e = d}
    BY <1>sets, <1>0, <1>2, <2>1 DEF Numbered
  <2>6. QED
    BY <2>2, <2>3, <2>4, <2>5, SMTT(30)
<1>4. /\ d \notin InHand => P = {}
      /\ d \notin Queued => Q = {}
      /\ d \notin AtWork => W = {}
      /\ d \notin DOMAIN outcome => O = {}
  BY <1>3 DEF InHand, Queued, AtWork
<1>5. ASSUME d \in InHand
      PROVE  \E x : {<<"p", q>> : q \in P} \cup {<<"q", i>> : i \in Q}
                     \cup {<<"w", w>> : w \in W} \cup {<<"o", y>> : y \in O} = {x}
  <2>1. PICK r \in Producers : d \in pd[r]
    BY <1>5 DEF InHand
  <2>2. P = {r}
    BY <1>0, <1>3, <2>1 DEF OnePlace
  <2>3. Q = {} /\ W = {} /\ O = {}
    BY <1>0, <1>4, <1>5 DEF OnePlace
  <2>4. {<<"p", y>> : y \in P} = {<<"p", r>>}
    BY <2>2
  <2>5. QED
    BY <2>3, <2>4, ZenonT(30)
<1>6. ASSUME d \in Queued
      PROVE  \E x : {<<"p", q>> : q \in P} \cup {<<"q", i>> : i \in Q}
                     \cup {<<"w", w>> : w \in W} \cup {<<"o", y>> : y \in O} = {x}
  <2>1. PICK i \in DOMAIN queue : queue[i] = d
    BY <1>6 DEF Queued
  <2>2. Q = {i}
    BY <1>0, <1>3, <2>1 DEF OnePlace
  <2>3. P = {} /\ W = {} /\ O = {}
    BY <1>0, <1>4, <1>6 DEF OnePlace
  <2>4. {<<"q", y>> : y \in Q} = {<<"q", i>>}
    BY <2>2
  <2>5. QED
    BY <2>3, <2>4, ZenonT(30)
<1>7. ASSUME d \in AtWork
      PROVE  \E x : {<<"p", q>> : q \in P} \cup {<<"q", i>> : i \in Q}
                     \cup {<<"w", w>> : w \in W} \cup {<<"o", y>> : y \in O} = {x}
  <2>1. PICK w \in Workers : d \in wd[w]
    BY <1>7 DEF AtWork
  <2>2. W = {w}
    BY <1>0, <1>3, <2>1 DEF OnePlace
  <2>3. P = {} /\ Q = {} /\ O = {}
    BY <1>0, <1>4, <1>7 DEF OnePlace
  <2>4. {<<"w", y>> : y \in W} = {<<"w", w>>}
    BY <2>2
  <2>5. QED
    BY <2>3, <2>4, ZenonT(30)
<1>8. ASSUME d \in DOMAIN outcome
      PROVE  \E x : {<<"p", q>> : q \in P} \cup {<<"q", i>> : i \in Q}
                     \cup {<<"w", w>> : w \in W} \cup {<<"o", y>> : y \in O} = {x}
  <2>1. O = {d}
    BY <1>3, <1>8
  <2>2. P = {} /\ Q = {} /\ W = {}
    BY <1>0, <1>4, <1>8 DEF OnePlace
  <2>3. {<<"o", y>> : y \in O} = {<<"o", d>>}
    BY <2>1
  <2>4. QED
    BY <2>2, <2>3, ZenonT(30)
<1>9. \E x : {<<"p", q>> : q \in P} \cup {<<"q", i>> : i \in Q}
              \cup {<<"w", w>> : w \in W} \cup {<<"o", y>> : y \in O} = {x}
  BY <1>1, <1>5, <1>6, <1>7, <1>8, ZenonT(30) DEF Made
<1>10. QED
  BY <1>9 DEF P, Q, W, O

-----------------------------------------------------------------------------
(* Theorems *)

\* Executor.Close never closes the delivery channel while an Enqueue may still
\* send on it, for any number of producers and workers.
THEOREM ClosedBehindProducers == Spec => []NoSendOnClosedChannel
<1>1. IInv => NoSendOnClosedChannel
  BY DEF IInv, Closes, NoSendOnClosedChannel
<1>2. QED
  BY <1>1, Invariance, PTL

\* When Executor.Close returns nil the queue is empty and no worker carries a
\* delivery (there is at least one worker: NewExecutor sees to it).
THEOREM CloseReturnsDrained == Spec => []CloseDrains
<1>1. IInv => CloseDrains
  BY ExecutorAssumption DEF IInv, Closes, Works, CloseDrains
<1>2. QED
  BY <1>1, Invariance, PTL

\* No webhook delivery makes more attempts than its policy or MaxAttempts
\* allows.
THEOREM AttemptCap == Spec => []AttemptsBounded
<1>1. IInv => AttemptsBounded
  BY DEF IInv, Works, AttemptsBounded
<1>2. QED
  BY <1>1, Invariance, PTL

\* Whatever the interleaving of Enqueue, the workers and Close, each delivery a
\* producer made is in one place, and has exactly one outcome once it left the
\* executor: dropped at shutdown, at its policy's capacity or at a full queue,
\* or what deliver counted for it.
THEOREM DeliveriesKept == Spec => []NothingLost
<1>1. IInv /\ PlaceInv => NothingLost
  <2> SUFFICES ASSUME Shape, PlaceInv, NEW p \in Producers, NEW n \in 1..MaxEvents, n <= sent[p]
      PROVE  Cardinality(
                 {<<"p", q>> : q \in {r \in Producers : \E d \in pd[r] : d.by = p /\ d.n = n}}
                   \cup {<<"q", i>> : i \in {j \in DOMAIN queue : queue[j].by = p /\ queue[j].n = n}}
                   \cup {<<"w", w>> : w \in {v \in Workers : \E d \in wd[v] : d.by = p /\ d.n = n}}
                   \cup {<<"o", d>> : d \in {e \in DOMAIN outcome :
                                               (e.by = p /\ e.n = n) /\ outcome[e] \in Outcomes}}) = 1
    BY ZenonT(30) DEF NothingLost, IInv
  <2>1. PICK x : {<<"p", q>> : q \in ProducersWith(p, n)}
                   \cup {<<"q", i>> : i \in SlotsWith(p, n)}
                   \cup {<<"w", w>> : w \in WorkersWith(p, n)}
                   \cup {<<"o", d>> : d \in OutcomesOf(p, n)} = {x}
    BY PlaceOfEach, ZenonT(30)
  <2>2. Cardinality({<<"p", q>> : q \in ProducersWith(p, n)}
                      \cup {<<"q", i>> : i \in SlotsWith(p, n)}
                      \cup {<<"w", w>> : w \in WorkersWith(p, n)}
                      \cup {<<"o", d>> : d \in OutcomesOf(p, n)}) = 1
    BY <2>1, FS_Singleton, ZenonT(30)
  <2>3. QED
    BY <2>2, ZenonT(30) DEF ProducersWith, SlotsWith, WorkersWith, OutcomesOf
<1>2. QED
  BY <1>1, Invariance, Accounted, PTL

\* policyInflight holds the number of deliveries under way for each policy
\* name after every step, and no policy has more of them than its
\* maximum_capacity, policies that share a name included.
THEOREM SlotsExact == Spec => []InflightIsExact
<1>1. Counted => InflightIsExact
  BY ZenonT(30) DEF Counted, Under, Governed, InflightIsExact
<1>2. QED
  BY <1>1, Accounted, PTL

-----------------------------------------------------------------------------
(* Delivery policies *)

\* A code a handler that claims a status owns.
Witness(status) == IF status = StatusTransport THEN 500 ELSE status

LEMMA ClaimedIsOwned ==
  ASSUME NEW h, NEW status \in Errors \cup {StatusTransport}, Claims(h, status)
  PROVE  Witness(status) \in Own(h)
<1>1. CASE status = StatusTransport
  <2>1. h.on = "any_error" \/ h.on = "server_error"
    BY <1>1 DEF Claims
  <2>2. QED
    BY <1>1, <2>1 DEF Own, Witness, Errors
<1>2. CASE status # StatusTransport
  <2>1. status \in Errors
    BY <1>2
  <2>2. Witness(status) = status
    BY <1>2 DEF Witness
  <2>3. QED
    BY <1>2, <2>1, <2>2 DEF Claims, Own
<1>3. QED
  BY <1>1, <1>2

\* In a policy that compiled, every failed attempt has at most one governing
\* handler, a missing response included, so the order in which Decide looks at
\* them does not matter: what checkHandlersDisjoint refuses is enough for
\* claims, for every list of handlers.
THEOREM OneHandlerGoverns ==
  ASSUME NEW def, Compiles(def), NEW n \in Nat, DOMAIN def.handlers = 1..n,
         NEW status \in Errors \cup {StatusTransport},
         NEW i \in 1..n, NEW j \in 1..n,
         Claims(def.handlers[i], status), Claims(def.handlers[j], status)
  PROVE  i = j
<1> DEFINE hs == def.handlers
<1>1. /\ Witness(status) \in Own(hs[i])
      /\ Witness(status) \in Own(hs[j])
  BY ClaimedIsOwned
<1>2. \A k \in 1..n : Own(hs[k]) \cap UNION {Own(hs[m]) : m \in 1..k - 1} = {}
  BY ZenonT(30) DEF Compiles, HandlersDisjoint
<1>3. \A k, m \in 1..n : m < k => Own(hs[m]) \cap Own(hs[k]) = {}
  <2>1. SUFFICES ASSUME NEW k \in 1..n, NEW m \in 1..n, m < k
                 PROVE  Own(hs[m]) \cap Own(hs[k]) = {}
    BY ZenonT(30)
  <2>2. m \in 1..k - 1
    BY <2>1
  <2>3. Own(hs[m]) \in {Own(hs[l]) : l \in 1..k - 1}
    BY <2>2
  <2>4. QED
    BY <1>2, <2>3, ZenonT(30)
<1>4. ~(i < j) /\ ~(j < i)
  BY <1>1, <1>3, ZenonT(30)
<1>5. QED
  BY <1>4
=============================================================================
