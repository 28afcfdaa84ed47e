------------------------ MODULE TriggerExecutor ------------------------
(***************************************************************************)
(* The asynchronous executor of trigger actions: producers (shards, device *)
(* lifecycle, HTTP handlers) enqueue deliveries without blocking, workers  *)
(* carry them out with retries, and Close stops it.                        *)
(***************************************************************************)
EXTENDS DeliveryPolicy, FiniteSets

CONSTANTS
  Producers, Workers,
  Triggers,      \* [policy, custom] records: a Trigger and its action
  NoPolicy,
  QueueSize,     \* ExecutorConfig.QueueSize
  MaxAttempts,   \* ExecutorConfig.MaxAttempts
  MaxEvents      \* bound: deliveries a producer enqueues

\* A policy is [name, cap, ttl, def]: its capacity, whether events
\* expire, and the definition it was compiled from.

\* What an attempt may fail with.
Failures == {404, 500, StatusTransport}

Policies == {t.policy : t \in Triggers} \ {NoPolicy}

ASSUME ExecutorAssumption ==
  /\ Workers # {}
  /\ QueueSize \in Nat \ {0} /\ MaxAttempts \in Nat \ {0} /\ MaxEvents \in Nat
  /\ \A t \in Triggers : t.custom \in BOOLEAN
  /\ \A q \in Policies : q.cap \in Nat \ {0} /\ q.ttl \in BOOLEAN /\ Compiles(q.def)

Deliveries == [by : Producers, n : 1..MaxEvents, trigger : Triggers]

VARIABLES
  sent,      \* producer: deliveries it made so far
  ppc,       \* producer: position in Enqueue
  pd,        \* producer: the delivery it is enqueueing ({} or one)
  queue,     \* x.ch
  wpc,       \* worker: position in deliver
  wd,        \* worker: the delivery it carries out ({} or one)
  attempts,  \* worker: attempts made
  inflight,  \* policyInflight: policy name -> count
  outcome,   \* delivery -> outcome
  closing,   \* x.closing is closed
  close      \* Close: "open", "locking", "waiting", "returned", "interrupted"

vars == <<sent, ppc, pd, queue, wpc, wd, attempts, inflight, outcome, closing,
          close>>
producerVars == <<sent, ppc, pd>>
workerVars == <<wpc, wd, attempts>>
closeVars == <<closing, close>>

Names == {q.name : q \in Policies}

Init ==
  /\ sent = [p \in Producers |-> 0]
  /\ ppc = [p \in Producers |-> "out"]
  /\ pd = [p \in Producers |-> {}]
  /\ queue = <<>>
  /\ wpc = [w \in Workers |-> "range"]
  /\ wd = [w \in Workers |-> {}]
  /\ attempts = [w \in Workers |-> 0]
  /\ inflight = [n \in Names |-> 0]
  /\ outcome = [d \in {} |-> "none"]
  /\ closing = FALSE
  /\ close = "open"

\* One more outcome; a second one for the same delivery would show as "twice".
Record(d, o) ==
  outcome' = [e \in DOMAIN outcome \cup {d} |->
                IF e # d THEN outcome[e]
                ELSE IF d \in DOMAIN outcome THEN "twice" ELSE o]

Count(d, k) ==
  inflight' = IF d.trigger.policy = NoPolicy THEN inflight
              ELSE [inflight EXCEPT ![d.trigger.policy.name] = @ + k]

\* The deliveries in the hands of producers past the capacity check, of the
\* queue and of the workers.
Carried ==
  (UNION {pd[p] : p \in {q \in Producers : ppc[q] \in {"send", "full"}}})
    \cup {queue[i] : i \in DOMAIN queue}
    \cup (UNION {wd[w] : w \in Workers})

\* x.ch is closed.
ChannelClosed == close \in {"waiting", "returned", "interrupted"}

-----------------------------------------------------------------------------
(* Enqueue *)

\* Mutant: a delivery refused at shutdown is not counted.
EnqueueStartSilent(p) ==
  /\ ppc[p] = "out"
  /\ sent[p] < MaxEvents
  /\ sent' = [sent EXCEPT ![p] = @ + 1]
  /\ \E t \in Triggers :
       LET d == [by |-> p, n |-> sent[p] + 1, trigger |-> t]
       IN IF closing
          THEN UNCHANGED <<ppc, pd>>
          ELSE /\ ppc' = [ppc EXCEPT ![p] = "check"]
               /\ pd' = [pd EXCEPT ![p] = {d}]
  /\ UNCHANGED <<queue, workerVars, inflight, outcome, closeVars>>

\* The read lock is taken and x.closing checked.
EnqueueStart(p) ==
  /\ ppc[p] = "out"
  /\ sent[p] < MaxEvents
  /\ sent' = [sent EXCEPT ![p] = @ + 1]
  /\ \E t \in Triggers :
       LET d == [by |-> p, n |-> sent[p] + 1, trigger |-> t]
       IN IF closing
          THEN Record(d, "dropped") /\ UNCHANGED <<ppc, pd>>
          ELSE /\ ppc' = [ppc EXCEPT ![p] = "check"]
               /\ pd' = [pd EXCEPT ![p] = {d}]
               /\ UNCHANGED outcome
  /\ UNCHANGED <<queue, workerVars, inflight, closeVars>>

\* Under policyMu: a policy at its capacity drops the delivery.
CheckCapacity(p) ==
  /\ ppc[p] = "check"
  /\ \E d \in pd[p] :
       LET q == d.trigger.policy
       IN IF q # NoPolicy /\ inflight[q.name] >= q.cap
          THEN /\ Record(d, "dropped")
               /\ ppc' = [ppc EXCEPT ![p] = "out"]
               /\ pd' = [pd EXCEPT ![p] = {}]
               /\ UNCHANGED inflight
          ELSE /\ Count(d, 1)
               /\ ppc' = [ppc EXCEPT ![p] = "send"]
               /\ UNCHANGED <<pd, outcome>>
  /\ UNCHANGED <<sent, queue, workerVars, closeVars>>

\* The send, which does not block ...
Send(p) ==
  /\ ppc[p] = "send"
  /\ IF Len(queue) < QueueSize
     THEN /\ \E d \in pd[p] : queue' = Append(queue, d)
          /\ ppc' = [ppc EXCEPT ![p] = "out"]
          /\ pd' = [pd EXCEPT ![p] = {}]
     ELSE /\ ppc' = [ppc EXCEPT ![p] = "full"]
          /\ UNCHANGED <<queue, pd>>
  /\ UNCHANGED <<sent, workerVars, inflight, outcome, closeVars>>

\* Mutant: the drop at a full queue does not give the slot back.
DropFullLeaks(p) ==
  /\ ppc[p] = "full"
  /\ \E d \in pd[p] : Record(d, "dropped")
  /\ ppc' = [ppc EXCEPT ![p] = "out"]
  /\ pd' = [pd EXCEPT ![p] = {}]
  /\ UNCHANGED <<sent, queue, workerVars, inflight, closeVars>>

\* ... and the drop at a full queue, which gives the policy's slot back.
DropFull(p) ==
  /\ ppc[p] = "full"
  /\ \E d \in pd[p] : Count(d, -1) /\ Record(d, "dropped")
  /\ ppc' = [ppc EXCEPT ![p] = "out"]
  /\ pd' = [pd EXCEPT ![p] = {}]
  /\ UNCHANGED <<sent, queue, workerVars, closeVars>>

-----------------------------------------------------------------------------
(* Workers *)

Take(w) ==
  /\ wpc[w] = "range"
  /\ queue # <<>>
  /\ wd' = [wd EXCEPT ![w] = {Head(queue)}]
  /\ queue' = Tail(queue)
  /\ wpc' = [wpc EXCEPT ![w] = "deliver"]
  /\ attempts' = [attempts EXCEPT ![w] = 0]
  /\ UNCHANGED <<producerVars, inflight, outcome, closeVars>>

\* The channel is closed and empty: the worker ends.
WorkerEnds(w) ==
  /\ wpc[w] = "range"
  /\ queue = <<>>
  /\ ChannelClosed
  /\ wpc' = [wpc EXCEPT ![w] = "done"]
  /\ UNCHANGED <<producerVars, queue, wd, attempts, inflight, outcome,
                 closeVars>>

\* Every way out of deliver records one outcome and gives the slot back.
Finish(w, d, o) ==
  /\ Record(d, o)
  /\ Count(d, -1)
  /\ wpc' = [wpc EXCEPT ![w] = "range"]
  /\ wd' = [wd EXCEPT ![w] = {}]
  /\ UNCHANGED <<producerVars, queue, attempts, closeVars>>

\* The time to live has passed at the dequeue.
Expire(w) ==
  /\ wpc[w] = "deliver"
  /\ \E d \in wd[w] : /\ d.trigger.policy # NoPolicy
                      /\ d.trigger.policy.ttl
                      /\ Finish(w, d, "expired")

\* The event does not marshal.
MarshalFails(w) ==
  /\ wpc[w] = "deliver"
  /\ \E d \in wd[w] : Finish(w, d, "failed")

\* An action that is not HTTP: one attempt, skipped without a Forwarder.
Forward(w) ==
  /\ wpc[w] = "deliver"
  /\ \E d \in wd[w] :
       /\ d.trigger.custom
       /\ \E o \in {"forwarded", "failed", "skipped"} : Finish(w, d, o)

Begin(w) ==
  /\ wpc[w] = "deliver"
  /\ \E d \in wd[w] : ~d.trigger.custom
  /\ wpc' = [wpc EXCEPT ![w] = "attempt"]
  /\ UNCHANGED <<producerVars, queue, wd, attempts, inflight, outcome,
                 closeVars>>

Delivered(w) ==
  /\ wpc[w] = "attempt"
  /\ \E d \in wd[w] : Finish(w, d, "delivered")

Retries(d, status) ==
  LET q == d.trigger.policy
  IN IF q = NoPolicy THEN status \notin 400..499 ELSE Decide(q.def.handlers, status) = "retry"

\* RetryTimes + 1 (0 retries when retry_times is absent), or MaxAttempts.
Cap(d) ==
  LET q == d.trigger.policy
  IN CASE q = NoPolicy -> MaxAttempts
       [] q # NoPolicy /\ q.def.times = -1 -> 1
       [] OTHER -> q.def.times + 1

\* An attempt fails: discarded, given up after the last one, or retried.
AttemptFails(w) ==
  /\ wpc[w] = "attempt"
  /\ \E d \in wd[w], status \in Failures :
       IF Retries(d, status) /\ attempts[w] + 1 < Cap(d)
       THEN /\ wpc' = [wpc EXCEPT ![w] = "sleep"]
            /\ attempts' = [attempts EXCEPT ![w] = @ + 1]
            /\ UNCHANGED <<producerVars, queue, wd, inflight, outcome,
                           closeVars>>
       ELSE Finish(w, d, "failed")

Backoff(w) ==
  /\ wpc[w] = "sleep"
  /\ wpc' = [wpc EXCEPT ![w] = "attempt"]
  /\ UNCHANGED <<producerVars, queue, wd, attempts, inflight, outcome,
                 closeVars>>

\* A retry sleep ends at once when the executor closes.
AbandonSleep(w) ==
  /\ wpc[w] = "sleep"
  /\ closing
  /\ \E d \in wd[w] : Finish(w, d, "failed")

-----------------------------------------------------------------------------
(* Close *)

CloseStart ==
  /\ close = "open"
  /\ closing' = TRUE
  /\ close' = "locking"
  /\ UNCHANGED <<producerVars, queue, workerVars, inflight, outcome>>

\* Mutant: the channel is closed without the write lock.
CloseChannelUnlocked ==
  /\ close = "locking"
  /\ close' = "waiting"
  /\ UNCHANGED <<producerVars, queue, workerVars, inflight, outcome, closing>>

\* Mutant: the workers are awaited before the channel is closed.
CloseChannelLast ==
  /\ close = "locking"
  /\ \A p \in Producers : ppc[p] = "out"
  /\ \A w \in Workers : wpc[w] = "done"
  /\ close' = "waiting"
  /\ UNCHANGED <<producerVars, queue, workerVars, inflight, outcome, closing>>

\* The write lock waits for every Enqueue in flight.
CloseChannel ==
  /\ close = "locking"
  /\ \A p \in Producers : ppc[p] = "out"
  /\ close' = "waiting"
  /\ UNCHANGED <<producerVars, queue, workerVars, inflight, outcome, closing>>

\* Mutant: Close does not wait for the workers.
CloseReturnsEarly ==
  /\ close = "waiting"
  /\ queue = <<>>
  /\ close' = "returned"
  /\ UNCHANGED <<producerVars, queue, workerVars, inflight, outcome, closing>>

\* Close returns nil: every worker has ended ...
CloseReturns ==
  /\ close = "waiting"
  /\ \A w \in Workers : wpc[w] = "done"
  /\ close' = "returned"
  /\ UNCHANGED <<producerVars, queue, workerVars, inflight, outcome, closing>>

\* ... or an error at the end of its context, with the workers still running.
CloseInterrupted ==
  /\ close = "waiting"
  /\ close' = "interrupted"
  /\ UNCHANGED <<producerVars, queue, workerVars, inflight, outcome, closing>>

-----------------------------------------------------------------------------

EnqueueStep(p) == CheckCapacity(p) \/ Send(p) \/ DropFull(p)

WorkerStep(w) ==
  \/ Take(w) \/ WorkerEnds(w) \/ Expire(w) \/ MarshalFails(w) \/ Forward(w) \/ Begin(w)
  \/ Delivered(w) \/ AttemptFails(w) \/ Backoff(w) \/ AbandonSleep(w)

Next ==
  \/ \E p \in Producers : EnqueueStart(p) \/ EnqueueStep(p)
  \/ \E w \in Workers : WorkerStep(w)
  \/ CloseStart \/ CloseChannel \/ CloseReturns \/ CloseInterrupted

Spec == Init /\ [][Next]_vars

\* Goroutines inside Enqueue, deliver and Close go on; nobody has to enqueue
\* or to close.
Fairness ==
  /\ \A p \in Producers : WF_vars(EnqueueStep(p))
  /\ \A w \in Workers : WF_vars(WorkerStep(w))
  /\ WF_vars(CloseChannel \/ CloseReturns)

FairSpec == Spec /\ Fairness

-----------------------------------------------------------------------------
(* Properties *)

Outcomes == {"delivered", "failed", "dropped", "expired", "forwarded", "skipped"}

\* policyInflight counts exactly the deliveries under way that name the
\* policy: every path out of Enqueue and deliver gives back what was taken.
\* So no policy has more deliveries under way than its maximum_capacity.
InflightIsExact ==
  /\ \A n \in Names :
       inflight[n] = Cardinality({d \in Carried : /\ d.trigger.policy # NoPolicy
                                                  /\ d.trigger.policy.name = n})
  /\ \A q \in Policies : Cardinality({d \in Carried : d.trigger.policy = q}) <= q.cap

\* A delivery is in one place until it has its one outcome.
NothingLost ==
  \A p \in Producers, n \in 1..MaxEvents :
    n <= sent[p] =>
      LET mine(d) == d.by = p /\ d.n = n
          places == {<<"p", q>> : q \in {r \in Producers : \E d \in pd[r] : mine(d)}}
            \cup {<<"q", i>> : i \in {j \in DOMAIN queue : mine(queue[j])}}
            \cup {<<"w", w>> : w \in {v \in Workers : \E d \in wd[v] : mine(d)}}
            \cup {<<"o", d>> : d \in {e \in DOMAIN outcome : mine(e) /\ outcome[e] \in Outcomes}}
      IN Cardinality(places) = 1

\* The channel is closed only when no producer is about to send on it.
NoSendOnClosedChannel ==
  ChannelClosed => \A p \in Producers : ppc[p] = "out"

\* Close returns nil only after the queue was drained and every delivery
\* under way has its outcome.
CloseDrains ==
  close = "returned" => queue = <<>> /\ \A w \in Workers : wd[w] = {}

\* A delivery makes at most RetryTimes + 1 attempts with a policy and
\* MaxAttempts without.
AttemptsBounded ==
  \A w \in Workers : \A d \in wd[w] : wpc[w] = "attempt" => attempts[w] + 1 <= Cap(d)

\* Once Close is called it returns and every worker ends, although deliveries
\* are being retried and even when its context ended first.
CloseEnds ==
  closing ~> /\ close \in {"returned", "interrupted"}
             /\ \A w \in Workers : wpc[w] = "done"
=============================================================================
