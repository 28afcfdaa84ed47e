----------------------------- MODULE FlowRouter -----------------------------
(***************************************************************************)
(* One running flow (internal/flow): source pumps and other submitters     *)
(* send messages into lanes chosen by key, lane goroutines run them        *)
(* through the block graph, and StopFlow takes the flow down in order:     *)
(* pumps, then lanes, then the blocks.                                     *)
(*                                                                         *)
(* Submit holds the router's read lock from its closed check to the end of *)
(* its send; Drain takes the write lock, which waits for the readers       *)
(* inside and keeps new ones out while it waits (sync.RWMutex).            *)
(***************************************************************************)
EXTENDS Integers, Sequences, FiniteSets

CONSTANTS Keys, Lanes, LaneOf,   \* LaneOf: the lane FNV-1a gives each key
          Sources,               \* Source blocks, one pump goroutine each
          Direct,                \* users of Flow.Router() outside the pumps
          Stoppers,              \* concurrent StopFlow calls
          LaneCapacity,
          MaxMsgs, MaxBatch,     \* bounds: messages per submitter, per Emit
          None

Submitters == Sources \cup Direct

ASSUME FlowAssumption ==
  /\ LaneOf \in [Keys -> Lanes]
  /\ LaneCapacity \in Nat \ {0}
  /\ MaxMsgs \in [Submitters -> Nat] /\ MaxBatch \in Nat
  /\ Sources \cap Direct = {}
  /\ None \notin Keys \X Submitters \X Nat

VARIABLES policy,     \* QoS0Overflow and QoS1Overflow, as they apply to a submitter
          sub,        \* submitter: pc, messages left of its batch, next number
          queue,      \* lane channels
          lane,       \* lane goroutines: pc and the message being processed
          stop,       \* StopFlow calls
          cancelled,  \* cancelPump was called
          quit,       \* closed flag and quit channel, set together
          released,   \* Stop ran on the blocks
          sent,       \* per key, messages accepted by a lane, in order
          done        \* per key, messages that went through the graph, in order

vars == <<policy, sub, queue, lane, stop, cancelled, quit, released, sent, done>>

Init ==
  /\ policy \in [Submitters -> {"block", "drop"}]
  /\ sub = [x \in Submitters |-> [pc |-> "emit", left |-> 0, n |-> 0, msg |-> None]]
  /\ queue = [l \in Lanes |-> <<>>]
  /\ lane = [l \in Lanes |-> [pc |-> "run", msg |-> None]]
  /\ stop = [s \in Stoppers |-> "idle"]
  /\ cancelled = FALSE
  /\ quit = FALSE
  /\ released = FALSE
  /\ sent = [k \in Keys |-> <<>>]
  /\ done = [k \in Keys |-> <<>>]

Readers == {x \in Submitters : sub[x].pc = "inside"}

WriterWaiting == \E s \in Stoppers : stop[s] = "lock"

-----------------------------------------------------------------------------
(* startSourcePump: Emit returns a batch, unless the pump is cancelled;    *)
(* the whole batch is submitted before the context is looked at again.     *)
Emit(x) ==
  /\ sub[x].pc = "emit"
  /\ x \in Sources => ~cancelled
  /\ \E b \in 1..MaxBatch :
       /\ sub[x].n + b <= MaxMsgs[x]
       /\ sub' = [sub EXCEPT ![x].pc = "submit", ![x].left = b]
  /\ UNCHANGED <<policy, queue, lane, stop, cancelled, quit, released, sent, done>>

PumpExits(x) ==
  /\ x \in Sources /\ cancelled /\ sub[x].pc = "emit"
  /\ sub' = [sub EXCEPT ![x].pc = "exit"]
  /\ UNCHANGED <<policy, queue, lane, stop, cancelled, quit, released, sent, done>>

Submitted(x) ==
  [sub[x] EXCEPT !.pc = IF sub[x].left = 1 THEN "emit" ELSE "submit",
                 !.left = @ - 1, !.msg = None]

(* Submit, up to the closed check: a closed router swallows the message. *)
MayEnter == ~WriterWaiting

SubmitEnters(x) ==
  /\ sub[x].pc = "submit"
  /\ MayEnter
  /\ \E k \in Keys :
       LET m == <<k, x, sub[x].n + 1>> IN
       sub' = [sub EXCEPT ![x] =
                 IF quit THEN [Submitted(x) EXCEPT !.n = @ + 1]
                 ELSE [sub[x] EXCEPT !.pc = "inside", !.n = @ + 1, !.msg = m]]
  /\ UNCHANGED <<policy, queue, lane, stop, cancelled, quit, released, sent, done>>

\* Mutant: the least loaded lane.
LaneForShortest(k) ==
  CHOOSE l \in Lanes : \A j \in Lanes : Len(queue[l]) <= Len(queue[j])

LaneFor(k) == LaneOf[k]

(* The send.  A full lane drops the message under the drop policy and      *)
(* blocks the submitter, read lock held, otherwise.                        *)
SubmitSends(x) ==
  LET m == sub[x].msg
      l == LaneFor(m[1])
      full == Len(queue[l]) >= LaneCapacity
  IN
  /\ sub[x].pc = "inside"
  /\ full => policy[x] = "drop"
  /\ sub' = [sub EXCEPT ![x] = Submitted(x)]
  /\ IF full THEN UNCHANGED <<queue, sent>>
     ELSE /\ queue' = [queue EXCEPT ![l] = Append(@, m)]
          /\ sent' = [sent EXCEPT ![m[1]] = Append(@, m)]
  /\ UNCHANGED <<policy, lane, stop, cancelled, quit, released, done>>

-----------------------------------------------------------------------------
(* runLane: with a message buffered and quit closed, select may take       *)
(* either; past quit the buffer is emptied before the goroutine returns.   *)
LaneReceives(l) ==
  /\ lane[l].pc \in {"run", "draining"} /\ lane[l].msg = None
  /\ queue[l] # <<>>
  /\ lane' = [lane EXCEPT ![l].msg = Head(queue[l])]
  /\ queue' = [queue EXCEPT ![l] = Tail(@)]
  /\ UNCHANGED <<policy, sub, stop, cancelled, quit, released, sent, done>>

\* Mutant: quit ends the lane at once.
LaneSeesQuitAndLeaves(l) ==
  /\ lane[l].pc = "run" /\ lane[l].msg = None /\ quit
  /\ lane' = [lane EXCEPT ![l].pc = "exit"]
  /\ UNCHANGED <<policy, sub, queue, stop, cancelled, quit, released, sent, done>>

LaneSeesQuit(l) ==
  /\ lane[l].pc = "run" /\ lane[l].msg = None /\ quit
  /\ lane' = [lane EXCEPT ![l].pc = "draining"]
  /\ UNCHANGED <<policy, sub, queue, stop, cancelled, quit, released, sent, done>>

LaneExits(l) ==
  /\ lane[l].pc = "draining" /\ lane[l].msg = None /\ queue[l] = <<>>
  /\ lane' = [lane EXCEPT ![l].pc = "exit"]
  /\ UNCHANGED <<policy, sub, queue, stop, cancelled, quit, released, sent, done>>

(* processOne: an error or a panic of a block is logged and the lane goes  *)
(* on; either way the message is over.                                     *)
ProcessOne(l) ==
  /\ lane[l].msg # None
  /\ done' = [done EXCEPT ![lane[l].msg[1]] = Append(@, lane[l].msg)]
  /\ lane' = [lane EXCEPT ![l].msg = None]
  /\ UNCHANGED <<policy, sub, queue, stop, cancelled, quit, released, sent>>

-----------------------------------------------------------------------------
\* Mutant: the pumps are not cancelled.
StopFlowKeepsPumps(s) ==
  /\ stop[s] = "idle"
  /\ stop' = [stop EXCEPT ![s] = "pumps"]
  /\ UNCHANGED <<policy, sub, queue, lane, cancelled, quit, released, sent, done>>

(* StopFlow, from its first statement: cancel the pumps. *)
StopFlow(s) ==
  /\ stop[s] = "idle"
  /\ stop' = [stop EXCEPT ![s] = "pumps"]
  /\ cancelled' = TRUE
  /\ UNCHANGED <<policy, sub, queue, lane, quit, released, sent, done>>

(* pumpWG.Wait returns; Drain asks for the write lock. *)
PumpsDone == \A x \in Sources : sub[x].pc = "exit"

PumpsAwaited(s) ==
  /\ stop[s] = "pumps" /\ PumpsDone
  /\ stop' = [stop EXCEPT ![s] = "lock"]
  /\ UNCHANGED <<policy, sub, queue, lane, cancelled, quit, released, sent, done>>

DrainCloses(s) ==
  /\ stop[s] = "lock" /\ Readers = {}
  /\ quit' = TRUE
  /\ stop' = [stop EXCEPT ![s] = "wait"]
  /\ UNCHANGED <<policy, sub, queue, lane, cancelled, released, sent, done>>

LanesDone == \A l \in Lanes : lane[l].pc = "exit"

(* laneWG.Wait returned: every Stopper block is stopped and the status set. *)
StopBlocks(s) ==
  /\ stop[s] = "wait" /\ LanesDone
  /\ released' = TRUE
  /\ stop' = [stop EXCEPT ![s] = "done"]
  /\ UNCHANGED <<policy, sub, queue, lane, cancelled, quit, sent, done>>

(* The caller's context ends first: StopFlow fails, the blocks stay. *)
DrainTimesOut(s) ==
  /\ stop[s] = "wait" /\ ~LanesDone
  /\ stop' = [stop EXCEPT ![s] = "failed"]
  /\ UNCHANGED <<policy, sub, queue, lane, cancelled, quit, released, sent, done>>

SubmitterStep(x) == PumpExits(x) \/ SubmitEnters(x) \/ SubmitSends(x)

LaneStep(l) == LaneReceives(l) \/ LaneSeesQuit(l) \/ LaneExits(l) \/ ProcessOne(l)

StopperStep(s) == PumpsAwaited(s) \/ DrainCloses(s) \/ StopBlocks(s)

Next ==
  \/ \E x \in Submitters : Emit(x) \/ SubmitterStep(x)
  \/ \E l \in Lanes : LaneStep(l)
  \/ \E s \in Stoppers : StopFlow(s) \/ StopperStep(s) \/ DrainTimesOut(s)

(* Every goroutine that can move does; blocks return from Process.  Emit   *)
(* may wait for input for ever, nobody has to call StopFlow, and no caller *)
(* has to time out.                                                        *)
Fairness ==
  /\ \A x \in Submitters : WF_vars(SubmitterStep(x))
  /\ \A l \in Lanes : WF_vars(LaneStep(l))
  /\ \A s \in Stoppers : WF_vars(StopperStep(s))

Spec == Init /\ [][Next]_vars /\ Fairness

-----------------------------------------------------------------------------
(* Router's promise: messages of one key are processed in the order they   *)
(* were submitted, and none is skipped, whatever the lanes do.             *)
KeyOrder == \A k \in Keys : \E n \in 0..Len(sent[k]) : done[k] = SubSeq(sent[k], 1, n)

(* A StopFlow that returned nil lost nothing: every message a lane took    *)
(* went through the graph.  The blocks are stopped only behind the pumps   *)
(* and the lanes, so no Emit and no Process runs on a stopped block.       *)
StopIsClean ==
  /\ (\E s \in Stoppers : stop[s] = "done") => done = sent
  /\ released => PumpsDone /\ LanesDone /\ \A l \in Lanes : lane[l].msg = None

(* StopFlow returns: no submitter blocked on a full lane with the read     *)
(* lock held and no pump keeps it waiting for ever.                        *)
StopReturns ==
  \A s \in Stoppers : (stop[s] = "pumps") ~> (stop[s] \in {"done", "failed"})
=============================================================================
