------------------------- MODULE ChangeTracking -------------------------
(***************************************************************************)
(* The change-derived trigger events (value_change, path_created,          *)
(* path_removed) of one device's interface: trackPrevious takes the value  *)
(* before an op when the op is accepted, from the ops still in the batch   *)
(* if one of them is on the same path and from the database otherwise, and *)
(* fireDataChanges compares with it after the commit.  A batch is          *)
(* committed as a whole, or op by op when the database refuses it, and the *)
(* events of the committed ops are fired one op after the other.           *)
(*                                                                         *)
(* Three other writers of the same rows fire no events: the device's list  *)
(* of the properties it still holds, the flows' virtual devices, and the   *)
(* retention ceiling.  Deleting the interface, the device or the realm     *)
(* ends the paths themselves and is left out.                              *)
(***************************************************************************)
EXTENDS Integers, Sequences, FiniteSets

CONSTANTS
  Paths, Values,
  NoValue,         \* no value: an unset, or nothing there before
  BatchMaxRows, \* Config.BatchMaxRows
  MaxOps,       \* bound: publishes, those of virtual devices included
  Faults,       \* "lookup", "refuse", "crash", "retrigger", "late"
  MaxFaults     \* bound: kinds of faults in a behaviour

ASSUME ChangeAssumption ==
  /\ NoValue \notin Values
  /\ BatchMaxRows \in Nat \ {0} /\ MaxOps \in Nat /\ MaxFaults \in Nat
  /\ Faults \subseteq {"lookup", "refuse", "crash", "retrigger", "late"}

VARIABLES
  kind,      \* "prop": a properties interface, "stream": individual datastreams
  rows,      \* database: the rows [val, ts] of each path
  batch,     \* batcher.ops
  pending,   \* batcher.pendingPrev: path -> value the last pending op leaves
  split,     \* ops of a refused batch that flushOps has yet to commit one by one
  firing,    \* committed ops whose events fireCommitted has yet to fire
  watched,   \* paths some installed trigger tracks changes of
  count,     \* publishes so far: the time
  view,      \* what a subscriber to all change events takes the value of a path for
  told,      \* "yes": no write was hidden from that subscriber; "no": one was, and no
             \* event followed; "racing": one was, and trackPrevious may not know it
  surprised, \* an event contradicted a view the subscriber had reason to trust
  faults     \* what has gone wrong so far

vars == <<kind, rows, batch, pending, split, firing, watched, count, view, told,
          surprised, faults>>

Vals == Values \cup {NoValue}

Init ==
  /\ kind \in {"prop", "stream"}
  /\ rows = [p \in Paths |-> {}]
  /\ batch = <<>>
  /\ pending = <<>>
  /\ split = <<>> /\ firing = <<>>
  /\ watched = Paths
  /\ count = 0
  /\ view = [p \in Paths |-> NoValue]
  /\ told = [p \in Paths |-> "yes"]
  /\ surprised = FALSE
  /\ faults = {}

\* f goes wrong, if it may.
Fault(f) ==
  /\ f \in Faults
  /\ faults' = faults \cup {f}
  /\ Cardinality(faults') <= MaxFaults

\* The newest row; several when timestamps are equal.
Top(r, p) == {y \in r[p] : \A z \in r[p] : z.ts <= y.ts}

\* GetProperty, or LatestIndividual: the value of the newest row, any of them,
\* NoValue when there is none.
Newest(r, p) ==
  IF Top(r, p) = {} THEN {NoValue} ELSE {x.val : x \in Top(r, p)}

\* The time stamped on a row now; that of a property is never compared.
Now == IF kind = "stream" THEN count ELSE 0

Row(op) == [val |-> op.val, ts |-> op.ts]

\* op i is the last one on its path.
IsLast(ops, i) == \A k \in DOMAIN ops : ops[k].path = ops[i].path => k <= i

\* commit: of the property statements on a path, executed in order, the last one
\* remains, an upsert or a delete; datastreams gain one more sample per op.
Commit(r, ops) ==
  [p \in Paths |->
     LET on == {i \in DOMAIN ops : ops[i].path = p}
     IN IF kind = "stream" THEN r[p] \cup {Row(ops[i]) : i \in on}
        ELSE IF on = {} THEN r[p]
        ELSE {Row(ops[i]) : i \in {k \in on : IsLast(ops, k) /\ ops[k].val # NoValue}}]

\* Mutant: the ops waiting in the batch are ignored.
PreviousStored(p) == Newest(rows, p)

\* Where trackPrevious finds the value before an op on p.
Previous(p) ==
  IF p \in DOMAIN pending THEN {pending[p]} ELSE Newest(rows, p)

\* The chain is extended only by an op that was tracked itself.
Extend(op) ==
  [p \in DOMAIN pending \cup {op.path} |->
     IF p = op.path THEN op.val ELSE pending[p]]

\* A lookup finds what was written without an event, if only before it.
LookedUp(p) ==
  IF p \notin DOMAIN pending /\ told[p] = "racing" THEN [told EXCEPT ![p] = "no"] ELSE told

\* trackPrevious: the lookup is skipped when no trigger tracks the path, and
\* given up when the database fails.
Track(p, v, t) ==
  \/ /\ p \in watched
     /\ \E prev \in Previous(p) :
          LET op == [path |-> p, val |-> v, ts |-> t, tracked |-> TRUE, prev |-> prev]
          IN batch' = Append(batch, op) /\ pending' = Extend(op)
     /\ told' = LookedUp(p)
  \/ /\ \/ p \notin watched
        \/ "lookup" \in faults' /\ p \notin DOMAIN pending
     /\ batch' = Append(batch, [path |-> p, val |-> v, ts |-> t,
                                tracked |-> FALSE, prev |-> NoValue])
     /\ UNCHANGED <<pending, told>>

\* processData: an accepted publish, stamped with its time of reception or
\* with an older time of its own.
Accept(p, v) ==
  /\ split = <<>> /\ firing = <<>>
  /\ count < MaxOps
  /\ Len(batch) < BatchMaxRows
  /\ kind = "stream" => v # NoValue
  /\ \/ UNCHANGED faults /\ Track(p, v, Now)
     \/ Fault("lookup") /\ Track(p, v, Now)
     \/ kind = "stream" /\ Fault("late") /\ \E t \in 0..count - 1 : Track(p, v, t)
  /\ count' = count + 1
  /\ UNCHANGED <<kind, rows, split, firing, watched, view, surprised>>

Event(on, op) == [on |-> on, path |-> op.path, old |-> op.prev, new |-> op.val]

\* Mutant: an unset is no change of value.
FireDataChangesOfSets(op) ==
  IF op.tracked /\ op.val # NoValue /\ op.val # op.prev THEN {Event("value_change", op)} ELSE {}

\* fireDataChanges (value_change_applied is fired with value_change).
FireDataChanges(op) ==
  LET changed == op.prev = NoValue \/ op.val # op.prev
      created == op.prev = NoValue /\ op.val # NoValue
      removed == op.prev # NoValue /\ op.val = NoValue
  IN IF ~op.tracked THEN {}
     ELSE (IF changed THEN {Event("value_change", op)} ELSE {})
       \cup (IF created THEN {Event("path_created", op)} ELSE {})
       \cup (IF removed THEN {Event("path_removed", op)} ELSE {})

\* What the subscriber takes the value for does not contradict event e.
Fits(e) ==
  CASE e.on = "value_change" -> e.old = view[e.path]
    [] e.on = "path_created" -> view[e.path] = NoValue
    [] e.on = "path_removed" -> view[e.path] # NoValue

\* A subscriber reads the events of an op.
Believes(op) ==
  LET p == op.path
      events == FireDataChanges(op)
  IN /\ view' = IF events = {} THEN view ELSE [view EXCEPT ![p] = op.val]
     /\ told' = IF events # {} /\ told[p] = "no" THEN [told EXCEPT ![p] = "yes"] ELSE told
     /\ surprised' = (surprised \/ (told[p] = "yes" /\ \E e \in events : ~Fits(e)))

\* fireCommitted, one op of its loop.
FireCommitted ==
  /\ firing # <<>>
  /\ Believes(Head(firing))
  /\ firing' = Tail(firing)
  /\ UNCHANGED <<kind, rows, batch, pending, split, watched, count, faults>>

ForgetBatch == batch' = <<>> /\ pending' = <<>>

\* What attempts to commit the batch may leave when none of them succeeds: each
\* executes some of the statements in order, a datastream's is one transaction.
Unfinished ==
  IF kind = "stream" THEN UNCHANGED rows
  ELSE \E n, m \in 0..Len(batch) :
         rows' = Commit(Commit(rows, SubSeq(batch, 1, n)), SubSeq(batch, 1, m))

\* flush: the batch is committed, in the end.
Flush ==
  /\ batch # <<>> /\ split = <<>> /\ firing = <<>>
  /\ rows' = Commit(rows, batch)
  /\ firing' = batch
  /\ ForgetBatch
  /\ UNCHANGED <<kind, split, watched, count, view, told, surprised, faults>>

\* flushOps: the database refuses the batch for good; a single op is dropped.
Split ==
  /\ batch # <<>> /\ split = <<>> /\ firing = <<>>
  /\ Fault("refuse")
  /\ Unfinished
  /\ split' = IF Len(batch) = 1 THEN <<>> ELSE batch
  /\ ForgetBatch
  /\ UNCHANGED <<kind, firing, watched, count, view, told, surprised>>

\* The next op of a refused batch is committed or dropped.
FlushOne ==
  /\ split # <<>> /\ firing = <<>>
  /\ split' = Tail(split)
  /\ \/ rows' = Commit(rows, <<Head(split)>>) /\ firing' = <<Head(split)>>
     \/ UNCHANGED <<rows, firing>>
  /\ UNCHANGED <<kind, batch, pending, watched, count, view, told, surprised, faults>>

\* The process dies, or abandons the batch at shutdown, before, while or after
\* it commits: the events that are not fired yet never are.
Crash ==
  /\ Fault("crash")
  /\ batch # <<>> \/ split # <<>> \/ firing # <<>>
  /\ Unfinished
  /\ ForgetBatch /\ split' = <<>> /\ firing' = <<>>
  /\ UNCHANGED <<kind, watched, count, view, told, surprised>>

-----------------------------------------------------------------------------
(* Writers that fire no events *)

\* Paths whose newest row is another one.
Rewritten == {p \in Paths : Top(rows', p) # Top(rows, p)}

Hidden(mark) ==
  /\ told' = [p \in Paths |-> IF p \in Rewritten THEN mark ELSE told[p]]
  /\ UNCHANGED <<kind, batch, pending, split, firing, watched, view, surprised>>

\* handleProducerProperties, on the shard and after its flush: the device lists
\* the properties it still holds, the others' rows are deleted.
Purge(keep) ==
  /\ kind = "prop"
  /\ batch = <<>> /\ split = <<>> /\ firing = <<>>
  /\ rows' = [p \in Paths |-> IF p \in keep THEN rows[p] ELSE {}]
  /\ Hidden("no") /\ UNCHANGED <<count, faults>>

Written(p, new) == rows' = [rows EXCEPT ![p] = new]

\* A virtual device's value is written by the flow that computed it, whatever the
\* shard is doing: an upsert, or a sample of now or of a time of its own.
PublishDeviceValue(p, v) ==
  /\ count < MaxOps /\ count' = count + 1
  /\ \/ kind = "prop" /\ Written(p, {[val |-> v, ts |-> Now]}) /\ UNCHANGED faults
     \/ kind = "stream" /\ Written(p, rows[p] \cup {[val |-> v, ts |-> Now]}) /\ UNCHANGED faults
     \/ /\ kind = "stream" /\ Fault("late")
        /\ \E t \in 0..count - 1 : Written(p, rows[p] \cup {[val |-> v, ts |-> t]})
  /\ Hidden("racing")

\* The hourly sweep: samples older than the realm's ceiling are deleted.
EnforceRealmRetentionCeilings(oldest) ==
  /\ kind = "stream"
  /\ rows' = [p \in Paths |-> {x \in rows[p] : x.ts >= oldest}]
  /\ Hidden("racing") /\ UNCHANGED <<count, faults>>

-----------------------------------------------------------------------------
\* A trigger is installed or deleted: the next message is handled against
\* another schema snapshot.
Retrigger ==
  /\ Fault("retrigger")
  /\ watched' \in SUBSET Paths
  /\ UNCHANGED <<kind, rows, batch, pending, split, firing, count, view, told, surprised>>

Next ==
  \/ \E p \in Paths, v \in Vals : Accept(p, v)
  \/ Flush \/ Split \/ FlushOne
  \/ FireCommitted
  \/ Crash
  \/ Retrigger
  \/ \E keep \in SUBSET Paths : Purge(keep)
  \/ \E p \in Paths, v \in Values : PublishDeviceValue(p, v)
  \/ \E oldest \in 1..count : EnforceRealmRetentionCeilings(oldest)

Spec == Init /\ [][Next]_vars

-----------------------------------------------------------------------------
(* Properties *)

\* Ops that share a batch see each other as a serial processor would: the
\* previous value of an op is the one the database would have if the ops
\* before it were already committed (prevSnap, trackPrevious).  It holds
\* whatever was refused, lost, untracked or purged before, as long as the
\* earlier ops of this batch on that path were tracked, no sample carries a
\* timestamp older than another's, and neither a virtual device nor the
\* retention ceiling rewrote the path since it was looked up.
PrevIsSerial ==
  \A i \in DOMAIN batch :
    (/\ "late" \notin faults /\ told[batch[i].path] # "racing"
     /\ \A j \in 1..i : batch[j].path = batch[i].path => batch[j].tracked)
    => batch[i].prev \in Newest(Commit(rows, SubSeq(batch, 1, i - 1)), batch[i].path)

\* Unless something went wrong, whoever follows value_change, path_created and
\* path_removed knows the stored value of a path whenever no op waits for its
\* commit or its events, and no event contradicts the ones before it: a
\* value_change starts where the last one ended, a path is created only while it
\* has no value and removed only while it has one (fireDataChanges).  A purge list, a
\* virtual device or the retention ceiling changes a value without an event;
\* from then on this is not promised of that path, until an event is fired for
\* an op whose previous value was looked up after the change: that one event
\* sets the subscriber right again.
SubscriberKnowsValue ==
  faults = {} =>
    /\ ~surprised
    /\ batch = <<>> /\ firing = <<>> =>
         \A p \in Paths : told[p] = "yes" => view[p] \in Newest(rows, p)
=============================================================================
