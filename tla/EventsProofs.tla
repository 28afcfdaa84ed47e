---------------------------- MODULE EventsProofs ----------------------------
(***************************************************************************)
(* Proofs about the two parts a change of a value passes on its way to a   *)
(* subscriber, for every value of their constants: ChangeTracking, which   *)
(* turns committed ops into events, and Rooms, which hands events to the   *)
(* members of a topic.  The parts share no state.                          *)
(***************************************************************************)
EXTENDS ChangeTracking, Rooms, TLAPS

-----------------------------------------------------------------------------
(* Changes: the inductive invariant *)

Ops == [path : Paths, val : Vals, ts : Nat, tracked : BOOLEAN, prev : Vals]

Samples == [val : Vals, ts : Nat]

Types ==
  /\ kind \in {"prop", "stream"}
  /\ rows \in [Paths -> SUBSET Samples]
  /\ batch \in Seq(Ops) /\ split \in Seq(Ops) /\ firing \in Seq(Ops)
  /\ pending \in [DOMAIN pending -> Vals]
  /\ watched \in SUBSET Paths
  /\ count \in Nat
  /\ view \in [Paths -> Vals]
  /\ told \in [Paths -> {"yes", "no", "racing"}]
  /\ surprised \in BOOLEAN

\* The shard accepts nothing while it flushes.
OneAtATime == split # <<>> \/ firing # <<>> => batch = <<>> /\ pending = <<>>

\* Op j is the last one before op i on the path of op i.
Prior(ops, j, i) ==
  /\ j \in DOMAIN ops /\ j < i /\ ops[j].path = ops[i].path
  /\ \A k \in DOMAIN ops : k < i /\ ops[k].path = ops[i].path => k <= j

First(ops, i) == \A k \in DOMAIN ops : k < i => ops[k].path # ops[i].path

\* The timestamps of ops are none of those stored, and grow.
Fresh(ops) ==
  \A i \in DOMAIN ops :
    /\ ops[i].ts < count
    /\ \A p \in Paths : \A x \in rows[p] : x.ts # ops[i].ts
    /\ \A j \in DOMAIN ops : i < j => ops[i].ts < ops[j].ts

\* One row at most is the newest one of a path.
Stamps ==
  /\ kind = "prop" => \A p \in Paths : \A x, y \in rows[p] : x = y
  /\ kind = "stream" /\ "late" \notin faults =>
       /\ \A p \in Paths : \A x, y \in rows[p] : x.ts < count /\ (x.ts = y.ts => x = y)
       /\ Fresh(batch) /\ Fresh(split)

\* The chain holds the value that the last tracked op on a path leaves.
Chain ==
  \A p \in Paths :
    /\ p \in DOMAIN pending =>
         \E i \in DOMAIN batch :
           /\ batch[i].path = p /\ batch[i].tracked /\ batch[i].val = pending[p]
           /\ \A j \in DOMAIN batch : batch[j].path = p /\ batch[j].tracked => j <= i
    /\ p \notin DOMAIN pending => \A j \in DOMAIN batch : batch[j].path = p => ~batch[j].tracked

\* Op i of the batch and those before it on its path were tracked.
Tracked(i) == \A j \in 1..i : batch[j].path = batch[i].path => batch[j].tracked

\* The row was not rewritten since the first op on the path of op i looked it up.
Current(i) == told[batch[i].path] # "racing"

\* The previous value of a tracked op is that of the op before it on the path, or
\* the stored one.
Linked ==
  \A i \in DOMAIN batch : Tracked(i) =>
    \/ \E j \in DOMAIN batch : Prior(batch, j, i) /\ batch[i].prev = batch[j].val
    \/ First(batch, i) /\ (Current(i) => batch[i].prev \in Newest(rows, batch[i].path))

\* The sample of a tracked op is younger than those stored.
Younger ==
  kind = "stream" /\ "late" \notin faults =>
    \A i \in DOMAIN batch :
      Tracked(i) /\ Current(i) => \A x \in rows[batch[i].path] : x.ts < batch[i].ts

\* Ops that continue one another from what the subscriber takes the value for to
\* what is stored.
Continues(i) ==
  LET p == firing[i].path IN
  /\ firing[i].tracked
  /\ \A j \in DOMAIN firing : Prior(firing, j, i) => firing[i].prev = firing[j].val
  /\ First(firing, i) /\ told[p] = "yes" => firing[i].prev = view[p]
  /\ IsLast(firing, i) /\ told[p] # "racing" => firing[i].val \in Newest(rows, p)

Follows ==
  /\ watched = Paths /\ split = <<>> /\ ~surprised
  /\ \A i \in DOMAIN batch : batch[i].tracked
  /\ \A i \in DOMAIN firing : Continues(i)
  /\ \A p \in Paths :
       (told[p] = "yes" /\ \A i \in DOMAIN firing : firing[i].path # p) => view[p] \in Newest(rows, p)

IInv == Types /\ OneAtATime /\ Stamps /\ Chain /\ Linked /\ Younger /\ (faults = {} => Follows)

-----------------------------------------------------------------------------
(* What a commit leaves *)

LEMMA RowIsSample ==
  ASSUME NEW op \in Ops
  PROVE  Row(op) \in Samples /\ Row(op).val = op.val /\ Row(op).ts = op.ts
  BY DEF Row, Ops, Samples

LEMMA SeqOps ==
  ASSUME NEW ops \in Seq(Ops)
  PROVE  /\ Len(ops) \in Nat /\ DOMAIN ops = 1..Len(ops) /\ DOMAIN ops \subseteq Nat
         /\ \A i \in DOMAIN ops : ops[i] \in Ops
  OBVIOUS

LEMMA PrefixIsOps ==
  ASSUME NEW ops \in Seq(Ops), NEW n \in 0..Len(ops)
  PROVE  /\ SubSeq(ops, 1, n) \in Seq(Ops) /\ DOMAIN SubSeq(ops, 1, n) = 1..n
         /\ \A i \in 1..n : SubSeq(ops, 1, n)[i] = ops[i]
<1>1. n \in Nat /\ 1..n \subseteq DOMAIN ops
  OBVIOUS
<1>2. SubSeq(ops, 1, n) = [i \in 1..n |-> ops[i]]
  BY <1>1
<1>3. QED
  BY <1>1, <1>2

LEMMA CommitIsTable ==
  ASSUME NEW r \in [Paths -> SUBSET Samples], NEW ops \in Seq(Ops)
  PROVE  Commit(r, ops) \in [Paths -> SUBSET Samples]
<1>1. \A i \in DOMAIN ops : Row(ops[i]) \in Samples
  BY Zenon, SeqOps, RowIsSample
<1>2. QED
  BY Zenon, <1>1 DEF Commit

\* A path no op is on is left alone.
LEMMA CommitElsewhere ==
  ASSUME NEW r, NEW ops, NEW p \in Paths, \A i \in DOMAIN ops : ops[i].path # p
  PROVE  Commit(r, ops)[p] = r[p]
  BY ZenonT(30) DEF Commit

(* A property has one row at most after a commit. *)
LEMMA CommitOneRow ==
  ASSUME NEW r, NEW ops \in Seq(Ops), kind = "prop", NEW p \in Paths, \A x, y \in r[p] : x = y
  PROVE  \A x, y \in Commit(r, ops)[p] : x = y
<1> DEFINE on == {i \in DOMAIN ops : ops[i].path = p}
<1>1. \A i, k \in on : IsLast(ops, i) /\ IsLast(ops, k) => i = k
  BY SeqOps DEF IsLast
<1>2. CASE on = {}
  BY Zenon, <1>2 DEF Commit
<1>3. CASE on # {}
  <2>1. Commit(r, ops)[p] = {Row(ops[i]) : i \in {k \in on : IsLast(ops, k) /\ ops[k].val # NoValue}}
    BY Zenon, <1>3 DEF Commit
  <2>2. QED
    BY Zenon, <1>1, <2>1
<1>4. QED
  BY Zenon, <1>2, <1>3

(* The newest value of a path is the one the last op on it wrote: the last     *)
(* statement of a property, the youngest sample of a datastream.               *)
LEMMA NewestIsLast ==
  ASSUME Types, NEW ops \in Seq(Ops), NEW i \in DOMAIN ops, IsLast(ops, i),
         kind = "stream" => /\ \A x \in rows[ops[i].path] : x.ts < ops[i].ts
                            /\ \A k, j \in DOMAIN ops : k < j => ops[k].ts < ops[j].ts
  PROVE  Newest(Commit(rows, ops), ops[i].path) = {ops[i].val}
<1> DEFINE p == ops[i].path
           on == {k \in DOMAIN ops : ops[k].path = p}
           t == Commit(rows, ops)[p]
<1>1. ops[i] \in Ops /\ p \in Paths /\ i \in on /\ DOMAIN ops \subseteq Nat
  BY SeqOps, ZenonT(30) DEF Ops
<1>2. Row(ops[i]).val = ops[i].val /\ Row(ops[i]).ts = ops[i].ts /\ ops[i].ts \in Nat
  BY Zenon, <1>1, RowIsSample DEF Ops
<1>3. CASE kind = "prop"
  <2>1. {k \in on : IsLast(ops, k) /\ ops[k].val # NoValue} = IF ops[i].val = NoValue THEN {} ELSE {i}
    BY <1>1 DEF IsLast
  <2>2. t = {Row(ops[k]) : k \in {k \in on : IsLast(ops, k) /\ ops[k].val # NoValue}}
    BY Zenon, <1>1, <1>3 DEF Commit
  <2>3. t = IF ops[i].val = NoValue THEN {} ELSE {Row(ops[i])}
    BY Zenon, <2>1, <2>2
  <2>4. CASE ops[i].val = NoValue
    BY Zenon, <2>3, <2>4 DEF Newest, Top
  <2>5. CASE ops[i].val # NoValue
    <3>1. t = {Row(ops[i])} /\ Row(ops[i]).ts <= Row(ops[i]).ts
      BY <1>2, <2>3, <2>5
    <3>2. QED
      BY Zenon, <1>2, <3>1 DEF Newest, Top
  <2>6. QED
    BY Zenon, <2>4, <2>5
<1>4. CASE kind = "stream"
  <2>1. t = rows[p] \cup {Row(ops[k]) : k \in on}
    BY Zenon, <1>1, <1>4 DEF Commit
  <2>2. \A x \in rows[p] : x.ts \in Nat /\ x.ts < ops[i].ts
    BY <1>1, <1>4 DEF Types, Samples
  <2>3. \A k \in on : Row(ops[k]).ts = ops[k].ts /\ ops[k].ts \in Nat
    BY SeqOps, RowIsSample, ZenonT(30) DEF Ops
  <2>4. \A k \in on : k # i => ops[k].ts < ops[i].ts
    BY <1>1, <1>4 DEF IsLast
  <2>5. \A z \in t : z # Row(ops[i]) => z.ts \in Nat /\ z.ts < ops[i].ts
    BY Zenon, <2>1, <2>2, <2>3, <2>4
  <2>6. Row(ops[i]) \in t
    BY Zenon, <1>1, <2>1
  <2> HIDE DEF t
  <2>7. \A z \in t : z.ts <= Row(ops[i]).ts
    BY <1>2, <2>5
  <2>8. \A y \in t : (\A z \in t : z.ts <= y.ts) => y = Row(ops[i])
    BY <1>2, <2>5, <2>6
  <2>9. {y \in t : \A z \in t : z.ts <= y.ts} = {Row(ops[i])}
    BY Zenon, <2>6, <2>7, <2>8
  <2>10. QED
    BY Zenon, <1>2, <2>6, <2>9 DEF Newest, Top, t
<1>5. QED
  BY Zenon, <1>3, <1>4 DEF Types

(* One row at most is the newest, so a path has one value.                     *)
LEMMA NewestIsOne ==
  ASSUME Types, Stamps, NEW p \in Paths, kind = "prop" \/ "late" \notin faults,
         NEW a \in Newest(rows, p), NEW b \in Newest(rows, p)
  PROVE  a = b
<1>1. CASE Top(rows, p) = {}
  BY Zenon, <1>1 DEF Newest
<1>2. CASE Top(rows, p) # {}
  <2>1. PICK x \in rows[p] : a = x.val /\ \A z \in rows[p] : z.ts <= x.ts
    BY Zenon, <1>2 DEF Newest, Top
  <2>2. PICK y \in rows[p] : b = y.val /\ \A z \in rows[p] : z.ts <= y.ts
    BY Zenon, <1>2 DEF Newest, Top
  <2>3. x.ts \in Nat /\ y.ts \in Nat
    BY DEF Types, Samples
  <2>4. x.ts = y.ts
    BY <2>1, <2>2, <2>3
  <2>5. x = y
    BY Zenon, <2>4 DEF Stamps, Types
  <2>6. QED
    BY Zenon, <2>1, <2>2, <2>5
<1>3. QED
  BY Zenon, <1>1, <1>2

(* Only values are stored.                                                     *)
LEMMA NewestAreVals ==
  ASSUME NEW r \in [Paths -> SUBSET Samples], NEW p \in Paths
  PROVE  Newest(r, p) \subseteq Vals
<1>1. \A x \in r[p] : x.val \in Vals
  BY DEF Samples
<1>2. NoValue \in Vals
  BY Zenon DEF Vals
<1>3. QED
  BY Zenon, <1>1, <1>2 DEF Newest, Top

(* A commit of fresh ops leaves samples with timestamps of their own, all of   *)
(* them in the past.                                                           *)
LEMMA CommitStamps ==
  ASSUME Types, NEW ops \in Seq(Ops), kind = "stream", Fresh(ops),
         \A p \in Paths : \A x, y \in rows[p] : x.ts < count /\ (x.ts = y.ts => x = y)
  PROVE  \A p \in Paths : \A x, y \in Commit(rows, ops)[p] : x.ts < count /\ (x.ts = y.ts => x = y)
<1> SUFFICES ASSUME NEW p \in Paths
             PROVE  \A x, y \in Commit(rows, ops)[p] : x.ts < count /\ (x.ts = y.ts => x = y)
  OBVIOUS
<1> DEFINE on == {i \in DOMAIN ops : ops[i].path = p}
<1>1. Commit(rows, ops)[p] = rows[p] \cup {Row(ops[i]) : i \in on}
  BY DEF Commit
<1>2. \A i \in on : Row(ops[i]).ts = ops[i].ts /\ ops[i].ts \in Nat /\ ops[i].ts < count
  BY SeqOps, RowIsSample, ZenonT(30) DEF Ops, Fresh
<1>3. \A x \in rows[p] : x.ts \in Nat /\ x.ts < count
  BY DEF Types, Samples
<1>4. \A x \in rows[p] : \A i \in on : x.ts # ops[i].ts
  BY Zenon DEF Fresh
<1>5. \A i, k \in on : ops[i].ts = ops[k].ts => i = k
  <2> SUFFICES ASSUME NEW i \in on, NEW k \in on, ops[i].ts = ops[k].ts, i # k PROVE FALSE
    OBVIOUS
  <2>1. i \in Nat /\ k \in Nat
    BY Zenon, SeqOps
  <2>2. i < k \/ k < i
    BY <2>1
  <2>3. ops[i].ts < ops[k].ts \/ ops[k].ts < ops[i].ts
    BY Zenon, <2>2 DEF Fresh
  <2>4. QED
    BY <1>2, <2>3
<1>6. SUFFICES ASSUME NEW x \in Commit(rows, ops)[p], NEW y \in Commit(rows, ops)[p]
               PROVE  x.ts < count /\ (x.ts = y.ts => x = y)
  OBVIOUS
<1>7. CASE x \in rows[p] /\ y \in rows[p]
  BY Zenon, <1>7
<1>8. CASE x \in rows[p] /\ y \notin rows[p]
  <2>1. PICK k \in on : y = Row(ops[k])
    BY Zenon, <1>1, <1>8
  <2>2. QED
    BY <1>2, <1>3, <1>4, <1>8, <2>1
<1>9. CASE x \notin rows[p] /\ y \in rows[p]
  <2>1. PICK k \in on : x = Row(ops[k])
    BY Zenon, <1>1, <1>9
  <2>2. QED
    BY <1>2, <1>3, <1>4, <1>9, <2>1
<1>10. CASE x \notin rows[p] /\ y \notin rows[p]
  <2>1. PICK i \in on : x = Row(ops[i])
    BY Zenon, <1>1, <1>10
  <2>2. PICK k \in on : y = Row(ops[k])
    BY Zenon, <1>1, <1>10
  <2>3. x.ts = y.ts => i = k
    BY Zenon, <1>2, <1>5, <2>1, <2>2
  <2>4. QED
    BY Zenon, <1>2, <2>1, <2>2, <2>3
<1>11. QED
  BY Zenon, <1>7, <1>8, <1>9, <1>10

(* What unfinished attempts leave: the samples as they were, or properties     *)
(* with one row at most.                                                       *)
LEMMA UnfinishedIsTable ==
  ASSUME Types, Stamps, Unfinished
  PROVE  /\ rows' \in [Paths -> SUBSET Samples]
         /\ kind = "stream" => rows' = rows
         /\ kind = "prop" => \A p \in Paths : \A x, y \in rows'[p] : x = y
<1>1. CASE kind = "stream"
  BY Zenon, <1>1 DEF Unfinished, Types
<1>2. CASE kind = "prop"
  <2>1. PICK n \in 0..Len(batch), m \in 0..Len(batch) :
          rows' = Commit(Commit(rows, SubSeq(batch, 1, n)), SubSeq(batch, 1, m))
    BY Zenon, <1>2 DEF Unfinished
  <2> DEFINE a == SubSeq(batch, 1, n)
             b == SubSeq(batch, 1, m)
             half == Commit(rows, a)
  <2>2. a \in Seq(Ops) /\ b \in Seq(Ops)
    BY Zenon, PrefixIsOps DEF Types
  <2>3. rows' = Commit(half, b)
    BY <2>1
  <2> HIDE DEF a, b
  <2>4. half \in [Paths -> SUBSET Samples]
    BY <2>2, CommitIsTable, ZenonT(30) DEF Types
  <2>5. \A p \in Paths : \A x, y \in half[p] : x = y
    BY Zenon, <1>2, <2>2, CommitOneRow DEF Stamps
  <2> HIDE DEF half
  <2>6. rows' \in [Paths -> SUBSET Samples]
    BY Zenon, <2>2, <2>3, <2>4, CommitIsTable
  <2>7. \A p \in Paths : \A x, y \in rows'[p] : x = y
    BY Zenon, <1>2, <2>2, <2>3, <2>5, CommitOneRow
  <2>8. QED
    BY Zenon, <1>2, <2>6, <2>7
<1>3. QED
  BY Zenon, <1>1, <1>2 DEF Types

-----------------------------------------------------------------------------
(* One lemma per action *)

(* Nothing is asked of a batch without ops.                                    *)
LEMMA NothingWaits ==
  ASSUME batch' = <<>>, pending' = <<>>
  PROVE  OneAtATime' /\ Chain' /\ Linked' /\ Younger' /\ Fresh(batch)'
<1>1. DOMAIN batch' = {} /\ DOMAIN pending' = {}
  OBVIOUS
<1>2. QED
  BY Zenon, <1>1 DEF OneAtATime, Chain, Linked, Younger, Fresh

LEMMA InitHolds == Init => IInv
<1> SUFFICES ASSUME Init PROVE IInv
  OBVIOUS
<1>1. DOMAIN batch = {} /\ DOMAIN split = {} /\ DOMAIN firing = {} /\ DOMAIN pending = {}
  BY DEF Init
<1>2. Types
  <2>1. batch \in Seq(Ops) /\ split \in Seq(Ops) /\ firing \in Seq(Ops)
    BY DEF Init
  <2>2. pending \in [DOMAIN pending -> Vals]
    BY DEF Init
  <2>3. rows \in [Paths -> SUBSET Samples] /\ view \in [Paths -> Vals]
    BY Zenon DEF Init, Vals
  <2>4. told \in [Paths -> {"yes", "no", "racing"}]
    BY Zenon DEF Init
  <2>5. QED
    BY <2>1, <2>2, <2>3, <2>4, ZenonT(30) DEF Types, Init
<1>3. OneAtATime /\ Chain /\ Linked /\ Younger
  BY Zenon, <1>1 DEF OneAtATime, Chain, Linked, Younger, Init
<1>4. \A p \in Paths : rows[p] = {} /\ view[p] = NoValue
  BY Zenon DEF Init
<1>5. Stamps
  BY Zenon, <1>1, <1>4 DEF Stamps, Fresh
<1>6. Follows
  BY Zenon, <1>1, <1>4 DEF Follows, Newest, Top, Init
<1>7. QED
  BY Zenon, <1>2, <1>3, <1>5, <1>6 DEF IInv

(* A subscriber and the database agree as long as nothing of theirs changes.   *)
LEMMA StillFollows ==
  ASSUME Types, Follows, UNCHANGED <<rows, split, firing, watched, view, surprised>>,
         \A p \in Paths : told'[p] = "yes" => told[p] = "yes",
         firing = <<>> \/ told' = told,
         \A i \in DOMAIN batch' : batch'[i].tracked
  PROVE  Follows'
<1>1. ASSUME NEW i \in DOMAIN firing PROVE Continues(i)'
  <2>1. firing # <<>>
    BY <1>1
  <2>2. Continues(i)
    BY Zenon DEF Follows
  <2>3. QED
    BY Zenon, <2>1, <2>2 DEF Continues, Prior, First, IsLast, Newest, Top
<1>2. \A p \in Paths : Newest(rows, p) = Newest(rows', p)
  OBVIOUS
<1>3. QED
  BY Zenon, <1>1, <1>2 DEF Follows

(* What trackPrevious finds is a value.                                        *)
LEMMA PreviousAreVals ==
  ASSUME Types, NEW p \in Paths
  PROVE  Previous(p) \subseteq Vals
<1>1. CASE p \in DOMAIN pending
  BY Zenon, <1>1 DEF Previous, Types
<1>2. CASE p \notin DOMAIN pending
  BY Zenon, <1>2, NewestAreVals DEF Previous, Types
<1>3. QED
  BY Zenon, <1>1, <1>2

(* trackPrevious appends one op: tracked, from the value the chain or the      *)
(* database gives, or untracked.                                               *)
Appended(op) ==
  /\ op \in Ops
  /\ batch' = Append(batch, op)
  /\ \/ op.tracked /\ op.prev \in Previous(op.path) /\ pending' = Extend(op) /\ told' = LookedUp(op.path)
     \/ ~op.tracked /\ pending' = pending /\ told' = told

LEMMA TrackAppends ==
  ASSUME Types, NEW p \in Paths, NEW v \in Vals, NEW t \in Nat, Track(p, v, t)
  PROVE  \E op : /\ Appended(op) /\ op.path = p /\ op.ts = t
                 /\ ~op.tracked => p \notin watched \/ "lookup" \in faults'
<1>1. CASE /\ p \in watched
           /\ \E prev \in Previous(p) :
                LET op == [path |-> p, val |-> v, ts |-> t, tracked |-> TRUE, prev |-> prev]
                IN batch' = Append(batch, op) /\ pending' = Extend(op)
           /\ told' = LookedUp(p)
  <2>1. PICK prev \in Previous(p) :
             LET op == [path |-> p, val |-> v, ts |-> t, tracked |-> TRUE, prev |-> prev]
             IN batch' = Append(batch, op) /\ pending' = Extend(op)
    BY <1>1, ZenonT(30)
  <2>2. prev \in Vals
    BY Zenon, PreviousAreVals
  <2> DEFINE op == [path |-> p, val |-> v, ts |-> t, tracked |-> TRUE, prev |-> prev]
  <2>3. op \in Ops /\ op.path = p /\ op.ts = t /\ op.tracked /\ op.prev = prev
    BY Zenon, <2>2 DEF Ops
  <2>4. batch' = Append(batch, op) /\ pending' = Extend(op)
    BY Zenon, <2>1
  <2> HIDE DEF op
  <2>5. QED
    BY Zenon, <1>1, <2>3, <2>4 DEF Appended
<1>2. CASE /\ p \notin watched \/ "lookup" \in faults'
           /\ batch' = Append(batch, [path |-> p, val |-> v, ts |-> t,
                                      tracked |-> FALSE, prev |-> NoValue])
           /\ pending' = pending /\ told' = told
  <2> DEFINE op == [path |-> p, val |-> v, ts |-> t, tracked |-> FALSE, prev |-> NoValue]
  <2>1. op \in Ops /\ op.path = p /\ op.ts = t /\ ~op.tracked
    BY Zenon DEF Ops, Vals
  <2>2. batch' = Append(batch, op) /\ pending' = pending /\ told' = told
    BY Zenon, <1>2
  <2> HIDE DEF op
  <2>3. QED
    BY Zenon, <1>2, <2>1, <2>2 DEF Appended
<1>3. QED
  BY <1>1, <1>2, ZenonT(30) DEF Track

LEMMA AppendOps ==
  ASSUME NEW ops \in Seq(Ops), NEW op \in Ops
  PROVE  /\ Append(ops, op) \in Seq(Ops) /\ Len(ops) \in Nat /\ DOMAIN ops = 1..Len(ops)
         /\ DOMAIN Append(ops, op) = 1..(Len(ops) + 1)
         /\ \A i \in 1..Len(ops) : Append(ops, op)[i] = ops[i]
         /\ Append(ops, op)[Len(ops) + 1] = op
  OBVIOUS

(* The chain is extended by tracked ops only.                                  *)
LEMMA AppendedChain ==
  ASSUME Types, Chain, NEW op, Appended(op)
  PROVE  Chain' /\ pending' \in [DOMAIN pending' -> Vals]
<1> DEFINE n == Len(batch)
<1>1. /\ n \in Nat /\ DOMAIN batch = 1..n /\ DOMAIN batch' = 1..(n + 1)
      /\ \A i \in 1..n : batch'[i] = batch[i]
      /\ batch'[n + 1] = op
  BY Zenon, AppendOps DEF Appended, Types
<1>2. op.path \in Paths /\ op.val \in Vals
  BY Zenon DEF Appended, Ops
<1> HIDE DEF n
<1>3. CASE op.tracked /\ pending' = Extend(op)
  <2>1. /\ DOMAIN pending' = DOMAIN pending \cup {op.path}
        /\ pending'[op.path] = op.val
        /\ \A p \in DOMAIN pending : p # op.path => pending'[p] = pending[p]
    BY Zenon, <1>3 DEF Extend
  <2>2. pending' \in [DOMAIN pending' -> Vals]
    <3>1. \A p \in DOMAIN pending : pending[p] \in Vals
      BY Zenon DEF Types
    <3>2. QED
      BY Zenon, <1>2, <1>3, <3>1 DEF Extend
  <2>3. SUFFICES ASSUME NEW p \in Paths
                 PROVE  /\ p \in DOMAIN pending' =>
                             \E i \in DOMAIN batch' :
                               /\ batch'[i].path = p /\ batch'[i].tracked /\ batch'[i].val = pending'[p]
                               /\ \A j \in DOMAIN batch' : batch'[j].path = p /\ batch'[j].tracked => j <= i
                        /\ p \notin DOMAIN pending' =>
                             \A j \in DOMAIN batch' : batch'[j].path = p => ~batch'[j].tracked
    BY Zenon, <2>2 DEF Chain
  <2>4. CASE p = op.path
    <3>1. n + 1 \in DOMAIN batch' /\ \A j \in DOMAIN batch' : j <= n + 1
      BY <1>1
    <3>2. QED
      BY Zenon, <1>1, <1>3, <2>1, <2>4, <3>1
  <2>5. CASE p # op.path
    BY <1>1, <2>1, <2>5, SMTT(30) DEF Chain
  <2>6. QED
    BY Zenon, <2>4, <2>5
<1>4. CASE ~op.tracked /\ pending' = pending
  <2>1. \A j \in DOMAIN batch' : batch'[j].tracked => j \in DOMAIN batch /\ batch'[j] = batch[j]
    BY <1>1, <1>4
  <2>2. \A j \in DOMAIN batch : j \in DOMAIN batch' /\ batch'[j] = batch[j]
    BY <1>1
  <2>3. QED
    BY <1>4, <2>1, <2>2, SMTT(30) DEF Chain, Types
<1>5. QED
  BY Zenon, <1>3, <1>4 DEF Appended

(* A lookup makes no tracked op of the batch current: its path is in the chain.*)
LEMMA AppendedCurrent ==
  ASSUME Types, Chain, NEW op, Appended(op),
         NEW i \in DOMAIN batch, batch[i].tracked, batch[i].path \in Paths,
         told'[batch[i].path] # "racing"
  PROVE  Current(i)
<1>1. batch[i].path \in DOMAIN pending
  BY Zenon DEF Chain
<1>2. told' = told \/ told' = LookedUp(op.path)
  BY Zenon DEF Appended
<1>3. told'[batch[i].path] = told[batch[i].path]
  BY Zenon, <1>1, <1>2 DEF LookedUp, Types
<1>4. QED
  BY Zenon, <1>3 DEF Current

(* The previous value of a tracked op is the one left by the op before it.     *)
LEMMA AppendedLinked ==
  ASSUME Types, Chain, Linked, NEW op, Appended(op), rows' = rows
  PROVE  Linked'
<1> DEFINE n == Len(batch)
<1>1. /\ n \in Nat /\ DOMAIN batch = 1..n /\ DOMAIN batch' = 1..(n + 1)
      /\ \A i \in 1..n : batch'[i] = batch[i]
      /\ batch'[n + 1] = op
  BY Zenon, AppendOps DEF Appended, Types
<1>2. op.path \in Paths
  BY Zenon DEF Appended, Ops
<1> HIDE DEF n
<1>3. SUFFICES ASSUME NEW i \in 1..(n + 1),
                      \A j \in 1..i : batch'[j].path = batch'[i].path => batch'[j].tracked
               PROVE  \/ \E j \in DOMAIN batch' : Prior(batch', j, i) /\ batch'[i].prev = batch'[j].val
                      \/ /\ First(batch', i)
                         /\ Current(i)' => batch'[i].prev \in Newest(rows', batch'[i].path)
  BY Zenon, <1>1 DEF Linked, Tracked
<1>4. CASE i <= n
  <2>1. i \in DOMAIN batch /\ batch'[i] = batch[i]
    BY <1>1, <1>4
  <2>2. \A j \in 1..i : batch[j].path = batch[i].path => batch[j].tracked
    BY <1>1, <1>3, <1>4
  <2>3. CASE \E j \in DOMAIN batch : Prior(batch, j, i) /\ batch[i].prev = batch[j].val
    <3>1. PICK j \in DOMAIN batch : Prior(batch, j, i) /\ batch[i].prev = batch[j].val
      BY Zenon, <2>3
    <3>2. j \in DOMAIN batch' /\ batch'[j] = batch[j]
      BY <1>1
    <3>3. \A k \in DOMAIN batch' : k < i => k \in DOMAIN batch /\ batch'[k] = batch[k]
      BY <1>1, <1>4
    <3>4. QED
      BY Zenon, <2>1, <3>1, <3>2, <3>3 DEF Prior
  <2>4. CASE First(batch, i) /\ (Current(i) => batch[i].prev \in Newest(rows, batch[i].path))
    <3>1. \A k \in DOMAIN batch' : k < i => k \in DOMAIN batch /\ batch'[k] = batch[k]
      BY <1>1, <1>4
    <3>2. batch[i].tracked /\ batch[i].path \in Paths
      <4>1. i \in 1..i
        BY <1>1
      <4>2. batch[i] \in Ops
        BY Zenon, <2>1, SeqOps DEF Types
      <4>3. QED
        BY Zenon, <2>2, <4>1, <4>2 DEF Ops
    <3>3. Current(i)' => Current(i)
      BY Zenon, <2>1, <3>2, AppendedCurrent DEF Current
    <3>4. First(batch', i)
      BY Zenon, <2>1, <2>4, <3>1 DEF First
    <3>5. QED
      BY Zenon, <2>1, <2>4, <3>3, <3>4
  <2>5. QED
    BY Zenon, <2>1, <2>2, <2>3, <2>4 DEF Linked, Tracked
<1>5. CASE i = n + 1
  <2>1. op.tracked /\ batch'[i] = op
    BY Zenon, <1>1, <1>3, <1>5
  <2>2. \A j \in DOMAIN batch : batch[j].path = op.path => batch[j].tracked
    BY <1>1, <1>3, <1>5
  <2>3. \A j \in DOMAIN batch' : j < i => j \in DOMAIN batch /\ batch'[j] = batch[j]
    BY <1>1, <1>5
  <2>4. op.prev \in Previous(op.path)
    BY Zenon, <2>1 DEF Appended
  <2>5. CASE op.path \in DOMAIN pending
    <3>1. PICK j \in DOMAIN batch :
             /\ batch[j].path = op.path /\ batch[j].tracked /\ batch[j].val = pending[op.path]
             /\ \A k \in DOMAIN batch : batch[k].path = op.path /\ batch[k].tracked => k <= j
      BY Zenon, <1>2, <2>5 DEF Chain
    <3>2. op.prev = batch[j].val
      BY Zenon, <2>4, <2>5, <3>1 DEF Previous
    <3>3. j \in DOMAIN batch' /\ j < i /\ batch'[j] = batch[j]
      BY <1>1, <1>5
    <3>4. Prior(batch', j, i)
      BY Zenon, <2>1, <2>2, <2>3, <3>1, <3>3 DEF Prior
    <3>5. QED
      BY Zenon, <2>1, <3>2, <3>3, <3>4
  <2>6. CASE op.path \notin DOMAIN pending
    <3>1. \A j \in DOMAIN batch : batch[j].path # op.path
      BY Zenon, <1>2, <2>2, <2>6 DEF Chain
    <3>2. First(batch', i)
      BY Zenon, <2>1, <2>3, <3>1 DEF First
    <3>3. QED
      BY Zenon, <2>1, <2>4, <2>6, <3>2 DEF Previous
  <2>7. QED
    BY Zenon, <2>5, <2>6
<1>6. QED
  BY <1>1, <1>4, <1>5

(* An op stamped with its time of reception is younger than all before it.     *)
LEMMA AppendedStamps ==
  ASSUME Types, Stamps, NEW op, Appended(op),
         UNCHANGED <<kind, rows>>, faults \subseteq faults', "late" \in faults' \/ op.ts = Now,
         count' = count + 1, split' = <<>>
  PROVE  Stamps'
<1> DEFINE n == Len(batch)
<1>1. /\ n \in Nat /\ DOMAIN batch = 1..n /\ DOMAIN batch' = 1..(n + 1)
      /\ \A i \in 1..n : batch'[i] = batch[i]
      /\ batch'[n + 1] = op
  BY Zenon, AppendOps DEF Appended, Types
<1> HIDE DEF n
<1>2. SUFFICES ASSUME kind = "stream", "late" \notin faults'
               PROVE  /\ \A p \in Paths : \A x, y \in rows[p] : x.ts < count' /\ (x.ts = y.ts => x = y)
                      /\ Fresh(batch)' /\ Fresh(split)'
  BY Zenon DEF Stamps
<1>3. "late" \notin faults /\ op.ts = count /\ count \in Nat
  BY Zenon, <1>2 DEF Types, Now
<1>4. \A p \in Paths : \A x, y \in rows[p] : x.ts \in Nat /\ x.ts < count /\ (x.ts = y.ts => x = y)
  BY <1>2, <1>3 DEF Stamps, Types, Samples
<1>5. Fresh(batch) /\ \A i \in DOMAIN batch : batch[i].ts \in Nat
  BY <1>2, <1>3, SeqOps, ZenonT(30) DEF Stamps, Types, Ops
<1>6. Fresh(batch)'
  <2> SUFFICES ASSUME NEW i \in 1..(n + 1)
               PROVE  /\ batch'[i].ts < count + 1
                      /\ \A p \in Paths : \A x \in rows[p] : x.ts # batch'[i].ts
                      /\ \A j \in 1..(n + 1) : i < j => batch'[i].ts < batch'[j].ts
    BY Zenon, <1>1 DEF Fresh
  <2>1. CASE i = n + 1
    BY <1>1, <1>3, <1>4, <2>1
  <2>2. CASE i # n + 1
    <3>1. i \in 1..n /\ i \in DOMAIN batch /\ batch'[i] = batch[i]
      BY <1>1, <2>2
    <3>2. batch[i].ts < count /\ \A p \in Paths : \A x \in rows[p] : x.ts # batch[i].ts
      BY Zenon, <1>5, <3>1 DEF Fresh
    <3>3. \A j \in 1..(n + 1) : i < j => batch'[i].ts < batch'[j].ts
      <4> SUFFICES ASSUME NEW j \in 1..(n + 1), i < j PROVE batch'[i].ts < batch'[j].ts
        OBVIOUS
      <4>1. CASE j = n + 1
        BY Zenon, <1>1, <1>3, <3>1, <3>2, <4>1
      <4>2. CASE j # n + 1
        <5>1. j \in 1..n
          BY <1>1, <4>2
        <5>2. QED
          BY Zenon, <1>1, <1>5, <3>1, <5>1 DEF Fresh
      <4>3. QED
        BY Zenon, <4>1, <4>2
    <3>4. QED
      BY <1>3, <1>5, <3>1, <3>2, <3>3
  <2>3. QED
    BY Zenon, <2>1, <2>2
<1>7. Fresh(split)'
  BY DEF Fresh
<1>8. QED
  BY <1>3, <1>4, <1>6, <1>7

(* And younger than what is stored.                                            *)
LEMMA AppendedYounger ==
  ASSUME Types, Stamps, Chain, Younger, NEW op, Appended(op),
         UNCHANGED <<kind, rows>>, faults \subseteq faults', "late" \in faults' \/ op.ts = Now
  PROVE  Younger'
<1> DEFINE n == Len(batch)
<1>1. /\ n \in Nat /\ DOMAIN batch = 1..n /\ DOMAIN batch' = 1..(n + 1)
      /\ \A i \in 1..n : batch'[i] = batch[i]
      /\ batch'[n + 1] = op
  BY Zenon, AppendOps DEF Appended, Types
<1>2. op.path \in Paths
  BY Zenon DEF Appended, Ops
<1> HIDE DEF n
<1>3. SUFFICES ASSUME kind = "stream", "late" \notin faults', NEW i \in 1..(n + 1),
                      \A j \in 1..i : batch'[j].path = batch'[i].path => batch'[j].tracked,
                      told'[batch'[i].path] # "racing"
               PROVE  \A x \in rows[batch'[i].path] : x.ts < batch'[i].ts
  BY Zenon, <1>1 DEF Younger, Tracked, Current
<1>4. "late" \notin faults /\ op.ts = count
  BY Zenon, <1>3 DEF Now
<1>5. CASE i = n + 1
  BY Zenon, <1>1, <1>2, <1>3, <1>4, <1>5 DEF Stamps
<1>6. CASE i <= n
  <2>1. i \in DOMAIN batch /\ batch'[i] = batch[i] /\ i \in 1..i
    BY <1>1, <1>6
  <2>2. \A j \in 1..i : batch[j].path = batch[i].path => batch[j].tracked
    BY <1>1, <1>3, <1>6
  <2>3. batch[i].tracked /\ batch[i].path \in Paths
    <3>1. batch[i] \in Ops
      BY Zenon, <2>1, SeqOps DEF Types
    <3>2. QED
      BY Zenon, <2>1, <2>2, <3>1 DEF Ops
  <2>4. Current(i)
    BY Zenon, <1>3, <2>1, <2>3, AppendedCurrent
  <2>5. QED
    BY Zenon, <1>3, <1>4, <2>1, <2>2, <2>4 DEF Younger, Tracked
<1>7. QED
  BY <1>1, <1>5, <1>6

(* processData, with its late and its unlucky variants.                        *)
LEMMA AcceptKeeps ==
  ASSUME IInv, NEW p \in Paths, NEW v \in Vals, Accept(p, v)
  PROVE  IInv'
<1>1. Types /\ OneAtATime /\ Stamps /\ Chain /\ Linked /\ Younger /\ (faults = {} => Follows)
  BY DEF IInv
<1>2. /\ split = <<>> /\ firing = <<>> /\ count' = count + 1
      /\ UNCHANGED <<kind, rows, split, firing, watched, view, surprised>>
  BY DEF Accept
<1>3. \E t \in Nat : /\ Track(p, v, t)
                     /\ faults \subseteq faults' /\ ("late" \in faults' \/ t = Now)
                     /\ faults' = {} => faults = {}
  <2>1. count \in Nat /\ Now \in Nat
    BY <1>1 DEF Types, Now
  <2>2. CASE UNCHANGED faults /\ Track(p, v, Now)
    BY Zenon, <2>1, <2>2
  <2>3. CASE Fault("lookup") /\ Track(p, v, Now)
    BY Zenon, <2>1, <2>3 DEF Fault
  <2>4. CASE Fault("late") /\ \E t \in 0..count - 1 : Track(p, v, t)
    <3>1. PICK t \in 0..count - 1 : Track(p, v, t)
      BY Zenon, <2>4
    <3>2. t \in Nat
      BY <2>1
    <3>3. QED
      BY Zenon, <2>4, <3>1, <3>2 DEF Fault
  <2>5. QED
    BY Zenon, <2>2, <2>3, <2>4 DEF Accept
<1>4. PICK t \in Nat : /\ Track(p, v, t)
                       /\ faults \subseteq faults' /\ ("late" \in faults' \/ t = Now)
                       /\ faults' = {} => faults = {}
  BY Zenon, <1>3
<1>5. PICK op : /\ Appended(op) /\ op.path = p /\ op.ts = t
                /\ ~op.tracked => p \notin watched \/ "lookup" \in faults'
  BY <1>1, <1>4, TrackAppends
<1>6. Chain' /\ pending' \in [DOMAIN pending' -> Vals]
  BY Zenon, <1>1, <1>5, AppendedChain
<1>7. Linked'
  BY Zenon, <1>1, <1>2, <1>5, AppendedLinked
<1>8. Stamps' /\ Younger'
  BY Zenon, <1>1, <1>2, <1>4, <1>5, AppendedStamps, AppendedYounger
<1>a. told' = told \/ told' = LookedUp(p)
  BY Zenon, <1>5 DEF Appended
<1>9. Types'
  <2>3. told' \in [Paths -> {"yes", "no", "racing"}]
    BY Zenon, <1>1, <1>a DEF LookedUp, Types
  <2>1. batch' \in Seq(Ops)
    BY Zenon, <1>1, <1>5, AppendOps DEF Appended, Types
  <2>2. count' \in Nat
    BY <1>1, <1>2 DEF Types
  <2>4. QED
    BY Zenon, <1>1, <1>2, <1>6, <2>1, <2>2, <2>3 DEF Types
<1>10. OneAtATime'
  BY Zenon, <1>2 DEF OneAtATime
<1>11. ASSUME faults' = {} PROVE Follows'
  <2>1. Follows /\ op.tracked
    BY Zenon, <1>1, <1>4, <1>5, <1>11 DEF Follows
  <2>2. \A i \in DOMAIN batch' : batch'[i].tracked
    <3>1. /\ DOMAIN batch = 1..Len(batch) /\ DOMAIN batch' = 1..(Len(batch) + 1) /\ Len(batch) \in Nat
          /\ \A i \in 1..Len(batch) : batch'[i] = batch[i]
          /\ batch'[Len(batch) + 1] = op
      BY Zenon, <1>1, <1>5, AppendOps DEF Appended, Types
    <3>2. \A i \in DOMAIN batch' : i \in DOMAIN batch \/ i = Len(batch) + 1
      BY <3>1
    <3>3. QED
      BY Zenon, <2>1, <3>1, <3>2 DEF Follows
  <2>3. \A q \in Paths : told'[q] = "yes" => told[q] = "yes"
    BY Zenon, <1>1, <1>a DEF LookedUp, Types
  <2>4. QED
    BY Zenon, <1>1, <1>2, <2>1, <2>2, <2>3, StillFollows
<1>12. QED
  BY <1>6, <1>7, <1>8, <1>9, <1>10, <1>11 DEF IInv

(* flush of a batch the database takes: the ops link what the subscriber knows *)
(* with what is stored now.                                                    *)
LEMMA FlushFollows ==
  ASSUME Types, Stamps, Linked, Younger, Follows, faults = {}, Flush
  PROVE  Follows'
<1>1. /\ firing = <<>> /\ firing' = batch /\ rows' = Commit(rows, batch) /\ batch' = <<>>
      /\ UNCHANGED <<kind, split, watched, count, view, told, surprised, faults>>
  BY DEF Flush, ForgetBatch
<1>2. /\ batch \in Seq(Ops) /\ DOMAIN batch \subseteq Nat /\ DOMAIN batch = 1..Len(batch)
      /\ \A i \in DOMAIN batch : batch[i].path \in Paths /\ batch[i].tracked
  BY SeqOps, ZenonT(30) DEF Types, Ops, Follows
<1>3. \A p \in Paths : told[p] = "yes" => view[p] \in Newest(rows, p)
  <2>1. DOMAIN firing = {}
    BY <1>1
  <2>2. QED
    BY Zenon, <2>1 DEF Follows
<1>a. \A i \in DOMAIN batch : Tracked(i)
  <2>1. \A i \in DOMAIN batch : \A j \in 1..i : j \in DOMAIN batch
    BY <1>2
  <2>2. QED
    BY Zenon, <1>2, <2>1 DEF Tracked
<1>4. ASSUME NEW i \in DOMAIN batch
      PROVE  \/ \E j \in DOMAIN batch : Prior(batch, j, i) /\ batch[i].prev = batch[j].val
             \/ First(batch, i) /\ (Current(i) => batch[i].prev \in Newest(rows, batch[i].path))
  BY Zenon, <1>a DEF Linked
<1>5. ASSUME NEW i \in DOMAIN batch, NEW j \in DOMAIN batch, Prior(batch, j, i)
      PROVE  batch[i].prev = batch[j].val
  <2>1. ~First(batch, i)
    BY Zenon, <1>5 DEF First, Prior
  <2>2. PICK k \in DOMAIN batch : Prior(batch, k, i) /\ batch[i].prev = batch[k].val
    BY Zenon, <1>4, <2>1
  <2>3. k <= j /\ j <= k /\ k \in Nat /\ j \in Nat
    BY Zenon, <1>2, <1>5, <2>2 DEF Prior
  <2>4. k = j
    BY <2>3
  <2>5. QED
    BY Zenon, <2>2, <2>4
<1>6. ASSUME NEW i \in DOMAIN batch, First(batch, i), told[batch[i].path] = "yes"
      PROVE  batch[i].prev = view[batch[i].path]
  <2>1. batch[i].prev \in Newest(rows, batch[i].path)
    <3>1. Current(i)
      BY Zenon, <1>6 DEF Current
    <3>2. QED
      BY Zenon, <1>4, <1>6, <3>1 DEF First, Prior
  <2>2. view[batch[i].path] \in Newest(rows, batch[i].path) /\ batch[i].path \in Paths
    BY Zenon, <1>2, <1>3, <1>6
  <2>3. "late" \notin faults
    OBVIOUS
  <2>4. QED
    BY Zenon, <2>1, <2>2, <2>3, NewestIsOne
<1>7. ASSUME NEW i \in DOMAIN batch, IsLast(batch, i), told[batch[i].path] # "racing"
      PROVE  batch[i].val \in Newest(rows', batch[i].path)
  <2>1. kind = "stream" => /\ \A x \in rows[batch[i].path] : x.ts < batch[i].ts
                           /\ \A k, j \in DOMAIN batch : k < j => batch[k].ts < batch[j].ts
    BY Zenon, <1>2, <1>7, <1>a DEF Stamps, Fresh, Younger, Current
  <2>2. Newest(Commit(rows, batch), batch[i].path) = {batch[i].val}
    BY <1>2, <1>7, <2>1, NewestIsLast, ZenonT(30)
  <2>3. QED
    BY Zenon, <1>1, <2>2
<1>8. ASSUME NEW p \in Paths, told[p] = "yes", \A i \in DOMAIN batch : batch[i].path # p
      PROVE  view[p] \in Newest(rows', p)
  <2>1. rows'[p] = rows[p]
    BY Zenon, <1>1, <1>8, CommitElsewhere
  <2>2. Newest(rows', p) = Newest(rows, p)
    BY Zenon, <2>1 DEF Newest, Top
  <2>3. QED
    BY Zenon, <1>3, <1>8, <2>2
<1>9. \A i \in DOMAIN firing' : Continues(i)'
  BY Zenon, <1>1, <1>2, <1>5, <1>6, <1>7 DEF Continues
<1>10. DOMAIN batch' = {}
  BY <1>1
<1>11. QED
  BY Zenon, <1>1, <1>8, <1>9, <1>10 DEF Follows

LEMMA FlushKeeps ==
  ASSUME IInv, Flush
  PROVE  IInv'
<1>1. Types /\ OneAtATime /\ Stamps /\ Chain /\ Linked /\ Younger /\ (faults = {} => Follows)
  BY Zenon DEF IInv
<1>2. /\ split = <<>> /\ firing' = batch /\ rows' = Commit(rows, batch) /\ batch' = <<>> /\ pending' = <<>>
      /\ UNCHANGED <<kind, split, watched, count, view, told, surprised, faults>>
  BY Zenon DEF Flush, ForgetBatch
<1>3. OneAtATime' /\ Chain' /\ Linked' /\ Younger' /\ Fresh(batch)'
  BY Zenon, <1>2, NothingWaits
<1>4. Types'
  <2>1. rows' \in [Paths -> SUBSET Samples]
    BY Zenon, <1>1, <1>2, CommitIsTable DEF Types
  <2>2. batch' \in Seq(Ops) /\ pending' \in [DOMAIN pending' -> Vals]
    BY <1>2
  <2>3. QED
    BY Zenon, <1>1, <1>2, <2>1, <2>2 DEF Types
<1>5. Stamps'
  <2>1. ASSUME kind = "prop" PROVE \A p \in Paths : \A x, y \in rows'[p] : x = y
    BY Zenon, <1>1, <1>2, <2>1, CommitOneRow DEF Types, Stamps
  <2>2. ASSUME kind = "stream", "late" \notin faults
        PROVE  \A p \in Paths : \A x, y \in rows'[p] : x.ts < count /\ (x.ts = y.ts => x = y)
    BY <1>1, <1>2, <2>2, CommitStamps DEF Types, Stamps
  <2>3. Fresh(split)'
    BY <1>2 DEF Fresh
  <2>4. QED
    BY Zenon, <1>2, <1>3, <2>1, <2>2, <2>3 DEF Stamps
<1>6. faults' = {} => Follows'
  BY Zenon, <1>1, <1>2, FlushFollows
<1>7. QED
  BY Zenon, <1>3, <1>4, <1>5, <1>6 DEF IInv

(* fireDataChanges: the events of an op that starts where a trusted view is    *)
(* contradict nothing, and a view trusted after them is the value of the op.   *)
LEMMA EventsAreBelieved ==
  ASSUME Types, ~surprised, NEW op \in Ops, op.tracked,
         told[op.path] = "yes" => op.prev = view[op.path], Believes(op)
  PROVE  /\ ~surprised'
         /\ \A p \in Paths : p # op.path => view'[p] = view[p] /\ told'[p] = told[p]
         /\ told'[op.path] = "yes" => view'[op.path] = op.val
         /\ told'[op.path] # "racing" => told[op.path] # "racing"
<1>1. op.path \in Paths /\ view \in [Paths -> Vals] /\ told \in [Paths -> {"yes", "no", "racing"}]
  BY Zenon DEF Ops, Types
<1>2. ASSUME told[op.path] = "yes", NEW e \in FireDataChanges(op) PROVE Fits(e)
  <2>1. \/ e = Event("value_change", op)
        \/ e = Event("path_created", op) /\ op.prev = NoValue
        \/ e = Event("path_removed", op) /\ op.prev # NoValue
    BY Zenon, <1>2 DEF FireDataChanges
  <2>2. CASE e = Event("value_change", op)
    <3>1. e.on = "value_change" /\ e.old = op.prev /\ e.path = op.path
      BY Zenon, <2>2 DEF Event
    <3>2. QED
      BY Zenon, <1>2, <3>1 DEF Fits
  <2>3. CASE e = Event("path_created", op) /\ op.prev = NoValue
    <3>1. e.on = "path_created" /\ e.path = op.path
      BY Zenon, <2>3 DEF Event
    <3>2. QED
      BY <1>2, <2>3, <3>1, ZenonT(30) DEF Fits
  <2>4. CASE e = Event("path_removed", op) /\ op.prev # NoValue
    <3>1. e.on = "path_removed" /\ e.path = op.path
      BY Zenon, <2>4 DEF Event
    <3>2. QED
      BY <1>2, <2>4, <3>1, ZenonT(30) DEF Fits
  <2>5. QED
    BY Zenon, <2>1, <2>2, <2>3, <2>4
<1>3. ~surprised'
  BY Zenon, <1>2 DEF Believes
<1>4. \A p \in Paths : p # op.path => view'[p] = view[p] /\ told'[p] = told[p]
  BY Zenon, <1>1 DEF Believes
<1>5. told'[op.path] # "racing" => told[op.path] # "racing"
  BY Zenon, <1>1 DEF Believes
<1>6. ASSUME told'[op.path] = "yes" PROVE view'[op.path] = op.val
  <2>1. CASE FireDataChanges(op) = {}
    <3>1. op.val = op.prev
      BY Zenon, <2>1 DEF FireDataChanges
    <3>2. view' = view /\ told' = told
      BY Zenon, <2>1 DEF Believes
    <3>3. QED
      BY Zenon, <1>6, <3>1, <3>2
  <2>2. CASE FireDataChanges(op) # {}
    BY Zenon, <1>1, <2>2 DEF Believes
  <2>3. QED
    BY Zenon, <2>1, <2>2
<1>7. QED
  BY Zenon, <1>3, <1>4, <1>5, <1>6

LEMMA TailOps ==
  ASSUME NEW ops \in Seq(Ops), ops # <<>>
  PROVE  /\ Head(ops) = ops[1] /\ 1 \in DOMAIN ops /\ Head(ops) \in Ops /\ Tail(ops) \in Seq(Ops)
         /\ DOMAIN Tail(ops) \subseteq Nat
         /\ \A i \in DOMAIN Tail(ops) : i + 1 \in DOMAIN ops /\ Tail(ops)[i] = ops[i + 1]
         /\ \A i \in DOMAIN ops : i # 1 => i - 1 \in DOMAIN Tail(ops) /\ Tail(ops)[i - 1] = ops[i]
  OBVIOUS

(* Ops stay fresh as long as samples are only taken away.                      *)
LEMMA FreshStays ==
  ASSUME NEW ops, Fresh(ops), count' = count, \A p \in Paths : rows'[p] \subseteq rows[p]
  PROVE  \A i \in DOMAIN ops :
           /\ ops[i].ts < count'
           /\ \A p \in Paths : \A x \in rows'[p] : x.ts # ops[i].ts
           /\ \A j \in DOMAIN ops : i < j => ops[i].ts < ops[j].ts
<1>1. \A i \in DOMAIN ops : ops[i].ts < count'
  BY Zenon DEF Fresh
<1>2. \A i \in DOMAIN ops : \A p \in Paths : \A x \in rows'[p] : x.ts # ops[i].ts
  <2> SUFFICES ASSUME NEW i \in DOMAIN ops, NEW p \in Paths, NEW x \in rows'[p] PROVE x.ts # ops[i].ts
    OBVIOUS
  <2>1. x \in rows[p]
    BY Zenon
  <2>2. QED
    BY Zenon, <2>1 DEF Fresh
<1>3. QED
  BY Zenon, <1>1, <1>2 DEF Fresh

LEMMA StampsStay ==
  ASSUME Stamps, UNCHANGED <<kind, batch, split, count>>, \A p \in Paths : rows'[p] \subseteq rows[p],
         faults \subseteq faults'
  PROVE  Stamps'
<1>1. ASSUME kind' = "prop" PROVE \A p \in Paths : \A x, y \in rows'[p] : x = y
  BY Zenon, <1>1 DEF Stamps
<1>2. ASSUME kind' = "stream", "late" \notin faults'
      PROVE  /\ \A p \in Paths : \A x, y \in rows'[p] : x.ts < count' /\ (x.ts = y.ts => x = y)
             /\ Fresh(batch)' /\ Fresh(split)'
  <2>1. Fresh(batch) /\ Fresh(split)
        /\ \A p \in Paths : \A x, y \in rows[p] : x.ts < count /\ (x.ts = y.ts => x = y)
    BY Zenon, <1>2 DEF Stamps
  <2>2. \A p \in Paths : \A x, y \in rows'[p] : x.ts < count' /\ (x.ts = y.ts => x = y)
    BY Zenon, <2>1
  <2>3. Fresh(batch)'
    BY Zenon, <2>1, FreshStays DEF Fresh
  <2>4. Fresh(split)'
    BY Zenon, <2>1, FreshStays DEF Fresh
  <2>5. QED
    BY Zenon, <2>2, <2>3, <2>4
<1>3. QED
  BY Zenon, <1>1, <1>2 DEF Stamps

(* What is waiting and what is stored has not changed.                         *)
LEMMA OthersKeep ==
  ASSUME Stamps, Chain, Linked, Younger, UNCHANGED <<kind, rows, batch, pending, split, count, told>>,
         faults \subseteq faults'
  PROVE  Stamps' /\ Chain' /\ Linked' /\ Younger'
<1>1. Stamps'
  BY Zenon, StampsStay
<1>2. Chain'
  BY Zenon DEF Chain
<1>3. Linked'
  <2>1. \A p : Newest(rows', p) = Newest(rows, p)
    BY Zenon DEF Newest, Top
  <2>2. QED
    BY Zenon, <2>1 DEF Linked, Prior, First, Tracked, Current
<1>4. Younger'
  BY Zenon DEF Younger, Tracked, Current
<1>5. QED
  BY Zenon, <1>1, <1>2, <1>3, <1>4

(* fireCommitted, one op: the view moves on by that op.                        *)
LEMMA FireFollows ==
  ASSUME Types, Follows, FireCommitted
  PROVE  Follows'
<1> DEFINE op == firing[1]
<1>1. /\ firing # <<>> /\ Believes(Head(firing)) /\ firing' = Tail(firing)
      /\ UNCHANGED <<rows, batch, split, watched>>
  BY Zenon DEF FireCommitted
<1>2. /\ Head(firing) = op /\ 1 \in DOMAIN firing /\ op \in Ops /\ DOMAIN firing \subseteq Nat
      /\ DOMAIN firing' \subseteq Nat
      /\ \A i \in DOMAIN firing' : i + 1 \in DOMAIN firing /\ firing'[i] = firing[i + 1]
      /\ \A i \in DOMAIN firing : i # 1 => i - 1 \in DOMAIN firing' /\ firing'[i - 1] = firing[i]
  BY Zenon, <1>1, TailOps, SeqOps DEF Types
<1>3. \A i \in DOMAIN firing : firing[i].path \in Paths /\ i >= 1
  <2>1. Len(firing) \in Nat /\ DOMAIN firing = 1..Len(firing) /\ \A i \in DOMAIN firing : firing[i] \in Ops
    BY Zenon, SeqOps DEF Types
  <2>2. \A i \in DOMAIN firing : i >= 1
    BY <2>1
  <2>3. QED
    BY Zenon, <2>1, <2>2 DEF Ops
<1> HIDE DEF op
<1>4. /\ op.tracked /\ op.path \in Paths
      /\ told[op.path] = "yes" => op.prev = view[op.path]
      /\ IsLast(firing, 1) /\ told[op.path] # "racing" => op.val \in Newest(rows, op.path)
  <2>1. First(firing, 1) /\ Continues(1)
    BY <1>2, <1>3 DEF First, Follows
  <2>2. QED
    BY Zenon, <1>2, <1>3, <2>1 DEF Continues, op
<1>5. ~surprised
  BY Zenon DEF Follows
<1>6. /\ ~surprised'
      /\ \A p \in Paths : p # op.path => view'[p] = view[p] /\ told'[p] = told[p]
      /\ told'[op.path] = "yes" => view'[op.path] = op.val
      /\ told'[op.path] # "racing" => told[op.path] # "racing"
  BY Zenon, <1>1, <1>2, <1>4, <1>5, EventsAreBelieved
<1>7. ASSUME NEW i \in DOMAIN firing' PROVE Continues(i)'
  <2>1. i \in Nat /\ i + 1 \in DOMAIN firing /\ firing'[i] = firing[i + 1] /\ Continues(i + 1)
    BY Zenon, <1>2 DEF Follows
  <2>2. ASSUME NEW j \in DOMAIN firing', Prior(firing', j, i)
        PROVE  firing'[i].prev = firing'[j].val
    <3>1. j \in Nat /\ j + 1 \in DOMAIN firing /\ firing'[j] = firing[j + 1] /\ j + 1 < i + 1
      BY <1>2, <2>1, <2>2 DEF Prior
    <3>2. ASSUME NEW k \in DOMAIN firing, k < i + 1, firing[k].path = firing[i + 1].path
          PROVE  k <= j + 1
      <4>1. CASE k = 1
        BY <3>1, <4>1
      <4>2. CASE k # 1
        <5>1. k \in Nat /\ k - 1 \in DOMAIN firing' /\ firing'[k - 1] = firing[k]
          BY Zenon, <1>2, <4>2
        <5>2. k - 1 < i
          BY <2>1, <3>2, <5>1
        <5>3. k - 1 <= j
          BY Zenon, <2>1, <2>2, <3>2, <5>1, <5>2 DEF Prior
        <5>4. QED
          BY <3>1, <5>1, <5>3
      <4>3. QED
        BY Zenon, <4>1, <4>2
    <3>3. Prior(firing, j + 1, i + 1)
      BY Zenon, <2>1, <2>2, <3>1, <3>2 DEF Prior
    <3>4. QED
      BY Zenon, <2>1, <3>1, <3>3 DEF Continues
  <2>3. ASSUME First(firing', i), told'[firing'[i].path] = "yes"
        PROVE  firing'[i].prev = view'[firing'[i].path]
    <3>1. ASSUME NEW k \in DOMAIN firing, k < i + 1, k # 1 PROVE firing[k].path # firing[i + 1].path
      <4>1. k \in Nat /\ k - 1 \in DOMAIN firing' /\ firing'[k - 1] = firing[k]
        BY Zenon, <1>2, <3>1
      <4>2. k - 1 < i
        BY <2>1, <3>1, <4>1
      <4>3. QED
        BY Zenon, <2>1, <2>3, <4>1, <4>2 DEF First
    <3>2. CASE op.path = firing[i + 1].path
      <4>1. 1 < i + 1
        <5>1. firing' \in Seq(Ops)
          BY Zenon, <1>1, TailOps DEF Types
        <5>2. DOMAIN firing' = 1..Len(firing') /\ Len(firing') \in Nat
          BY Zenon, <5>1, SeqOps
        <5>3. QED
          BY <1>7, <5>2
      <4>2. Prior(firing, 1, i + 1)
        BY <1>2, <3>1, <3>2, <4>1 DEF Prior, op
      <4>3. firing[i + 1].prev = op.val
        BY Zenon, <1>2, <2>1, <4>2 DEF Continues, op
      <4>4. QED
        BY Zenon, <1>6, <2>1, <2>3, <3>2, <4>3
    <3>3. CASE op.path # firing[i + 1].path
      <4>1. First(firing, i + 1)
        BY Zenon, <1>2, <3>1, <3>3 DEF First, op
      <4>2. QED
        BY Zenon, <1>3, <1>6, <2>1, <2>3, <3>3, <4>1 DEF Continues
    <3>4. QED
      BY Zenon, <3>2, <3>3
  <2>4. ASSUME IsLast(firing', i), told'[firing'[i].path] # "racing"
        PROVE  firing'[i].val \in Newest(rows, firing'[i].path)
    <3>1. ASSUME NEW k \in DOMAIN firing, firing[k].path = firing[i + 1].path PROVE k <= i + 1
      <4>1. CASE k = 1
        BY <2>1, <4>1
      <4>2. CASE k # 1
        <5>1. k \in Nat /\ k - 1 \in DOMAIN firing' /\ firing'[k - 1] = firing[k]
          BY Zenon, <1>2, <4>2
        <5>2. k - 1 <= i
          BY Zenon, <2>1, <2>4, <3>1, <5>1 DEF IsLast
        <5>3. QED
          BY <2>1, <5>1, <5>2
      <4>3. QED
        BY Zenon, <4>1, <4>2
    <3>2. IsLast(firing, i + 1)
      BY Zenon, <3>1 DEF IsLast
    <3>3. told[firing[i + 1].path] # "racing"
      BY Zenon, <1>3, <1>6, <2>1, <2>4
    <3>4. QED
      BY Zenon, <2>1, <3>2, <3>3 DEF Continues
  <2>5. QED
    BY Zenon, <1>1, <2>1, <2>2, <2>3, <2>4 DEF Continues
<1>8. ASSUME NEW p \in Paths, told'[p] = "yes", \A i \in DOMAIN firing' : firing'[i].path # p
      PROVE  view'[p] \in Newest(rows, p)
  <2>1. ASSUME NEW k \in DOMAIN firing, k # 1 PROVE firing[k].path # p
    BY Zenon, <1>2, <1>8, <2>1
  <2>2. CASE p = op.path
    <3>1. IsLast(firing, 1)
      BY <1>2, <2>1, <2>2 DEF IsLast, op
    <3>2. QED
      BY Zenon, <1>4, <1>6, <1>8, <2>2, <3>1
  <2>3. CASE p # op.path
    <3>1. \A i \in DOMAIN firing : firing[i].path # p
      BY Zenon, <2>1, <2>3 DEF op
    <3>2. QED
      BY Zenon, <1>6, <1>8, <2>3, <3>1 DEF Follows
  <2>4. QED
    BY Zenon, <2>2, <2>3
<1>9. QED
  BY Zenon, <1>1, <1>6, <1>7, <1>8 DEF Follows

LEMMA FireKeeps ==
  ASSUME IInv, FireCommitted
  PROVE  IInv'
<1>1. Types /\ OneAtATime /\ Stamps /\ Chain /\ Linked /\ Younger /\ (faults = {} => Follows)
  BY DEF IInv
<1>2. /\ firing # <<>> /\ Believes(Head(firing)) /\ firing' = Tail(firing)
      /\ UNCHANGED <<kind, rows, batch, pending, split, watched, count, faults>>
  BY Zenon DEF FireCommitted
<1>3. Head(firing) \in Ops /\ Tail(firing) \in Seq(Ops)
  BY Zenon, <1>1, <1>2, TailOps DEF Types
<1>4. Types'
  <2>1. view' \in [Paths -> Vals]
    BY Zenon, <1>1, <1>2, <1>3 DEF Believes, Types, Ops
  <2>2. surprised' \in BOOLEAN
    BY Zenon, <1>2 DEF Believes
  <2>3. told' \in [Paths -> {"yes", "no", "racing"}]
    BY Zenon, <1>1, <1>2, <1>3 DEF Believes, Types, Ops
  <2>4. QED
    BY Zenon, <1>1, <1>2, <1>3, <2>1, <2>2, <2>3 DEF Types
<1>5. OneAtATime' /\ Chain' /\ Linked' /\ Younger'
  BY Zenon, <1>1, <1>2, NothingWaits DEF OneAtATime
<1>6. Stamps'
  BY Zenon, <1>1, <1>2, StampsStay
<1>7. faults' = {} => Follows'
  BY Zenon, <1>1, <1>2, FireFollows
<1>8. QED
  BY Zenon, <1>4, <1>5, <1>6, <1>7 DEF IInv

(* flushOps on a batch the database refuses.                                   *)
LEMMA SplitKeeps ==
  ASSUME IInv, Split
  PROVE  IInv'
<1>1. Types /\ Stamps
  BY Zenon DEF IInv
<1>2. /\ firing = <<>> /\ batch' = <<>> /\ pending' = <<>> /\ (split' = <<>> \/ split' = batch)
      /\ Unfinished /\ UNCHANGED <<kind, firing, watched, count, view, told, surprised>>
      /\ faults \subseteq faults' /\ faults' # {}
  BY Zenon DEF Split, ForgetBatch, Fault
<1>3. OneAtATime' /\ Chain' /\ Linked' /\ Younger' /\ Fresh(batch)'
  BY Zenon, <1>2, NothingWaits
<1>4. /\ rows' \in [Paths -> SUBSET Samples]
      /\ kind = "stream" => rows' = rows
      /\ kind = "prop" => \A p \in Paths : \A x, y \in rows'[p] : x = y
  BY Zenon, <1>1, <1>2, UnfinishedIsTable
<1>5. Types'
  <2>1. batch' \in Seq(Ops) /\ split' \in Seq(Ops) /\ pending' \in [DOMAIN pending' -> Vals]
    <3>1. batch \in Seq(Ops) /\ <<>> \in Seq(Ops) /\ <<>> \in [DOMAIN <<>> -> Vals]
      BY <1>1 DEF Types
    <3>2. QED
      BY <1>2, <3>1, ZenonT(30)
  <2>2. QED
    BY Zenon, <1>1, <1>2, <1>4, <2>1 DEF Types
<1>6. Stamps'
  <2>1. ASSUME kind = "stream", "late" \notin faults
        PROVE  Fresh(split)' /\ \A p \in Paths : \A x, y \in rows'[p] : x.ts < count /\ (x.ts = y.ts => x = y)
    <3>1. Fresh(batch) /\ rows' = rows /\ count' = count
      BY Zenon, <1>1, <1>2, <1>4, <2>1 DEF Stamps
    <3>2. CASE split' = <<>>
      BY <1>1, <2>1, <3>1, <3>2 DEF Stamps, Fresh
    <3>3. CASE split' = batch
      <4>1. \A p \in Paths : rows'[p] \subseteq rows[p]
        BY Zenon, <3>1
      <4>2. Fresh(split)'
        BY Zenon, <3>1, <3>3, <4>1, FreshStays DEF Fresh
      <4>3. QED
        BY Zenon, <1>1, <2>1, <3>1, <4>2 DEF Stamps
    <3>4. QED
      BY Zenon, <1>2, <3>2, <3>3
  <2>2. QED
    BY Zenon, <1>2, <1>3, <1>4, <2>1 DEF Stamps
<1>7. QED
  BY Zenon, <1>2, <1>3, <1>5, <1>6 DEF IInv

(* The ops left of a refused batch are younger than the one committed.         *)
LEMMA FlushOneStamps ==
  ASSUME Types, Stamps, split # <<>>, kind = "stream", "late" \notin faults,
         rows' = Commit(rows, <<Head(split)>>), split' = Tail(split), UNCHANGED count
  PROVE  Fresh(split)' /\ \A p \in Paths : \A x, y \in rows'[p] : x.ts < count /\ (x.ts = y.ts => x = y)
<1> DEFINE op == split[1]
<1>1. /\ Head(split) = op /\ 1 \in DOMAIN split /\ op \in Ops /\ DOMAIN split' \subseteq Nat
      /\ \A i \in DOMAIN split' : i + 1 \in DOMAIN split /\ split'[i] = split[i + 1]
  BY Zenon, TailOps DEF Types
<1>2. Fresh(split) /\ \A p \in Paths : \A x, y \in rows[p] : x.ts < count /\ (x.ts = y.ts => x = y)
  BY Zenon DEF Stamps
<1> DEFINE one == <<op>>
<1>3. one \in Seq(Ops) /\ DOMAIN one = {1} /\ one[1] = op
  BY <1>1
<1>4. op.ts < count /\ \A p \in Paths : \A x \in rows[p] : x.ts # op.ts
  BY Zenon, <1>1, <1>2 DEF Fresh
<1>5. rows' = Commit(rows, one)
  BY Zenon, <1>1
<1> HIDE DEF one, op
<1>6. Fresh(one)
  BY <1>3, <1>4 DEF Fresh
<1>7. \A p \in Paths : \A x, y \in rows'[p] : x.ts < count /\ (x.ts = y.ts => x = y)
  BY <1>2, <1>3, <1>5, <1>6, CommitStamps
<1>8. \A p \in Paths : \A x \in rows'[p] : x \in rows[p] \/ x.ts = op.ts
  BY <1>3, <1>5, RowIsSample, <1>1 DEF Commit
<1>9. \A i \in DOMAIN split' : op.ts # split[i + 1].ts
  <2> SUFFICES ASSUME NEW i \in DOMAIN split'
               PROVE  op.ts # split[i + 1].ts
    OBVIOUS
  <2>1. i \in 1..Len(split') /\ Len(split') \in Nat
    BY Zenon, TailOps, SeqOps DEF Types
  <2>2. 1 < i + 1
    BY <2>1
  <2>3. i + 1 \in DOMAIN split /\ split[i + 1] \in Ops
    BY Zenon, <1>1, SeqOps DEF Types
  <2>4. op.ts < split[i + 1].ts
    BY Zenon, <1>1, <1>2, <2>2, <2>3 DEF Fresh, op
  <2>5. op.ts \in Nat /\ split[i + 1].ts \in Nat
    BY Zenon, <1>1, <2>3 DEF Ops
  <2>6. QED
    BY <2>4, <2>5
<1>10. Fresh(split)'
  <2> SUFFICES ASSUME NEW i \in DOMAIN split'
               PROVE  /\ split'[i].ts < count
                      /\ \A p \in Paths : \A x \in rows'[p] : x.ts # split'[i].ts
                      /\ \A j \in DOMAIN split' : i < j => split'[i].ts < split'[j].ts
    BY Zenon DEF Fresh
  <2>1. split'[i] = split[i + 1] /\ i + 1 \in DOMAIN split /\ i \in Nat
    BY Zenon, <1>1
  <2>2. split'[i].ts < count /\ \A p \in Paths : \A x \in rows[p] : x.ts # split'[i].ts
    BY Zenon, <1>2, <2>1 DEF Fresh
  <2>3. \A p \in Paths : \A x \in rows'[p] : x.ts # split'[i].ts
    BY Zenon, <1>8, <1>9, <2>1, <2>2
  <2>4. ASSUME NEW j \in DOMAIN split', i < j PROVE split'[i].ts < split'[j].ts
    <3>1. split'[j] = split[j + 1] /\ j + 1 \in DOMAIN split /\ j \in Nat
      BY Zenon, <1>1
    <3>2. i + 1 < j + 1
      BY <2>1, <2>4, <3>1
    <3>3. QED
      BY Zenon, <1>2, <2>1, <3>1, <3>2 DEF Fresh
  <2>5. QED
    BY Zenon, <2>2, <2>3, <2>4
<1>11. QED
  BY Zenon, <1>7, <1>10

(* flushOps commits a refused batch op by op.                                  *)
LEMMA FlushOneKeeps ==
  ASSUME IInv, FlushOne
  PROVE  IInv'
<1>1. Types /\ Stamps /\ OneAtATime
  BY Zenon DEF IInv
<1>2. /\ split # <<>> /\ firing = <<>> /\ split' = Tail(split) /\ batch' = batch /\ pending' = pending
      /\ UNCHANGED <<kind, watched, count, view, told, surprised, faults>>
  BY Zenon DEF FlushOne
<1>3. faults' # {}
  BY Zenon, <1>2 DEF IInv, Follows
<1>4. batch' = <<>> /\ pending' = <<>>
  BY Zenon, <1>1, <1>2 DEF OneAtATime
<1>5. OneAtATime' /\ Chain' /\ Linked' /\ Younger' /\ Fresh(batch)'
  BY Zenon, <1>4, NothingWaits
<1>6. Head(split) \in Ops /\ split' \in Seq(Ops)
  BY Zenon, <1>1, <1>2, TailOps DEF Types
<1>7. \A op \in Ops : <<op>> \in Seq(Ops)
  OBVIOUS
<1> DEFINE one == <<Head(split)>>
<1>8. one \in Seq(Ops)
  BY Zenon, <1>6, <1>7
<1>9. CASE rows' = Commit(rows, one) /\ firing' = one
  <2> HIDE DEF one
  <2>1. Types'
    <3>1. rows' \in [Paths -> SUBSET Samples]
      BY Zenon, <1>1, <1>8, <1>9, CommitIsTable DEF Types
    <3>2. QED
      BY Zenon, <1>1, <1>2, <1>6, <1>8, <1>9, <3>1 DEF Types
  <2>2. ASSUME kind = "prop" PROVE \A p \in Paths : \A x, y \in rows'[p] : x = y
    BY Zenon, <1>1, <1>8, <1>9, <2>2, CommitOneRow DEF Stamps
  <2>3. ASSUME kind = "stream", "late" \notin faults
        PROVE  Fresh(split)' /\ \A p \in Paths : \A x, y \in rows'[p] : x.ts < count /\ (x.ts = y.ts => x = y)
    BY Zenon, <1>1, <1>2, <1>9, <2>3, FlushOneStamps DEF one
  <2>4. Stamps'
    BY Zenon, <1>2, <1>5, <2>2, <2>3 DEF Stamps
  <2>5. QED
    BY Zenon, <1>3, <1>5, <2>1, <2>4 DEF IInv
<1>10. CASE UNCHANGED <<rows, firing>>
  <2>1. Types'
    BY Zenon, <1>1, <1>2, <1>6, <1>10 DEF Types
  <2>2. ASSUME Fresh(split) PROVE Fresh(split)'
    <3>1. \A i \in DOMAIN split' : i \in Nat /\ i + 1 \in DOMAIN split /\ split'[i] = split[i + 1]
      BY Zenon, <1>1, <1>2, TailOps DEF Types
    <3>2. \A i, j \in DOMAIN split' : i < j => i + 1 < j + 1
      BY <3>1
    <3>3. QED
      BY <1>2, <1>10, <2>2, <3>1, <3>2, ZenonT(60) DEF Fresh
  <2>3. Stamps'
    BY Zenon, <1>1, <1>2, <1>5, <1>10, <2>2 DEF Stamps
  <2>4. QED
    BY <1>3, <1>5, <2>1, <2>3 DEF IInv
<1>11. QED
  BY Zenon, <1>9, <1>10 DEF FlushOne

(* The process dies with ops in hand.                                          *)
LEMMA CrashKeeps ==
  ASSUME IInv, Crash
  PROVE  IInv'
<1>1. Types /\ Stamps
  BY DEF IInv
<1>2. /\ batch' = <<>> /\ pending' = <<>> /\ split' = <<>> /\ firing' = <<>>
      /\ Unfinished /\ UNCHANGED <<kind, watched, count, view, told, surprised>>
      /\ faults \subseteq faults' /\ faults' # {}
  BY Zenon DEF Crash, ForgetBatch, Fault
<1>3. OneAtATime' /\ Chain' /\ Linked' /\ Younger' /\ Fresh(batch)'
  BY Zenon, <1>2, NothingWaits
<1>4. /\ rows' \in [Paths -> SUBSET Samples]
      /\ kind = "stream" => rows' = rows
      /\ kind = "prop" => \A p \in Paths : \A x, y \in rows'[p] : x = y
  BY Zenon, <1>1, <1>2, UnfinishedIsTable
<1>5. Types'
  <2>1. /\ batch' \in Seq(Ops) /\ split' \in Seq(Ops) /\ firing' \in Seq(Ops)
        /\ pending' \in [DOMAIN pending' -> Vals]
    BY <1>2
  <2>2. QED
    BY Zenon, <1>1, <1>2, <1>4, <2>1 DEF Types
<1>6. Stamps'
  <2>1. Fresh(split)'
    BY <1>2 DEF Fresh
  <2>2. ASSUME kind = "stream", "late" \notin faults
        PROVE  \A p \in Paths : \A x, y \in rows'[p] : x.ts < count /\ (x.ts = y.ts => x = y)
    BY Zenon, <1>1, <1>2, <1>4, <2>2 DEF Stamps
  <2>3. QED
    BY Zenon, <1>2, <1>3, <1>4, <2>1, <2>2 DEF Stamps
<1>7. QED
  BY Zenon, <1>2, <1>3, <1>5, <1>6 DEF IInv

(* A trigger is installed or deleted.                                          *)
LEMMA RetriggerKeeps ==
  ASSUME IInv, Retrigger
  PROVE  IInv'
<1>1. Types /\ OneAtATime /\ Stamps /\ Chain /\ Linked /\ Younger
  BY Zenon DEF IInv
<1>2. /\ watched' \in SUBSET Paths /\ faults \subseteq faults' /\ faults' # {}
      /\ UNCHANGED <<kind, rows, batch, pending, split, firing, count, view, told, surprised>>
  BY Zenon DEF Retrigger, Fault
<1>3. Stamps' /\ Chain' /\ Linked' /\ Younger'
  BY Zenon, <1>1, <1>2, OthersKeep
<1>4. Types' /\ OneAtATime'
  BY Zenon, <1>1, <1>2 DEF Types, OneAtATime
<1>5. QED
  BY Zenon, <1>2, <1>3, <1>4 DEF IInv

-----------------------------------------------------------------------------
(* Writers that fire no events *)

(* A path that is not marked has the value it had.                             *)
LEMMA HiddenElsewhere ==
  ASSUME Types, NEW mark \in {"no", "racing"}, Hidden(mark)
  PROVE  /\ told' \in [Paths -> {"yes", "no", "racing"}]
         /\ \A p \in Paths : /\ told'[p] = mark \/ (told'[p] = told[p] /\ Newest(rows', p) = Newest(rows, p))
                             /\ p \notin Rewritten => told'[p] = told[p]
                             /\ p \in Rewritten => told'[p] = mark
<1>1. told \in [Paths -> {"yes", "no", "racing"}]
      /\ told' = [p \in Paths |-> IF p \in Rewritten THEN mark ELSE told[p]]
  BY Zenon DEF Hidden, Types
<1>2. \A p \in Paths : p \notin Rewritten => Newest(rows', p) = Newest(rows, p)
  BY Zenon DEF Rewritten, Newest
<1>3. \A p \in Paths : told'[p] = IF p \in Rewritten THEN mark ELSE told[p]
  BY Zenon, <1>1
<1>4. told' \in [Paths -> {"yes", "no", "racing"}]
  BY Zenon, <1>1
<1>5. QED
  BY Zenon, <1>2, <1>3, <1>4

(* The subscriber is not expected to know of such a write.                     *)
LEMMA HiddenFollows ==
  ASSUME Types, Follows, NEW mark \in {"no", "racing"}, Hidden(mark), mark = "racing" \/ firing = <<>>
  PROVE  Follows'
<1>1. UNCHANGED <<batch, split, firing, watched, view, surprised>>
  BY Zenon DEF Hidden
<1>2. mark # "yes"
  OBVIOUS
<1>3. ASSUME NEW i \in DOMAIN firing PROVE Continues(i)'
  <2>1. Continues(i) /\ firing[i].path \in Paths
    BY Zenon, SeqOps DEF Follows, Types, Ops
  <2>2. firing # <<>>
    BY <1>3
  <2>3. mark = "racing"
    BY Zenon, <2>2
  <2> DEFINE p == firing[i].path
  <2>4. \/ told'[p] = "racing"
        \/ told'[p] = told[p] /\ Newest(rows', p) = Newest(rows, p)
    BY Zenon, <2>1, <2>3, HiddenElsewhere
  <2>5. told'[p] = "yes" => told[p] = "yes"
    BY <2>4
  <2>6. QED
    BY Zenon, <1>1, <2>1, <2>4, <2>5 DEF Continues, Prior, First, IsLast
<1>4. ASSUME NEW p \in Paths, told'[p] = "yes", \A i \in DOMAIN firing : firing[i].path # p
      PROVE  view[p] \in Newest(rows', p)
  <2>1. told'[p] = told[p] /\ Newest(rows', p) = Newest(rows, p)
    BY Zenon, <1>2, <1>4, HiddenElsewhere
  <2>2. QED
    BY Zenon, <1>4, <2>1 DEF Follows
<1>5. QED
  BY Zenon, <1>1, <1>3, <1>4 DEF Follows

(* The ops that wait on a path that is not marked are linked to what they were *)
(* linked to.                                                                  *)
LEMMA HiddenLinked ==
  ASSUME Types, OneAtATime, Chain, Linked, Hidden("racing")
  PROVE  /\ OneAtATime' /\ Chain' /\ Linked'
         /\ \A i \in DOMAIN batch : /\ batch[i].path \in Paths
                                    /\ Tracked(i)' => Tracked(i)
                                    /\ Current(i)' => Current(i) /\ batch[i].path \notin Rewritten
<1>1. UNCHANGED <<batch, pending, split, firing>>
  BY Zenon DEF Hidden
<1>2. ASSUME NEW i \in DOMAIN batch
      PROVE  /\ batch[i].path \in Paths
             /\ Tracked(i)' => Tracked(i)
             /\ Current(i)' => /\ Current(i) /\ batch[i].path \notin Rewritten
                               /\ Newest(rows', batch[i].path) = Newest(rows, batch[i].path)
  <2>1. batch[i].path \in Paths
    BY Zenon, SeqOps DEF Types, Ops
  <2>2. Tracked(i)' => Tracked(i)
    BY Zenon, <1>1 DEF Tracked
  <2>3. Current(i)' => /\ Current(i) /\ batch[i].path \notin Rewritten
                       /\ Newest(rows', batch[i].path) = Newest(rows, batch[i].path)
    BY Zenon, <1>1, <2>1, HiddenElsewhere DEF Current
  <2>4. QED
    BY Zenon, <2>1, <2>2, <2>3
<1>3. OneAtATime' /\ Chain'
  BY Zenon, <1>1 DEF OneAtATime, Chain
<1>4. Linked'
  BY Zenon, <1>1, <1>2 DEF Linked, Prior, First
<1>5. QED
  BY Zenon, <1>2, <1>3, <1>4

(* handleProducerProperties: no op waits on the shard.                         *)
LEMMA PurgeKeeps ==
  ASSUME IInv, NEW keep \in SUBSET Paths, Purge(keep)
  PROVE  IInv'
<1>1. Types /\ Stamps /\ (faults = {} => Follows)
  BY Zenon DEF IInv
<1>2. /\ kind = "prop" /\ batch = <<>> /\ split = <<>> /\ firing = <<>>
      /\ rows' = [p \in Paths |-> IF p \in keep THEN rows[p] ELSE {}]
      /\ Hidden("no") /\ UNCHANGED <<count, faults>>
      /\ UNCHANGED <<kind, batch, pending, split, firing, watched, view, surprised>>
  BY Zenon DEF Purge, Hidden
<1>3. DOMAIN batch = {}
  BY <1>2
<1>4. \A p \in Paths : rows'[p] \subseteq rows[p]
  BY Zenon, <1>2
<1>5. Types'
  <2>1. rows' \in [Paths -> SUBSET Samples]
    BY Zenon, <1>1, <1>2 DEF Types
  <2>2. told' \in [Paths -> {"yes", "no", "racing"}]
    BY Zenon, <1>1, <1>2, HiddenElsewhere
  <2>3. QED
    BY Zenon, <1>1, <1>2, <2>1, <2>2 DEF Types
<1>6. Stamps'
  BY Zenon, <1>1, <1>2, <1>4, StampsStay
<1>7. OneAtATime' /\ Chain' /\ Linked' /\ Younger'
  <2>1. OneAtATime' /\ Chain'
    BY Zenon, <1>2 DEF IInv, OneAtATime, Chain
  <2>2. QED
    BY Zenon, <1>2, <1>3, <2>1 DEF Linked, Younger
<1>8. faults' = {} => Follows'
  BY Zenon, <1>1, <1>2, HiddenFollows
<1>9. QED
  BY Zenon, <1>5, <1>6, <1>7, <1>8 DEF IInv

(* The retention ceiling only takes samples away.                              *)
LEMMA RetentionKeeps ==
  ASSUME IInv, NEW oldest, EnforceRealmRetentionCeilings(oldest)
  PROVE  IInv'
<1>1. Types /\ OneAtATime /\ Stamps /\ Chain /\ Linked /\ Younger /\ (faults = {} => Follows)
  BY Zenon DEF IInv
<1>2. /\ kind = "stream"
      /\ rows' = [p \in Paths |-> {x \in rows[p] : x.ts >= oldest}]
      /\ Hidden("racing") /\ UNCHANGED <<count, faults>>
      /\ UNCHANGED <<kind, batch, pending, split, firing, watched, view, surprised>>
  BY Zenon DEF EnforceRealmRetentionCeilings, Hidden
<1>3. \A p \in Paths : rows'[p] \subseteq rows[p]
  BY Zenon, <1>2
<1>4. Types'
  <2>1. rows' \in [Paths -> SUBSET Samples]
    BY Zenon, <1>1, <1>2 DEF Types
  <2>2. told' \in [Paths -> {"yes", "no", "racing"}]
    BY Zenon, <1>1, <1>2, HiddenElsewhere
  <2>3. QED
    BY Zenon, <1>1, <1>2, <2>1, <2>2 DEF Types
<1>5. /\ OneAtATime' /\ Chain' /\ Linked'
      /\ \A i \in DOMAIN batch : /\ batch[i].path \in Paths
                                 /\ Tracked(i)' => Tracked(i)
                                 /\ Current(i)' => Current(i) /\ batch[i].path \notin Rewritten
  BY Zenon, <1>1, <1>2, HiddenLinked
<1>6. Stamps'
  BY Zenon, <1>1, <1>2, <1>3, StampsStay
<1>7. Younger'
  BY Zenon, <1>1, <1>2, <1>3, <1>5 DEF Younger
<1>8. faults' = {} => Follows'
  BY Zenon, <1>1, <1>2, HiddenFollows
<1>9. QED
  BY Zenon, <1>4, <1>5, <1>6, <1>7, <1>8 DEF IInv

(* A sample of now is younger than all others, so its path is marked.          *)
LEMMA VirtualStamps ==
  ASSUME Types, Stamps, Younger, kind = "stream", "late" \notin faults, faults' = faults,
         NEW p \in Paths, NEW v \in Vals, Written(p, rows[p] \cup {[val |-> v, ts |-> count]}),
         count' = count + 1, UNCHANGED <<kind, batch, split>>,
         \A i \in DOMAIN batch : /\ batch[i].path \in Paths
                                 /\ Tracked(i)' => Tracked(i)
                                 /\ Current(i)' => Current(i) /\ batch[i].path \notin Rewritten
  PROVE  Stamps' /\ Younger'
<1> DEFINE new == [val |-> v, ts |-> count]
<1>1. /\ rows'[p] = rows[p] \cup {new} /\ \A q \in Paths : q # p => rows'[q] = rows[q]
  BY Zenon DEF Written, Types
<1>2. new.ts = count /\ count \in Nat
  BY Zenon DEF Types
<1>3. \A q \in Paths : \A x \in rows[q] : x.ts \in Nat /\ x.ts < count
  <2>1. \A q \in Paths : \A x \in rows[q] : x.ts \in Nat
    BY DEF Types, Samples
  <2>2. QED
    BY Zenon, <2>1 DEF Stamps
<1> HIDE DEF new
<1>4. \A q \in Paths : \A x \in rows'[q] : x \in rows[q] \/ x = new
  BY Zenon, <1>1
<1>5. \A q \in Paths : \A x, y \in rows'[q] : x.ts < count' /\ (x.ts = y.ts => x = y)
  <2> SUFFICES ASSUME NEW q \in Paths, NEW x \in rows'[q], NEW y \in rows'[q]
               PROVE  x.ts < count + 1 /\ (x.ts = y.ts => x = y)
    OBVIOUS
  <2>1. CASE x \in rows[q] /\ y \in rows[q]
    <3>1. x.ts = y.ts => x = y
      BY Zenon, <2>1 DEF Stamps
    <3>2. QED
      BY <1>2, <1>3, <2>1, <3>1
  <2>2. CASE x = new \/ y = new
    BY <1>2, <1>3, <1>4, <2>2
  <2>3. QED
    BY Zenon, <1>4, <2>1, <2>2
<1>6. ASSUME NEW ops \in Seq(Ops), Fresh(ops)
      PROVE  \A i \in DOMAIN ops : /\ ops[i].ts < count'
                                   /\ \A q \in Paths : \A x \in rows'[q] : x.ts # ops[i].ts
  <2> SUFFICES ASSUME NEW i \in DOMAIN ops
               PROVE  ops[i].ts < count + 1 /\ \A q \in Paths : \A x \in rows'[q] : x.ts # ops[i].ts
    OBVIOUS
  <2>1. ops[i] \in Ops
    BY Zenon, SeqOps
  <2>2. ops[i].ts \in Nat /\ ops[i].ts < count
    BY Zenon, <1>6, <2>1 DEF Ops, Fresh
  <2>3. \A q \in Paths : \A x \in rows[q] : x.ts # ops[i].ts
    BY Zenon, <1>6 DEF Fresh
  <2>4. new.ts # ops[i].ts /\ ops[i].ts < count + 1
    BY <1>2, <2>2
  <2>5. QED
    BY Zenon, <1>4, <2>3, <2>4
<1>7. Fresh(batch) /\ Fresh(split) /\ batch \in Seq(Ops) /\ split \in Seq(Ops)
  BY Zenon DEF Stamps, Types
<1>8. Fresh(batch)' /\ Fresh(split)'
  BY Zenon, <1>6, <1>7 DEF Fresh
<1>9. Stamps'
  <2>1. kind' # "prop"
    OBVIOUS
  <2>2. QED
    BY Zenon, <1>5, <1>8, <2>1 DEF Stamps
<1>10. p \in Rewritten
  <2>1. new \in rows'[p] /\ \A z \in rows'[p] : z.ts <= new.ts
    BY <1>1, <1>2, <1>3
  <2>2. new \notin rows[p]
    BY <1>2, <1>3
  <2>3. QED
    BY Zenon, <2>1, <2>2 DEF Rewritten, Top
<1>11. Younger'
  <2>1. ASSUME NEW i \in DOMAIN batch, Tracked(i)', Current(i)'
        PROVE  \A x \in rows'[batch[i].path] : x.ts < batch[i].ts
    <3>1. batch[i].path \in Paths /\ batch[i].path # p /\ Tracked(i) /\ Current(i)
      BY Zenon, <1>10, <2>1
    <3>2. QED
      BY Zenon, <1>1, <3>1 DEF Younger
  <2>2. QED
    BY Zenon, <2>1 DEF Younger
<1>12. QED
  BY Zenon, <1>9, <1>11

(* PublishDeviceValue, whatever the shard is doing.                            *)
LEMMA VirtualKeeps ==
  ASSUME IInv, NEW p \in Paths, NEW v \in Values, PublishDeviceValue(p, v)
  PROVE  IInv'
<1>1. Types /\ OneAtATime /\ Stamps /\ Chain /\ Linked /\ Younger /\ (faults = {} => Follows)
  BY Zenon DEF IInv
<1>2. /\ Hidden("racing") /\ count' = count + 1
      /\ UNCHANGED <<kind, batch, pending, split, firing, watched, view, surprised>>
  BY Zenon DEF PublishDeviceValue, Hidden
<1>3. v \in Vals /\ count \in Nat /\ Now \in Nat
  BY <1>1 DEF Types, Vals, Now
<1>4. \A t \in Nat : [val |-> v, ts |-> t] \in Samples
  BY Zenon, <1>3 DEF Samples
<1>5. told' \in [Paths -> {"yes", "no", "racing"}]
  BY Zenon, <1>1, <1>2, HiddenElsewhere
<1>6. /\ OneAtATime' /\ Chain' /\ Linked'
      /\ \A i \in DOMAIN batch : /\ batch[i].path \in Paths
                                 /\ Tracked(i)' => Tracked(i)
                                 /\ Current(i)' => Current(i) /\ batch[i].path \notin Rewritten
  BY Zenon, <1>1, <1>2, HiddenLinked
<1>7. /\ rows' \in [Paths -> SUBSET Samples] /\ Stamps' /\ Younger'
      /\ faults' = {} => faults = {}
  <2>1. CASE kind = "prop" /\ Written(p, {[val |-> v, ts |-> Now]}) /\ UNCHANGED faults
    <3>1. [val |-> v, ts |-> Now] \in Samples
      BY Zenon, <1>3, <1>4
    <3> DEFINE new == [val |-> v, ts |-> Now]
    <3>2. rows' = [rows EXCEPT ![p] = {new}] /\ new \in Samples
      BY Zenon, <2>1, <3>1 DEF Written
    <3> HIDE DEF new
    <3>3. rows' \in [Paths -> SUBSET Samples]
      BY Zenon, <1>1, <3>2 DEF Types
    <3>4. rows'[p] = {new} /\ \A q \in Paths : q # p => rows'[q] = rows[q]
      BY Zenon, <1>1, <3>2 DEF Types
    <3>5. \A q \in Paths : \A x, y \in rows'[q] : x = y
      <4>1. \A q \in Paths : \A x, y \in rows[q] : x = y
        BY Zenon, <1>1, <2>1 DEF Stamps
      <4>2. \A x, y \in rows'[p] : x = y
        BY Zenon, <3>4
      <4>3. \A q \in Paths : q # p => \A x, y \in rows'[q] : x = y
        BY Zenon, <3>4, <4>1
      <4>4. QED
        BY Zenon, <4>2, <4>3
    <3>6. kind' # "stream"
      BY <1>2, <2>1
    <3>7. QED
      BY Zenon, <2>1, <3>3, <3>5, <3>6 DEF Stamps, Younger
  <2>2. CASE kind = "stream" /\ Written(p, rows[p] \cup {[val |-> v, ts |-> Now]}) /\ UNCHANGED faults
    <3>1. Now = count
      BY Zenon, <2>2 DEF Now
    <3>2. rows' \in [Paths -> SUBSET Samples]
      BY Zenon, <1>1, <1>3, <1>4, <2>2 DEF Written, Types
    <3>3. ASSUME "late" \notin faults PROVE Stamps' /\ Younger'
      BY Zenon, <1>1, <1>2, <1>3, <1>6, <2>2, <3>1, <3>3, VirtualStamps
    <3>4. kind' # "prop"
      BY <1>2, <2>2
    <3>5. ASSUME "late" \in faults PROVE Stamps' /\ Younger'
      BY Zenon, <2>2, <3>4, <3>5 DEF Stamps, Younger
    <3>6. QED
      BY Zenon, <2>2, <3>2, <3>3, <3>5
  <2>3. CASE /\ kind = "stream" /\ Fault("late")
             /\ \E t \in 0..count - 1 : Written(p, rows[p] \cup {[val |-> v, ts |-> t]})
    <3>1. PICK t \in 0..count - 1 : Written(p, rows[p] \cup {[val |-> v, ts |-> t]})
      BY Zenon, <2>3
    <3>2. t \in Nat
      BY <1>3
    <3>3. rows' \in [Paths -> SUBSET Samples]
      BY Zenon, <1>1, <1>4, <3>1, <3>2 DEF Written, Types
    <3>4. kind' # "prop"
      BY <1>2, <2>3
    <3>5. "late" \in faults'
      BY Zenon, <2>3 DEF Fault
    <3>6. QED
      BY Zenon, <3>3, <3>4, <3>5 DEF Stamps, Younger
  <2>4. QED
    BY Zenon, <2>1, <2>2, <2>3 DEF PublishDeviceValue
<1>8. Types'
  <2>1. count' \in Nat
    BY <1>2, <1>3
  <2>2. QED
    BY Zenon, <1>1, <1>2, <1>5, <1>7, <2>1 DEF Types
<1>9. faults' = {} => Follows'
  BY Zenon, <1>1, <1>2, <1>7, HiddenFollows
<1>10. QED
  BY Zenon, <1>6, <1>7, <1>8, <1>9 DEF IInv

-----------------------------------------------------------------------------
(* Changes: theorems *)

LEMMA StutterKeeps ==
  ASSUME IInv, UNCHANGED vars
  PROVE  IInv'
<1>1. Types /\ OneAtATime /\ Stamps /\ Chain /\ Linked /\ Younger /\ (faults = {} => Follows)
  BY Zenon DEF IInv
<1>2. UNCHANGED <<kind, rows, batch, pending, split, firing, watched, count, view, told,
                 surprised, faults>>
  BY Zenon DEF vars
<1>3. Stamps' /\ Chain' /\ Linked' /\ Younger'
  BY Zenon, <1>1, <1>2, OthersKeep
<1>4. Types' /\ OneAtATime'
  BY Zenon, <1>1, <1>2 DEF Types, OneAtATime
<1>5. faults' = {} => Follows'
  <2>1. ASSUME faults' = {} PROVE Follows'
    <3>1. Follows /\ \A i \in DOMAIN batch' : batch'[i].tracked
      BY Zenon, <1>1, <1>2, <2>1 DEF Follows
    <3>2. QED
      BY Zenon, <1>1, <1>2, <3>1, StillFollows
  <2>2. QED
    BY Zenon, <2>1
<1>6. QED
  BY Zenon, <1>3, <1>4, <1>5 DEF IInv

(* Whatever is published, refused, lost or retried, the ops waiting in a batch *)
(* stay linked to what is stored.                                              *)
LEMMA Inductive == Spec => []IInv
<1>1. IInv /\ [Next]_vars => IInv'
  <2> SUFFICES ASSUME IInv, [Next]_vars PROVE IInv'
    OBVIOUS
  <2>1. ASSUME NEW p \in Paths, NEW v \in Vals, Accept(p, v) PROVE IInv'
    BY Zenon, <2>1, AcceptKeeps
  <2>2. CASE Flush
    BY Zenon, <2>2, FlushKeeps
  <2>3. CASE Split
    BY Zenon, <2>3, SplitKeeps
  <2>4. CASE FlushOne
    BY <2>4, FlushOneKeeps
  <2>5. CASE FireCommitted
    BY <2>5, FireKeeps
  <2>6. CASE Crash
    BY <2>6, CrashKeeps
  <2>7. CASE Retrigger
    BY <2>7, RetriggerKeeps
  <2>8. ASSUME NEW keep \in SUBSET Paths, Purge(keep) PROVE IInv'
    BY Zenon, <2>8, PurgeKeeps
  <2>9. ASSUME NEW p \in Paths, NEW v \in Values, PublishDeviceValue(p, v) PROVE IInv'
    BY Zenon, <2>9, VirtualKeeps
  <2>10. ASSUME NEW oldest \in 1..count, EnforceRealmRetentionCeilings(oldest) PROVE IInv'
    BY Zenon, <2>10, RetentionKeeps
  <2>11. CASE UNCHANGED vars
    BY Zenon, <2>11, StutterKeeps
  <2>12. QED
    BY Zenon, <2>1, <2>2, <2>3, <2>4, <2>5, <2>6, <2>7, <2>8, <2>9, <2>10, <2>11 DEF Next
<1>2. QED
  BY <1>1, InitHolds, PTL DEF Spec

(* Under the invariant, the value before an op is the one a serial processor   *)
(* would have found (prevSnap, trackPrevious).                                 *)
LEMMA LinkedIsSerial == IInv => PrevIsSerial
<1> SUFFICES ASSUME IInv, NEW i \in DOMAIN batch, "late" \notin faults, told[batch[i].path] # "racing",
                    \A j \in 1..i : batch[j].path = batch[i].path => batch[j].tracked
             PROVE  batch[i].prev \in Newest(Commit(rows, SubSeq(batch, 1, i - 1)), batch[i].path)
  BY Zenon DEF PrevIsSerial
<1>1. Types /\ Stamps /\ Linked /\ Younger
  BY Zenon DEF IInv
<1>a. Tracked(i) /\ Current(i)
  BY Zenon DEF Tracked, Current
<1>2. batch \in Seq(Ops) /\ batch[i] \in Ops /\ batch[i].path \in Paths
  BY <1>1, SeqOps, ZenonT(30) DEF Types, Ops
<1>3. i \in Nat /\ i - 1 \in 0..Len(batch)
  BY <1>2
<1> DEFINE s == SubSeq(batch, 1, i - 1)
<1>4. s \in Seq(Ops) /\ DOMAIN s = 1..(i - 1) /\ \A k \in 1..(i - 1) : s[k] = batch[k]
  BY Zenon, <1>2, <1>3, PrefixIsOps
<1> HIDE DEF s
<1>5. \A k \in DOMAIN s : k \in DOMAIN batch /\ k < i /\ s[k] = batch[k]
  BY <1>2, <1>3, <1>4
<1>6. CASE \E j \in DOMAIN batch : Prior(batch, j, i) /\ batch[i].prev = batch[j].val
  <2>1. PICK j \in DOMAIN batch : Prior(batch, j, i) /\ batch[i].prev = batch[j].val
    BY Zenon, <1>6
  <2>2. j \in DOMAIN s /\ s[j] = batch[j] /\ batch[j].path = batch[i].path
    <3>1. j \in Nat /\ 1 <= j /\ j < i
      BY <1>2, <2>1 DEF Prior
    <3>2. j \in 1..(i - 1)
      BY <1>3, <3>1
    <3>3. QED
      BY Zenon, <1>4, <2>1, <3>2 DEF Prior
  <2>3. IsLast(s, j)
    BY Zenon, <1>5, <2>1, <2>2 DEF IsLast, Prior
  <2>a. Tracked(j) /\ Current(j)
    <3>1. \A k \in 1..j : k \in 1..i
      BY <1>2, <2>1 DEF Prior
    <3>2. QED
      BY Zenon, <1>a, <2>2, <3>1 DEF Tracked, Current
  <2>4. kind = "stream" => /\ \A x \in rows[s[j].path] : x.ts < s[j].ts
                           /\ \A k, m \in DOMAIN s : k < m => s[k].ts < s[m].ts
    BY Zenon, <1>1, <1>5, <2>1, <2>2, <2>a DEF Stamps, Fresh, Younger
  <2>5. Newest(Commit(rows, s), s[j].path) = {s[j].val}
    BY <1>1, <1>4, <2>2, <2>3, <2>4, NewestIsLast, ZenonT(30)
  <2>6. QED
    BY <2>1, <2>2, <2>5, ZenonT(30) DEF s
<1>7. CASE First(batch, i) /\ batch[i].prev \in Newest(rows, batch[i].path)
  <2>1. \A k \in DOMAIN s : s[k].path # batch[i].path
    BY Zenon, <1>5, <1>7 DEF First
  <2>2. Commit(rows, s)[batch[i].path] = rows[batch[i].path]
    BY <1>2, <2>1, CommitElsewhere
  <2>3. QED
    BY Zenon, <1>7, <2>2 DEF Newest, Top, s
<1>8. QED
  BY Zenon, <1>1, <1>6, <1>7, <1>a DEF Linked

(* Ops that share a batch see each other as a serial processor would, for any  *)
(* number of paths, values, ops per batch and faults, across purges of the     *)
(* device's properties and as long as no virtual device and no retention       *)
(* ceiling rewrites the path after its lookup (prevSnap, trackPrevious).       *)
THEOREM SharedBatchIsSerial == Spec => []PrevIsSerial
  BY Inductive, LinkedIsSerial, PTL

(* Unless something went wrong, a subscriber to the change events knows a      *)
(* stored value once no op waits, and no event contradicts the ones before it  *)
(* (fireDataChanges).  A path that a purge list, a virtual device or the       *)
(* retention ceiling changed is excepted until the next event for an op whose  *)
(* previous value was looked up after that change.                             *)
THEOREM SubscriberKnows == Spec => []SubscriberKnowsValue
<1>1. ASSUME IInv PROVE SubscriberKnowsValue
  <2>1. ASSUME faults = {}, firing = <<>>, NEW p \in Paths, told[p] = "yes"
        PROVE  view[p] \in Newest(rows, p)
    <3>1. DOMAIN firing = {}
      BY <2>1
    <3>2. QED
      BY Zenon, <1>1, <2>1, <3>1 DEF IInv, Follows
  <2>2. faults = {} => ~surprised
    BY Zenon, <1>1 DEF IInv, Follows
  <2>3. QED
    BY Zenon, <2>1, <2>2 DEF SubscriberKnowsValue
<1>2. QED
  BY <1>1, Inductive, PTL

-----------------------------------------------------------------------------
(* Rooms: the inductive invariant *)

RoomRecords ==
  [topic : Topics \cup {None}, members : SUBSET MemberIds, watches : SUBSET Watches,
   events : Seq(Watches), subscribed : BOOLEAN, open : BOOLEAN, retired : BOOLEAN,
   copy : (SUBSET Watches) \cup {None}, cur : Watches \cup {None}, dispatching : BOOLEAN]

MemberRecords == [room : RoomIds \cup {None}, mailbox : Seq(Watches), closes : Nat]

SessionRecords ==
  [pc : {"idle", "joining", "joined"}, topic : Topics \cup {None},
   room : RoomIds \cup {None}, member : MemberIds \cup {None}]

Shape ==
  /\ rooms \in [Topics -> RoomIds \cup {None}]
  /\ room \in [RoomIds -> RoomRecords]
  /\ member \in [MemberIds -> MemberRecords]
  /\ session \in [Sessions -> SessionRecords]
  /\ closed \in BOOLEAN

\* A member listed by a room is that room's and has its mailbox open.
Listed ==
  \A m \in MemberIds :
    /\ member[m].closes <= 1
    /\ member[m].room = None => member[m].closes = 0
    /\ \A r \in RoomIds : m \in room[r].members => member[m].room = r /\ member[m].closes = 0

\* A session that is past Registry.Join holds a room, one past AddMember a member.
Held ==
  \A s \in Sessions :
    /\ session[s].pc # "idle" => session[s].room \in RoomIds /\ room[session[s].room].topic \in Topics
    /\ session[s].pc = "joined" =>
         session[s].member \in MemberIds /\ member[session[s].member].room \in RoomIds

\* A room in use has a topic, and a retired one or one with a closed event
\* channel no subscription; the registry names rooms in use.
Subscribes ==
  /\ \A t \in Topics : rooms[t] # None => room[rooms[t]].topic \in Topics
  /\ \A r \in RoomIds :
       /\ room[r] # NoRoom => room[r].topic \in Topics
       /\ room[r].retired \/ ~room[r].open => ~room[r].subscribed

RoomsIInv == Shape /\ Listed /\ Held /\ Subscribes /\ LiveRoomIsRegistered

-----------------------------------------------------------------------------
LEMMA Records ==
  ASSUME NEW t \in Topics \cup {None}, NEW b \in BOOLEAN
  PROVE  NewRoom(t, b) \in RoomRecords
<1>1. <<>> \in Seq(Watches)
  OBVIOUS
<1>2. {} \in SUBSET MemberIds /\ {} \in SUBSET Watches /\ None \in (SUBSET Watches) \cup {None}
  OBVIOUS
<1>3. QED
  BY Zenon, <1>1, <1>2 DEF NewRoom, RoomRecords

LEMMA NoRoomRecord == NoRoom \in RoomRecords
<1>1. NewRoom(None, FALSE) \in RoomRecords
  BY Records, ZenonT(30)
<1>2. QED
  BY <1>1, ZenonT(30) DEF NoRoom, RoomRecords

LEMMA NoRoomFields ==
  /\ NoRoom.topic = None /\ NoRoom.members = {} /\ NoRoom.subscribed = FALSE
  /\ NoRoom.open = FALSE /\ NoRoom.retired = FALSE /\ NoRoom.dispatching = FALSE
  /\ NoRoom.cur = None
BY Zenon DEF NewRoom, NoRoom

LEMMA InitIInv == RoomsInit => RoomsIInv
<1> SUFFICES ASSUME RoomsInit PROVE RoomsIInv
  OBVIOUS
<1>1. Shape
  <2>1. NoRoom \in RoomRecords
    BY Zenon, NoRoomRecord
  <2>2. room \in [RoomIds -> RoomRecords]
    BY Zenon, <2>1 DEF RoomsInit
  <2>3. member \in [MemberIds -> MemberRecords]
    BY DEF RoomsInit, MemberRecords
  <2>4. session \in [Sessions -> SessionRecords]
    BY Zenon DEF RoomsInit, SessionRecords
  <2>5. QED
    BY <2>2, <2>3, <2>4, ZenonT(30) DEF RoomsInit, Shape
<1>2. Listed /\ Held /\ Subscribes /\ LiveRoomIsRegistered
  BY NoRoomFields DEF RoomsInit, Listed, Held, Subscribes, LiveRoomIsRegistered
<1>3. QED
  BY Zenon, <1>1, <1>2 DEF RoomsIInv

-----------------------------------------------------------------------------
(* Sessions *)

\* Every session but s is as before.
Others(s) == \A q \in Sessions : q # s => session'[q] = session[q]

LEMMA KeptJoiners ==
  ASSUME RoomsIInv, NEW s \in Sessions, session[s].pc # "joining", Others(s),
         NEW r \in RoomIds, \E q \in Sessions : session[q].pc = "joining" /\ session[q].room = r
  PROVE  \E q \in Sessions : session'[q].pc = "joining" /\ session'[q].room = r
BY Zenon DEF Others

LEMMA JoinKnown ==
  ASSUME RoomsIInv, NEW s \in Sessions, NEW t \in Topics, Join(s, t), rooms[t] # None
  PROVE  RoomsIInv'
<1>1. session' = [session EXCEPT ![s] = [@ EXCEPT !.pc = "joining", !.topic = t, !.room = rooms[t]]]
      /\ UNCHANGED <<rooms, room, member, closed>> /\ session[s].pc = "idle"
  BY Zenon DEF Join
<1>2. rooms[t] \in RoomIds
  BY Zenon DEF RoomsIInv, Shape
<1>3. session[s] \in SessionRecords
  BY Zenon DEF RoomsIInv, Shape
<1>4. session'[s] \in SessionRecords /\ session'[s].pc = "joining" /\ session'[s].room = rooms[t]
  BY <1>1, <1>2, <1>3, ZenonT(30) DEF RoomsIInv, Shape, SessionRecords
<1>5. Others(s)
  BY Zenon, <1>1 DEF RoomsIInv, Shape, Others
<1>6. Shape'
  <2>1. session' \in [Sessions -> SessionRecords]
    BY Zenon, <1>1, <1>4 DEF RoomsIInv, Shape
  <2>2. QED
    BY Zenon, <1>1, <2>1 DEF RoomsIInv, Shape
<1>7. Listed' /\ Subscribes'
  BY Zenon, <1>1 DEF RoomsIInv, Listed, Subscribes
<1>8. Held'
  BY Zenon, <1>1, <1>2, <1>4, <1>5 DEF RoomsIInv, Held, Others, Subscribes
<1>9. LiveRoomIsRegistered'
  <2> SUFFICES ASSUME NEW r \in RoomIds, room[r].subscribed, room[r].members = {}
               PROVE  \E q \in Sessions : session'[q].pc = "joining" /\ session'[q].room = r
    BY Zenon, <1>1 DEF RoomsIInv, LiveRoomIsRegistered
  <2>1. QED
    BY Zenon, <1>1, <1>5, KeptJoiners DEF RoomsIInv, LiveRoomIsRegistered
<1>10. QED
  BY Zenon, <1>6, <1>7, <1>8, <1>9 DEF RoomsIInv

LEMMA JoinNew ==
  ASSUME RoomsIInv, NEW s \in Sessions, NEW t \in Topics, Join(s, t), rooms[t] = None
  PROVE  RoomsIInv'
<1>1. PICK r \in RoomIds :
        /\ room[r] = NoRoom
        /\ rooms' = [rooms EXCEPT ![t] = r]
        /\ room' = [room EXCEPT ![r] = NewRoom(t, ~closed)]
        /\ session' = [session EXCEPT ![s] = [@ EXCEPT !.pc = "joining", !.topic = t, !.room = r]]
  BY ZenonT(30) DEF Join
<1>2. UNCHANGED <<member, closed>> /\ session[s].pc = "idle"
  BY Zenon DEF Join
<1>3. session[s] \in SessionRecords
  BY Zenon DEF RoomsIInv, Shape
<1>4. session'[s] \in SessionRecords /\ session'[s].pc = "joining" /\ session'[s].room = r
  BY <1>1, <1>3, ZenonT(30) DEF RoomsIInv, Shape, SessionRecords
<1>5. Others(s)
  BY Zenon, <1>1 DEF RoomsIInv, Shape, Others
<1>6. /\ room'[r] = NewRoom(t, ~closed)
      /\ \A q \in RoomIds : q # r => room'[q] = room[q]
  BY Zenon, <1>1 DEF RoomsIInv, Shape
<1>f. /\ room'[r].topic = t /\ room'[r].members = {} /\ room'[r].retired = FALSE
      /\ room'[r].subscribed = ~closed /\ room'[r].open = ~closed
  BY <1>6 DEF NewRoom
<1>7. /\ rooms'[t] = r
      /\ \A u \in Topics : u # t => rooms'[u] = rooms[u]
  BY Zenon, <1>1 DEF RoomsIInv, Shape
<1>8. Shape'
  <2>1. session' \in [Sessions -> SessionRecords]
    BY Zenon, <1>1, <1>4 DEF RoomsIInv, Shape
  <2>2. NewRoom(t, ~closed) \in RoomRecords
    BY Records, ZenonT(30) DEF RoomsIInv, Shape
  <2>3. QED
    BY Zenon, <1>1, <1>2, <2>1, <2>2 DEF RoomsIInv, Shape
<1>9. Listed'
  BY Zenon, <1>2, <1>6, <1>f DEF RoomsIInv, Listed
<1>10. Held'
  BY <1>2, <1>4, <1>5, <1>6, <1>f, SMTT(30) DEF RoomsIInv, Held, Others
<1>11. Subscribes'
  <2>1. \A u \in Topics : rooms'[u] # None => room'[rooms'[u]].topic \in Topics
    BY <1>6, <1>f, <1>7, SMTT(30) DEF RoomsIInv, Subscribes, Shape
  <2>2. QED
    BY Zenon, <2>1, <1>6, <1>f DEF RoomsIInv, Subscribes
<1>12. LiveRoomIsRegistered'
  <2> SUFFICES ASSUME NEW q \in RoomIds
               PROVE  /\ (room'[q] # NoRoom /\ ~room'[q].retired) => rooms'[room'[q].topic] = q
                      /\ room'[q].subscribed =>
                           \/ room'[q].members # {}
                           \/ \E e \in Sessions : session'[e].pc = "joining" /\ session'[e].room = q
    BY Zenon DEF LiveRoomIsRegistered
  <2>1. CASE q = r
    BY Zenon, <1>4, <1>f, <1>7, <2>1
  <2>2. CASE q # r
    <3>1. (room[q] # NoRoom /\ ~room[q].retired) => rooms[room[q].topic] = q /\ room[q].topic # t
      BY RoomsAssumption, SMTT(30) DEF RoomsIInv, LiveRoomIsRegistered
    <3>2. (room[q] # NoRoom /\ ~room[q].retired) => rooms'[room[q].topic] = q
      BY Zenon, <1>7, <3>1 DEF RoomsIInv, Subscribes
    <3>3. room[q].subscribed /\ room[q].members = {} =>
            \E e \in Sessions : session'[e].pc = "joining" /\ session'[e].room = q
      BY Zenon, <1>2, <1>5, KeptJoiners DEF RoomsIInv, LiveRoomIsRegistered
    <3>4. QED
      BY Zenon, <1>6, <2>2, <3>2, <3>3
  <2>3. QED
    BY Zenon, <2>1, <2>2
<1>13. QED
  BY ZenonT(30), <1>8, <1>9, <1>10, <1>11, <1>12 DEF RoomsIInv

-----------------------------------------------------------------------------
(* Steps that leave membership and subscriptions alone *)

Calm ==
  /\ UNCHANGED <<rooms, session>>
  /\ \A m \in MemberIds : member'[m].room = member[m].room /\ member'[m].closes = member[m].closes
  /\ \A r \in RoomIds :
       /\ room'[r].topic = room[r].topic /\ room'[r].members = room[r].members
       /\ room'[r].subscribed = room[r].subscribed /\ room'[r].open = room[r].open
       /\ room'[r].retired = room[r].retired
       /\ room[r] = NoRoom => room'[r] = NoRoom

LEMMA CalmStep ==
  ASSUME RoomsIInv, Shape', Calm
  PROVE  RoomsIInv'
<1>1. Listed'
  BY Zenon DEF RoomsIInv, Calm, Listed
<1>2. Held'
  BY Zenon DEF RoomsIInv, Calm, Held, Shape
<1>3. Subscribes'
  <2>1. \A t \in Topics : rooms'[t] # None => room'[rooms'[t]].topic \in Topics
    BY DEF RoomsIInv, Calm, Subscribes, Shape
  <2>2. QED
    BY Zenon, <2>1 DEF RoomsIInv, Calm, Subscribes
<1>4. LiveRoomIsRegistered'
  BY Zenon DEF RoomsIInv, Calm, LiveRoomIsRegistered
<1>5. QED
  BY Zenon, <1>1, <1>2, <1>3, <1>4 DEF RoomsIInv

\* One room in use gets other watches, events or a copy.
LEMMA OneRoomCalm ==
  ASSUME RoomsIInv, UNCHANGED <<rooms, member, session, closed>>, NEW r \in RoomIds, room[r] # NoRoom,
         NEW rec \in RoomRecords, room' = [room EXCEPT ![r] = rec],
         rec.topic = room[r].topic, rec.members = room[r].members, rec.retired = room[r].retired,
         rec.subscribed = room[r].subscribed, rec.open = room[r].open
  PROVE  RoomsIInv'
<1>1. Shape'
  BY Zenon DEF RoomsIInv, Shape
<1>2. room'[r] = rec /\ \A q \in RoomIds : q # r => room'[q] = room[q]
  BY Zenon DEF RoomsIInv, Shape
<1>3. Calm
  BY Zenon, <1>2 DEF Calm
<1>4. QED
  BY Zenon, <1>1, <1>3, CalmStep

LEMMA WatchKeeps ==
  ASSUME RoomsIInv, NEW s \in Sessions, NEW w \in Watches, Watch(s, w) \/ Unwatch(s, w)
  PROVE  RoomsIInv'
<1> DEFINE r == session[s].room
<1>1. r \in RoomIds /\ room[r] # NoRoom /\ room[r] \in RoomRecords
  BY NoRoomFields, RoomsAssumption DEF RoomsIInv, Held, Shape, Watch, Unwatch
<1>2. PICK W \in SUBSET Watches : room' = [room EXCEPT ![r].watches = W]
  <2>1. room[r].watches \in SUBSET Watches
    BY Zenon, <1>1 DEF RoomRecords
  <2>2. CASE Watch(s, w)
    BY <2>1, <2>2, ZenonT(30) DEF Watch
  <2>3. CASE Unwatch(s, w)
    BY <2>1, <2>3, ZenonT(30) DEF Unwatch
  <2>4. QED
    BY <2>2, <2>3, ZenonT(30)
<1> DEFINE rec == [room[r] EXCEPT !.watches = W]
<1>3. room' = [room EXCEPT ![r] = rec] /\ rec \in RoomRecords
  BY Zenon, <1>1, <1>2 DEF RoomRecords
<1>4. /\ rec.topic = room[r].topic /\ rec.members = room[r].members /\ rec.retired = room[r].retired
      /\ rec.subscribed = room[r].subscribed /\ rec.open = room[r].open
  BY Zenon, <1>1 DEF RoomRecords
<1>5. UNCHANGED <<rooms, member, session, closed>>
  BY Zenon DEF Watch, Unwatch
<1> HIDE DEF rec, r
<1>6. QED
  BY <1>1, <1>3, <1>4, <1>5, OneRoomCalm, ZenonT(30)

LEMMA PublishKeeps ==
  ASSUME RoomsIInv, NEW e \in Watches, Publish(e)
  PROVE  RoomsIInv'
<1>1. UNCHANGED <<rooms, member, session, closed>>
  BY Zenon DEF Publish
<1>2. ASSUME NEW r \in RoomIds
      PROVE  /\ room'[r] \in RoomRecords
             /\ room'[r].topic = room[r].topic /\ room'[r].members = room[r].members
             /\ room'[r].subscribed = room[r].subscribed /\ room'[r].open = room[r].open
             /\ room'[r].retired = room[r].retired
             /\ room[r] = NoRoom => room'[r] = NoRoom
  <2>1. room[r] \in RoomRecords
    BY Zenon DEF RoomsIInv, Shape
  <2>2. CASE Takes(r)
    <3>1. room'[r] = [room[r] EXCEPT !.events = Append(@, e)]
      BY Zenon, <2>2 DEF Publish
    <3>2. room[r].events \in Seq(Watches)
      BY Zenon, <2>1 DEF RoomRecords
    <3>3. Append(room[r].events, e) \in Seq(Watches)
      BY <3>2
    <3>4. room[r] # NoRoom
      BY Zenon, <2>2, NoRoomFields DEF Takes
    <3>5. QED
      BY <2>1, <3>1, <3>3, <3>4, ZenonT(30) DEF RoomRecords
  <2>3. CASE ~Takes(r)
    BY Zenon, <2>1, <2>3 DEF Publish
  <2>4. QED
    BY Zenon, <2>2, <2>3
<1>3. Shape'
  <2>1. room' \in [RoomIds -> RoomRecords]
    BY <1>2, ZenonT(30) DEF Publish
  <2>2. QED
    BY Zenon, <1>1, <2>1 DEF RoomsIInv, Shape
<1>4. Calm
  BY Zenon, <1>1, <1>2 DEF Calm
<1>5. QED
  BY Zenon, <1>3, <1>4, CalmStep

LEMMA DispatchTakesKeeps ==
  ASSUME RoomsIInv, NEW r \in RoomIds, DispatchTakes(r)
  PROVE  RoomsIInv'
<1>1. room[r] \in RoomRecords /\ room[r] # NoRoom
  BY Zenon, NoRoomFields DEF RoomsIInv, Shape, DispatchTakes
<1>2. room[r].events \in Seq(Watches) /\ room[r].events # <<>> /\ room[r].watches \in SUBSET Watches
  BY Zenon, <1>1 DEF DispatchTakes, RoomRecords
<1> DEFINE rec == [room[r] EXCEPT !.cur = Head(room[r].events), !.events = Tail(@), !.copy = room[r].watches]
<1>3. Head(room[r].events) \in Watches /\ Tail(room[r].events) \in Seq(Watches)
  BY <1>2
<1>4. rec \in RoomRecords
  BY <1>1, <1>2, <1>3, ZenonT(30) DEF RoomRecords
<1>5. /\ rec.topic = room[r].topic /\ rec.members = room[r].members /\ rec.retired = room[r].retired
      /\ rec.subscribed = room[r].subscribed /\ rec.open = room[r].open
  BY Zenon, <1>1 DEF RoomRecords
<1>6. room' = [room EXCEPT ![r] = rec] /\ UNCHANGED <<rooms, member, session, closed>>
  BY Zenon DEF DispatchTakes
<1> HIDE DEF rec
<1>7. QED
  BY <1>1, <1>4, <1>5, <1>6, OneRoomCalm, ZenonT(30)

LEMMA DispatchDeliversKeeps ==
  ASSUME RoomsIInv, NEW r \in RoomIds, DispatchDelivers(r)
  PROVE  RoomsIInv'
<1>1. room[r] \in RoomRecords /\ room[r] # NoRoom
  BY Zenon, NoRoomFields DEF RoomsIInv, Shape, DispatchDelivers
<1> DEFINE rec == [room[r] EXCEPT !.cur = None, !.copy = None]
<1>2. room' = [room EXCEPT ![r] = rec] /\ UNCHANGED <<rooms, session, closed>>
  BY Zenon DEF DispatchDelivers, RoomsIInv, Shape
<1>3. rec \in RoomRecords
  BY <1>1, ZenonT(30) DEF RoomRecords
<1>4. /\ rec.topic = room[r].topic /\ rec.members = room[r].members /\ rec.retired = room[r].retired
      /\ rec.subscribed = room[r].subscribed /\ rec.open = room[r].open
  BY Zenon, <1>1 DEF RoomRecords
<1>5. ASSUME NEW m \in MemberIds
      PROVE  /\ member'[m] \in MemberRecords
             /\ member'[m].room = member[m].room /\ member'[m].closes = member[m].closes
  <2>1. member[m] \in MemberRecords
    BY Zenon DEF RoomsIInv, Shape
  <2>2. CASE room[r].cur \in room[r].copy /\ m \in room[r].members /\ Len(member[m].mailbox) < Mailbox
    <3>1. member'[m] = [member[m] EXCEPT !.mailbox = Append(@, room[r].cur)]
      BY Zenon, <2>2 DEF DispatchDelivers
    <3>2. room[r].cur \in Watches
      BY Zenon, <1>1 DEF DispatchDelivers, RoomRecords
    <3>3. Append(member[m].mailbox, room[r].cur) \in Seq(Watches)
      BY <2>1, <3>2 DEF MemberRecords
    <3>4. QED
      BY <2>1, <3>1, <3>3, ZenonT(30) DEF MemberRecords
  <2>3. CASE ~(room[r].cur \in room[r].copy /\ m \in room[r].members /\ Len(member[m].mailbox) < Mailbox)
    BY Zenon, <2>1, <2>3 DEF DispatchDelivers
  <2>4. QED
    BY Zenon, <2>2, <2>3
<1>6. Shape'
  <2>1. member' \in [MemberIds -> MemberRecords]
    BY <1>5, ZenonT(30) DEF DispatchDelivers
  <2>2. QED
    BY Zenon, <1>2, <1>3, <2>1 DEF RoomsIInv, Shape
<1> HIDE DEF rec
<1>7. room'[r] = rec /\ \A q \in RoomIds : q # r => room'[q] = room[q]
  BY Zenon, <1>2 DEF RoomsIInv, Shape
<1>8. Calm
  BY Zenon, <1>1, <1>2, <1>4, <1>5, <1>7 DEF Calm
<1>9. QED
  BY <1>6, <1>8, CalmStep

LEMMA PumpEventsKeeps ==
  ASSUME RoomsIInv, NEW m \in MemberIds, PumpEvents(m)
  PROVE  RoomsIInv'
<1>1. member[m] \in MemberRecords
  BY Zenon DEF RoomsIInv, Shape
<1>2. Tail(member[m].mailbox) \in Seq(Watches)
  BY <1>1 DEF MemberRecords, PumpEvents
<1> DEFINE new == [member[m] EXCEPT !.mailbox = Tail(@)]
<1>3. new \in MemberRecords /\ new.room = member[m].room /\ new.closes = member[m].closes
  BY Zenon, <1>1, <1>2 DEF MemberRecords
<1>4. member' = [member EXCEPT ![m] = new] /\ UNCHANGED <<rooms, room, session, closed>>
  BY DEF PumpEvents
<1> HIDE DEF new
<1>5. Shape'
  BY <1>3, <1>4 DEF RoomsIInv, Shape
<1>6. Calm
  BY <1>3, <1>4 DEF Calm, RoomsIInv, Shape
<1>7. QED
  BY <1>5, <1>6, CalmStep

-----------------------------------------------------------------------------
(* Members come and go, rooms retire *)

LEMMA NoRoomShut == [NoRoom EXCEPT !.subscribed = FALSE, !.open = FALSE] = NoRoom
<1>1. NoRoom \in RoomRecords /\ NoRoom.subscribed = FALSE /\ NoRoom.open = FALSE
  BY NoRoomRecord, NoRoomFields
<1>2. QED
  BY <1>1, ZenonT(30) DEF RoomRecords

LEMMA BusCloseKeeps ==
  ASSUME RoomsIInv, BusClose
  PROVE  RoomsIInv'
<1>1. UNCHANGED <<rooms, member, session>> /\ closed' = TRUE
  BY ZenonT(30) DEF BusClose
<1>2. ASSUME NEW r \in RoomIds
      PROVE  /\ room'[r] \in RoomRecords
             /\ room'[r].topic = room[r].topic /\ room'[r].members = room[r].members
             /\ room'[r].subscribed = FALSE /\ room'[r].retired = room[r].retired
             /\ room[r] = NoRoom => room'[r] = NoRoom
  <2>1. room[r] \in RoomRecords
    BY Zenon DEF RoomsIInv, Shape
  <2>2. room'[r] = [room[r] EXCEPT !.subscribed = FALSE, !.open = FALSE]
    BY ZenonT(30) DEF BusClose
  <2>3. room[r] = NoRoom => room'[r] = NoRoom
    BY Zenon, <2>2, NoRoomShut
  <2>4. QED
    BY ZenonT(60), <2>1, <2>2, <2>3 DEF RoomRecords
<1>3. Shape'
  <2>1. room' \in [RoomIds -> RoomRecords]
    BY <1>2, ZenonT(30) DEF BusClose
  <2>2. QED
    BY Zenon, <1>1, <2>1 DEF RoomsIInv, Shape
<1>4. Listed'
  BY <1>1, <1>2, ZenonT(30) DEF RoomsIInv, Listed
<1>5. Held'
  BY <1>1, <1>2, ZenonT(30) DEF RoomsIInv, Held
<1>6. Subscribes'
  <2>1. \A t \in Topics : rooms'[t] # None => room'[rooms'[t]].topic \in Topics
    BY <1>1, <1>2, ZenonT(30) DEF RoomsIInv, Subscribes, Shape
  <2>2. QED
    BY <2>1, <1>2, ZenonT(30) DEF RoomsIInv, Subscribes
<1>7. LiveRoomIsRegistered'
  BY <1>1, <1>2, ZenonT(30) DEF RoomsIInv, LiveRoomIsRegistered
<1>8. QED
  BY <1>3, <1>4, <1>5, <1>6, <1>7 DEF RoomsIInv

LEMMA AddMemberKeeps ==
  ASSUME RoomsIInv, NEW s \in Sessions, AddMember(s)
  PROVE  RoomsIInv'
<1> DEFINE r == session[s].room
<1>1. r \in RoomIds /\ room[r].topic \in Topics /\ room[r] \in RoomRecords /\ session[s] \in SessionRecords
  BY Zenon DEF AddMember, RoomsIInv, Held, Shape
<1>2. PICK m \in MemberIds :
        /\ member[m].room = None
        /\ member' = [member EXCEPT ![m].room = r]
        /\ room' = [room EXCEPT ![r].members = @ \cup {m}]
        /\ session' = [session EXCEPT ![s] = [@ EXCEPT !.pc = "joined", !.member = m]]
  BY ZenonT(30) DEF AddMember
<1>3. UNCHANGED <<rooms, closed>>
  BY Zenon DEF AddMember
<1>4. /\ room'[r] \in RoomRecords /\ room'[r].topic = room[r].topic
      /\ room'[r].members = room[r].members \cup {m}
      /\ room'[r].subscribed = room[r].subscribed /\ room'[r].open = room[r].open
      /\ room'[r].retired = room[r].retired
      /\ \A q \in RoomIds : q # r => room'[q] = room[q]
  BY <1>1, <1>2, ZenonT(30) DEF RoomsIInv, Shape, RoomRecords
<1>5. /\ member'[m] \in MemberRecords /\ member'[m].room = r /\ member'[m].closes = member[m].closes
      /\ \A n \in MemberIds : n # m => member'[n] = member[n]
  BY <1>1, <1>2, ZenonT(30) DEF RoomsIInv, Shape, MemberRecords
<1>6. /\ session'[s] \in SessionRecords /\ session'[s].pc = "joined" /\ session'[s].room = r
      /\ session'[s].member = m /\ Others(s)
  BY <1>1, <1>2, ZenonT(30) DEF RoomsIInv, Shape, SessionRecords, Others
<1>7. Shape'
  <2>1. room' \in [RoomIds -> RoomRecords]
    BY <1>2, <1>4, ZenonT(30) DEF RoomsIInv, Shape
  <2>2. member' \in [MemberIds -> MemberRecords]
    BY Zenon, <1>2, <1>5 DEF RoomsIInv, Shape
  <2>3. session' \in [Sessions -> SessionRecords]
    BY Zenon, <1>2, <1>6 DEF RoomsIInv, Shape
  <2>4. QED
    BY Zenon, <1>3, <2>1, <2>2, <2>3 DEF RoomsIInv, Shape
<1>8. Listed'
  <2>1. member[m].closes = 0 /\ \A q \in RoomIds : m \notin room[q].members
    BY Zenon, <1>2, RoomsAssumption DEF RoomsIInv, Listed
  <2>2. \A q \in RoomIds, n \in MemberIds :
          n \in room'[q].members => (n = m /\ q = r) \/ (n # m /\ n \in room[q].members)
    BY Zenon, <1>1, <1>4, <2>1
  <2>3. QED
    BY <1>2, <1>5, <2>1, <2>2, RoomsAssumption DEF RoomsIInv, Listed
<1>9. Held'
  <2>1. ASSUME NEW q \in Sessions, session[q].pc = "joined"
        PROVE  session[q].member # m
    BY Zenon, <1>2, <2>1, RoomsAssumption DEF RoomsIInv, Held
  <2>2. QED
    BY <1>1, <1>4, <1>5, <1>6, <2>1 DEF RoomsIInv, Held, Others
<1>10. Subscribes'
  <2>1. \A t \in Topics : rooms'[t] # None => room'[rooms'[t]].topic \in Topics
    BY <1>1, <1>3, <1>4, ZenonT(30) DEF RoomsIInv, Subscribes, Shape
  <2>2. QED
    BY <1>1, <1>4, <2>1, ZenonT(30) DEF RoomsIInv, Subscribes
<1>11. LiveRoomIsRegistered'
  <2> SUFFICES ASSUME NEW q \in RoomIds
               PROVE  /\ (room'[q] # NoRoom /\ ~room'[q].retired) => rooms'[room'[q].topic] = q
                      /\ room'[q].subscribed =>
                           \/ room'[q].members # {}
                           \/ \E e \in Sessions : session'[e].pc = "joining" /\ session'[e].room = q
    BY Zenon DEF LiveRoomIsRegistered
  <2>1. CASE q = r
    <3>1. room[r] # NoRoom
      BY Zenon, <1>1, NoRoomFields, RoomsAssumption
    <3>2. QED
      BY Zenon, <1>3, <1>4, <2>1, <3>1 DEF RoomsIInv, LiveRoomIsRegistered
  <2>2. CASE q # r
    <3>1. room[q].subscribed /\ room[q].members = {} =>
            \E e \in Sessions : session'[e].pc = "joining" /\ session'[e].room = q
      BY <1>6, <2>2 DEF RoomsIInv, LiveRoomIsRegistered, Others
    <3>2. QED
      BY <1>3, <1>4, <2>2, <3>1, ZenonT(30) DEF RoomsIInv, LiveRoomIsRegistered
  <2>3. QED
    BY Zenon, <2>1, <2>2
<1>12. QED
  BY Zenon, <1>7, <1>8, <1>9, <1>10, <1>11 DEF RoomsIInv

\* Retire, and the changes rec brings: r ends retired, and the other live
\* rooms keep their topics.
LEMMA Retirement ==
  ASSUME RoomsIInv, NEW r \in RoomIds, room[r].topic \in Topics,
         NEW rec \in RoomRecords, rec.topic = room[r].topic, rec.retired = room[r].retired,
         rec.subscribed = room[r].subscribed, Retire(r, rec)
  PROVE  /\ room' \in [RoomIds -> RoomRecords] /\ rooms' \in [Topics -> RoomIds \cup {None}]
         /\ room'[r].topic = room[r].topic /\ room'[r].members = rec.members
         /\ room'[r].retired = TRUE /\ room'[r].subscribed = FALSE
         /\ \A q \in RoomIds : q # r => room'[q] = room[q]
         /\ \A t \in Topics : rooms'[t] # None => rooms'[t] = rooms[t]
         /\ \A q \in RoomIds : q # r /\ room[q] # NoRoom /\ ~room[q].retired => rooms'[room[q].topic] = q
<1>1. room \in [RoomIds -> RoomRecords] /\ rooms \in [Topics -> RoomIds \cup {None}]
  BY Zenon DEF RoomsIInv, Shape
<1>2. rec.retired \in BOOLEAN
  BY Zenon DEF RoomRecords
<1>3. CASE rec.retired
  <2>1. room' = [room EXCEPT ![r] = rec] /\ rooms' = rooms
    BY Zenon, <1>3 DEF Retire
  <2>2. rec.subscribed = FALSE
    BY <1>3, ZenonT(30) DEF RoomsIInv, Subscribes, RoomRecords
  <2>3. QED
    BY Zenon, <1>1, <1>2, <1>3, <2>1, <2>2 DEF RoomsIInv, LiveRoomIsRegistered
<1>4. CASE ~rec.retired
  <2> DEFINE last == [rec EXCEPT !.retired = TRUE, !.subscribed = FALSE, !.open = FALSE]
  <2>1. room' = [room EXCEPT ![r] = last] /\ rooms' = [rooms EXCEPT ![room[r].topic] = None]
    BY Zenon, <1>4 DEF Retire
  <2>2. /\ last \in RoomRecords /\ last.topic = rec.topic /\ last.members = rec.members
        /\ last.retired = TRUE /\ last.subscribed = FALSE
    BY ZenonT(30) DEF RoomRecords
  <2> HIDE DEF last
  <2>3. room' \in [RoomIds -> RoomRecords] /\ room'[r] = last /\ \A q \in RoomIds : q # r => room'[q] = room[q]
    BY Zenon, <1>1, <2>1, <2>2
  <2>4. room[r] # NoRoom
    BY Zenon, NoRoomFields, RoomsAssumption
  <2>5. rooms[room[r].topic] = r
    BY Zenon, <1>4, <2>4 DEF RoomsIInv, LiveRoomIsRegistered
  <2>6. ASSUME NEW q \in RoomIds, q # r, room[q] # NoRoom, ~room[q].retired
        PROVE  rooms'[room[q].topic] = q
    <3>1. rooms[room[q].topic] = q /\ room[q].topic \in Topics
      BY Zenon, <2>6 DEF RoomsIInv, LiveRoomIsRegistered, Subscribes
    <3>2. QED
      BY Zenon, <1>1, <2>1, <2>5, <2>6, <3>1
  <2>7. rooms' \in [Topics -> RoomIds \cup {None}] /\ \A t \in Topics : rooms'[t] # None => rooms'[t] = rooms[t]
    BY Zenon, <1>1, <2>1
  <2>8. QED
    BY Zenon, <2>2, <2>3, <2>6, <2>7
<1>5. QED
  BY <1>2, <1>3, <1>4, ZenonT(30)

\* Sessions only leave: none joins, none that joins stops.
Departing ==
  /\ session' \in [Sessions -> SessionRecords]
  /\ \A q \in Sessions :
       session'[q] = session[q] \/ (session[q].pc # "joining" /\ session'[q].pc = "idle")

\* The mailboxes of the members gone are closed.
Closes(gone) ==
  member' = [m \in MemberIds |-> IF m \in gone THEN [member[m] EXCEPT !.closes = @ + 1] ELSE member[m]]

\* The members gone leave room r.
LEMMA MembersGo ==
  ASSUME RoomsIInv, closed' = closed, Departing, NEW r \in RoomIds, room[r].topic \in Topics,
         NEW gone \in SUBSET room[r].members,
         room' \in [RoomIds -> RoomRecords], rooms' \in [Topics -> RoomIds \cup {None}],
         room'[r].topic = room[r].topic, room'[r].members = room[r].members \ gone,
         room'[r].retired \/ ~room'[r].open => ~room'[r].subscribed,
         room'[r].subscribed => room'[r].members # {},
         ~room'[r].retired => rooms'[room[r].topic] = r,
         \A q \in RoomIds : q # r => room'[q] = room[q],
         \A t \in Topics : rooms'[t] # None => rooms'[t] = rooms[t],
         \A q \in RoomIds : q # r /\ room[q] # NoRoom /\ ~room[q].retired => rooms'[room[q].topic] = q,
         Closes(gone)
  PROVE  RoomsIInv'
<1>1. ASSUME NEW m \in MemberIds
      PROVE  /\ member'[m] \in MemberRecords /\ member'[m].room = member[m].room
             /\ member'[m].closes = IF m \in gone THEN member[m].closes + 1 ELSE member[m].closes
  <2>1. member[m] \in MemberRecords
    BY Zenon DEF RoomsIInv, Shape
  <2>2. QED
    BY <2>1, SMTT(30) DEF MemberRecords, Closes
<1>2. Shape'
  <2>1. member' \in [MemberIds -> MemberRecords]
    BY Zenon, <1>1 DEF Closes
  <2>2. QED
    BY Zenon, <2>1 DEF RoomsIInv, Shape, Departing
<1>3. Listed'
  <2>1. ASSUME NEW m \in MemberIds, m \in gone
        PROVE  /\ member[m].room = r /\ member[m].closes = 0
               /\ \A q \in RoomIds : m \notin room'[q].members
    <3>1. member[m].room = r /\ member[m].closes = 0
      BY Zenon, <2>1 DEF RoomsIInv, Listed
    <3>2. \A q \in RoomIds : q # r => m \notin room[q].members
      BY Zenon, <2>1, <3>1 DEF RoomsIInv, Listed
    <3>3. QED
      BY Zenon, <2>1, <3>1, <3>2
  <2>2. \A q \in RoomIds : room'[q].members \subseteq room[q].members
    BY Zenon
  <2>3. ASSUME NEW m \in MemberIds
        PROVE  /\ member'[m].closes <= 1
               /\ member'[m].room = None => member'[m].closes = 0
               /\ \A q \in RoomIds : m \in room'[q].members => member'[m].room = q /\ member'[m].closes = 0
    <3>1. CASE m \in gone
      <4>1. member[m].room = r /\ member[m].closes = 0 /\ \A q \in RoomIds : m \notin room'[q].members
        BY Zenon, <2>1, <3>1
      <4>2. member'[m].room = r /\ member'[m].closes = member[m].closes + 1
        BY Zenon, <1>1, <3>1, <4>1
      <4>3. member'[m].room = r /\ member'[m].closes = 1
        BY <4>1, <4>2
      <4>4. r # None
        BY Zenon, RoomsAssumption
      <4>5. QED
        BY <4>1, <4>3, <4>4
    <3>2. CASE m \notin gone
      BY Zenon, <1>1, <2>2, <3>2 DEF RoomsIInv, Listed
    <3>3. QED
      BY Zenon, <3>1, <3>2
  <2>4. QED
    BY Zenon, <2>3 DEF Listed
<1>4. \A q \in RoomIds : room'[q].topic = room[q].topic
  BY Zenon
<1>5. Held'
  <2>1. ASSUME NEW q \in Sessions, session'[q].pc # "idle"
        PROVE  session'[q] = session[q]
    BY Zenon, <2>1 DEF Departing
  <2>2. QED
    BY <1>1, <1>4, <2>1, SMTT(30) DEF RoomsIInv, Held
<1>6. Subscribes'
  <2>1. ASSUME NEW t \in Topics, rooms'[t] # None
        PROVE  room'[rooms'[t]].topic \in Topics
    BY <1>4, <2>1, SMTT(30) DEF RoomsIInv, Subscribes
  <2>2. ASSUME NEW q \in RoomIds
        PROVE  /\ room'[q] # NoRoom => room'[q].topic \in Topics
               /\ room'[q].retired \/ ~room'[q].open => ~room'[q].subscribed
    BY Zenon DEF RoomsIInv, Subscribes
  <2>3. QED
    BY Zenon, <2>1, <2>2 DEF Subscribes
<1>7. LiveRoomIsRegistered'
  <2>1. ASSUME NEW q \in RoomIds, q # r, room'[q].subscribed, room'[q].members = {}
        PROVE  \E e \in Sessions : session'[e].pc = "joining" /\ session'[e].room = q
    <3>1. PICK e \in Sessions : session[e].pc = "joining" /\ session[e].room = q
      BY Zenon, <2>1 DEF RoomsIInv, LiveRoomIsRegistered
    <3>2. session'[e] = session[e]
      BY Zenon, <3>1 DEF Departing
    <3>3. QED
      BY Zenon, <3>1, <3>2
  <2>2. \A q \in RoomIds : (room'[q] # NoRoom /\ ~room'[q].retired) => rooms'[room'[q].topic] = q
    OBVIOUS
  <2>3. QED
    BY Zenon, <2>1, <2>2 DEF LiveRoomIsRegistered
<1>8. QED
  BY Zenon, <1>2, <1>3, <1>5, <1>6, <1>7 DEF RoomsIInv

LEMMA LeaveKeeps ==
  ASSUME RoomsIInv, NEW s \in Sessions, Leave(s)
  PROVE  RoomsIInv'
<1> DEFINE m == session[s].member
           r == member[m].room
           rec == [room[r] EXCEPT !.members = @ \ {m}]
<1>1. m \in MemberIds /\ r \in RoomIds
  BY Zenon DEF Leave, RoomsIInv, Held
<1>2. closed' = closed /\ session[s].pc = "joined" /\ LeaveRoom(m)
  BY Zenon DEF Leave
<1>3. Departing
  <2> DEFINE away == [pc |-> "idle", topic |-> None, room |-> None, member |-> None]
  <2>1. away \in SessionRecords /\ away.pc = "idle"
    BY Zenon DEF SessionRecords
  <2>2. session' = [session EXCEPT ![s] = away]
    BY Zenon DEF Leave
  <2> HIDE DEF away
  <2>3. QED
    BY Zenon, <1>2, <2>1, <2>2 DEF Departing, RoomsIInv, Shape
<1>4. CASE ~StillMember(m)
  <2>1. UNCHANGED <<rooms, room, member>>
    BY Zenon, <1>2, <1>4 DEF LeaveRoom
  <2>2. Shape' /\ Listed' /\ Subscribes'
    BY Zenon, <1>2, <1>3, <2>1 DEF RoomsIInv, Shape, Listed, Subscribes, Departing
  <2>3. Held'
    BY Zenon, <1>3, <2>1 DEF RoomsIInv, Held, Departing
  <2>4. LiveRoomIsRegistered'
    BY <1>3, <2>1 DEF RoomsIInv, LiveRoomIsRegistered, Departing
  <2>5. QED
    BY Zenon, <2>2, <2>3, <2>4 DEF RoomsIInv
<1>5. CASE StillMember(m)
  <2>1. room[r] \in RoomRecords /\ m \in room[r].members
    BY Zenon, <1>1, <1>5 DEF RoomsIInv, Shape, StillMember
  <2>2. room[r] # NoRoom /\ room[r].topic \in Topics
    BY ZenonT(30), <1>1, <2>1, NoRoomFields DEF RoomsIInv, Subscribes
  <2>3. /\ rec \in RoomRecords /\ rec.topic = room[r].topic /\ rec.members = room[r].members \ {m}
        /\ rec.retired = room[r].retired /\ rec.subscribed = room[r].subscribed /\ rec.open = room[r].open
    BY ZenonT(60), <2>1 DEF RoomRecords
  <2>4. /\ IF rec.members = {} THEN Retire(r, rec)
           ELSE room' = [room EXCEPT ![r] = rec] /\ UNCHANGED rooms
        /\ member' = [member EXCEPT ![m].closes = @ + 1]
    BY ZenonT(30), <1>2, <1>5 DEF LeaveRoom
  <2> HIDE DEF rec
  <2> DEFINE gone == {m}
  <2>5. Closes(gone) /\ gone \in SUBSET room[r].members /\ rec.members = room[r].members \ gone
    BY <1>1, <2>1, <2>3, <2>4, ZenonT(30) DEF RoomsIInv, Shape, Closes
  <2> HIDE DEF gone
  <2>6. CASE rec.members = {}
    <3>1. Retire(r, rec)
      BY ZenonT(30), <2>4, <2>6
    <3>2. /\ room' \in [RoomIds -> RoomRecords] /\ rooms' \in [Topics -> RoomIds \cup {None}]
          /\ room'[r].topic = room[r].topic /\ room'[r].members = rec.members
          /\ room'[r].retired = TRUE /\ room'[r].subscribed = FALSE
          /\ \A q \in RoomIds : q # r => room'[q] = room[q]
          /\ \A t \in Topics : rooms'[t] # None => rooms'[t] = rooms[t]
          /\ \A q \in RoomIds : q # r /\ room[q] # NoRoom /\ ~room[q].retired => rooms'[room[q].topic] = q
      BY <1>1, <2>2, <2>3, <3>1, Retirement, ZenonT(30)
    <3> HIDE DEF r, m
    <3>3. QED
      BY <1>1, <1>2, <1>3, <2>1, <2>2, <2>3, <2>5, <3>2, MembersGo, ZenonT(30)
  <2>7. CASE rec.members # {}
    <3>1. room' = [room EXCEPT ![r] = rec] /\ rooms' = rooms
      BY ZenonT(30), <2>4, <2>7
    <3>2. /\ room' \in [RoomIds -> RoomRecords] /\ room'[r] = rec
          /\ \A q \in RoomIds : q # r => room'[q] = room[q]
      BY <1>1, <2>3, <3>1, ZenonT(30) DEF RoomsIInv, Shape
    <3>3. /\ rooms' \in [Topics -> RoomIds \cup {None}]
          /\ \A t \in Topics : rooms'[t] # None => rooms'[t] = rooms[t]
          /\ \A q \in RoomIds : room[q] # NoRoom /\ ~room[q].retired => rooms'[room[q].topic] = q
      BY Zenon, <3>1 DEF RoomsIInv, Shape, LiveRoomIsRegistered
    <3>4. room[r].retired \/ ~room[r].open => ~room[r].subscribed
      BY Zenon, <1>1 DEF RoomsIInv, Subscribes
    <3> HIDE DEF r, m
    <3>5. QED
      BY Zenon, <1>1, <1>2, <1>3, <2>1, <2>2, <2>3, <2>5, <2>7, <3>2, <3>3, <3>4, MembersGo
  <2>8. QED
    BY Zenon, <2>6, <2>7
<1>6. QED
  BY Zenon, <1>4, <1>5

LEMMA DispatchEndsKeeps ==
  ASSUME RoomsIInv, NEW r \in RoomIds, DispatchEnds(r)
  PROVE  RoomsIInv'
<1> DEFINE rec == [room[r] EXCEPT !.members = {}, !.dispatching = FALSE]
           gone == room[r].members
<1>1. /\ room[r].dispatching /\ Retire(r, rec)
      /\ UNCHANGED <<session, closed>>
  BY Zenon DEF DispatchEnds
<1>2. Closes(gone) /\ gone \in SUBSET room[r].members
  BY Zenon DEF DispatchEnds, Closes
<1>3. room[r] \in RoomRecords
  BY Zenon DEF RoomsIInv, Shape
<1>4. room[r].topic \in Topics
  BY Zenon, <1>1, NoRoomFields DEF RoomsIInv, Subscribes
<1>5. /\ rec \in RoomRecords /\ rec.topic = room[r].topic /\ rec.members = room[r].members \ gone
      /\ rec.retired = room[r].retired /\ rec.subscribed = room[r].subscribed
  BY <1>3, ZenonT(30) DEF RoomRecords
<1>6. Departing
  BY Zenon, <1>1 DEF Departing, RoomsIInv, Shape
<1> HIDE DEF rec, gone
<1>7. /\ room' \in [RoomIds -> RoomRecords] /\ rooms' \in [Topics -> RoomIds \cup {None}]
      /\ room'[r].topic = room[r].topic /\ room'[r].members = rec.members
      /\ room'[r].retired = TRUE /\ room'[r].subscribed = FALSE
      /\ \A q \in RoomIds : q # r => room'[q] = room[q]
      /\ \A t \in Topics : rooms'[t] # None => rooms'[t] = rooms[t]
      /\ \A q \in RoomIds : q # r /\ room[q] # NoRoom /\ ~room[q].retired => rooms'[room[q].topic] = q
  BY <1>1, <1>4, <1>5, Retirement, ZenonT(30)
<1>8. QED
  BY <1>1, <1>2, <1>4, <1>5, <1>6, <1>7, MembersGo, ZenonT(30)

-----------------------------------------------------------------------------
(* The theorems *)

LEMMA NextIInv ==
  ASSUME RoomsIInv, [RoomsNext]_roomsVars
  PROVE  RoomsIInv'
<1>1. ASSUME NEW s \in Sessions, NEW t \in Topics, Join(s, t)
      PROVE  RoomsIInv'
  BY Zenon, <1>1, JoinKnown, JoinNew
<1>2. ASSUME NEW s \in Sessions, AddMember(s)
      PROVE  RoomsIInv'
  BY Zenon, <1>2, AddMemberKeeps
<1>3. ASSUME NEW s \in Sessions, Leave(s)
      PROVE  RoomsIInv'
  BY Zenon, <1>3, LeaveKeeps
<1>4. ASSUME NEW s \in Sessions, NEW w \in Watches, Watch(s, w) \/ Unwatch(s, w)
      PROVE  RoomsIInv'
  BY Zenon, <1>4, WatchKeeps
<1>5. ASSUME NEW e \in Watches, Publish(e)
      PROVE  RoomsIInv'
  BY <1>5, PublishKeeps
<1>6. CASE BusClose
  BY <1>6, BusCloseKeeps
<1>7. ASSUME NEW r \in RoomIds, Dispatch(r)
      PROVE  RoomsIInv'
  BY Zenon, <1>7, DispatchTakesKeeps, DispatchDeliversKeeps, DispatchEndsKeeps DEF Dispatch
<1>8. ASSUME NEW m \in MemberIds, PumpEvents(m)
      PROVE  RoomsIInv'
  BY <1>8, PumpEventsKeeps
<1>9. CASE UNCHANGED roomsVars
  BY <1>9, ZenonT(30) DEF roomsVars, RoomsIInv, Shape, Listed, Held, Subscribes, LiveRoomIsRegistered
<1>10. QED
  BY Zenon, <1>1, <1>2, <1>3, <1>4, <1>5, <1>6, <1>7, <1>8, <1>9 DEF RoomsNext, SessionStep

(* No mailbox is closed twice or sent to once closed, whichever of Leave   *)
(* (room.go, Member.Leave) and the end of dispatch reaches the member      *)
(* first, for any number of rooms, sessions and members and any channel    *)
(* capacities.                                                             *)
THEOREM MailboxesCloseOnce == RoomsSpec => []MailboxClosedOnce
<1>1. RoomsIInv => MailboxClosedOnce
  BY DEF RoomsIInv, Listed, MailboxClosedOnce
<1>2. RoomsInit => RoomsIInv
  BY Zenon, InitIInv
<1>3. RoomsIInv /\ [RoomsNext]_roomsVars => RoomsIInv'
  BY NextIInv
<1>4. QED
  BY <1>1, <1>2, <1>3, PTL DEF RoomsSpec

(* A room that is not retired is the one the registry names for its topic, *)
(* and a bus subscription always has a member or a session between         *)
(* Registry.Join and AddMember, for any number of topics and rooms.        *)
THEOREM LiveRoomsRegistered == RoomsSpec => []LiveRoomIsRegistered
<1>1. RoomsIInv => LiveRoomIsRegistered
  BY Zenon DEF RoomsIInv
<1>2. RoomsInit => RoomsIInv
  BY InitIInv
<1>3. RoomsIInv /\ [RoomsNext]_roomsVars => RoomsIInv'
  BY NextIInv
<1>4. QED
  BY <1>1, <1>2, <1>3, PTL DEF RoomsSpec
=============================================================================
