-------------------------- MODULE FlowRouterProofs --------------------------
(* Proofs about FlowRouter, for every value of its constants: keys stay in *)
(* order, and a stop loses nothing.                                        *)
EXTENDS FlowRouter, TLAPS

-----------------------------------------------------------------------------
(* The inductive invariant *)

Messages == Keys \X Submitters \X Nat

SubRecords ==
  [pc : {"emit", "submit", "inside", "exit"}, left : Int, n : Nat, msg : Messages \cup {None}]

LaneRecords == [pc : {"run", "draining", "exit"}, msg : Messages \cup {None}]

Shape ==
  /\ sub \in [Submitters -> SubRecords]
  /\ queue \in [Lanes -> Seq(Messages)]
  /\ lane \in [Lanes -> LaneRecords]
  /\ stop \in [Stoppers -> {"idle", "pumps", "lock", "wait", "done", "failed"}]
  /\ cancelled \in BOOLEAN /\ quit \in BOOLEAN /\ released \in BOOLEAN
  /\ sent \in [Keys -> Seq(Messages)] /\ done \in [Keys -> Seq(Messages)]

\* A submitter numbers its messages: what it holds inside Submit is its latest
\* and not yet among what its key was sent.
Numbered ==
  /\ \A k \in Keys : \A i \in 1..Len(sent[k]) :
       sent[k][i][1] = k /\ sent[k][i][3] <= sub[sent[k][i][2]].n
  /\ \A x \in Submitters : sub[x].pc = "inside" =>
       /\ sub[x].msg \in Messages /\ sub[x].msg[2] = x /\ sub[x].msg[3] = sub[x].n
       /\ \A i \in 1..Len(sent[sub[x].msg[1]]) : sent[sub[x].msg[1]][i] # sub[x].msg

Distinct == \A k \in Keys : \A i, j \in 1..Len(sent[k]) : sent[k][i] = sent[k][j] => i = j

Processed ==
  \A k \in Keys : /\ Len(done[k]) <= Len(sent[k])
                  /\ \A i \in 1..Len(done[k]) : done[k][i] = sent[k][i]

\* A message waits as the i-th of its key.
Waits(m, i) ==
  i \in Len(done[m[1]]) + 1..Len(sent[m[1]]) /\ sent[m[1]][i] = m

Behind(l, k, i) == lane[l].msg # None /\ lane[l].msg[1] = k => i # Len(done[k]) + 1

\* What a lane processes is the next message of its key.
InLane ==
  \A l \in Lanes : lane[l].msg # None =>
    /\ LaneOf[lane[l].msg[1]] = l
    /\ Waits(lane[l].msg, Len(done[lane[l].msg[1]]) + 1)

\* What a lane has buffered is still to be processed, behind what it processes.
InQueue ==
  \A l \in Lanes : \A p \in 1..Len(queue[l]) :
    /\ LaneOf[queue[l][p][1]] = l
    /\ \E i \in Nat : Waits(queue[l][p], i) /\ Behind(l, queue[l][p][1], i)

\* Nothing that is still to be processed is anywhere else.
Covered ==
  \A k \in Keys : \A i \in Len(done[k]) + 1..Len(sent[k]) :
    \/ i = Len(done[k]) + 1 /\ lane[LaneOf[k]].msg = sent[k][i]
    \/ \E p \in 1..Len(queue[LaneOf[k]]) : queue[LaneOf[k]][p] = sent[k][i]

Ordered ==
  \A l \in Lanes : \A p, q \in 1..Len(queue[l]) : \A k \in Keys : \A i, j \in 1..Len(sent[k]) :
    p < q /\ sent[k][i] = queue[l][p] /\ sent[k][j] = queue[l][q] => i < j

\* The order of a stop: pumps, router, lanes, blocks.
Stopping ==
  /\ quit => Readers = {}
  /\ \A l \in Lanes : lane[l].pc # "run" => quit
  /\ \A l \in Lanes : lane[l].pc = "exit" => queue[l] = <<>> /\ lane[l].msg = None
  /\ \A s \in Stoppers : stop[s] # "idle" => cancelled
  /\ \A s \in Stoppers : stop[s] \in {"lock", "wait", "done", "failed"} => PumpsDone
  /\ \A s \in Stoppers : stop[s] = "done" => released
  /\ released => PumpsDone /\ LanesDone

OrderInv == Shape /\ Numbered /\ Distinct /\ Processed /\ InLane /\ InQueue /\ Covered /\ Ordered

IInv == OrderInv /\ Stopping

-----------------------------------------------------------------------------
(* Submitters *)

LEMMA NoneIsNoMessage == None \notin Messages
BY FlowAssumption DEF Messages

LEMMA InitIInv == Init => IInv
<1> SUFFICES ASSUME Init PROVE IInv
  OBVIOUS
<1>1. Shape
  <2>1. sub \in [Submitters -> SubRecords]
    BY DEF Init, SubRecords
  <2>2. lane \in [Lanes -> LaneRecords]
    BY DEF Init, LaneRecords
  <2>3. <<>> \in Seq(Messages)
    OBVIOUS
  <2>4. /\ queue \in [Lanes -> Seq(Messages)]
        /\ sent \in [Keys -> Seq(Messages)] /\ done \in [Keys -> Seq(Messages)]
    BY <2>3 DEF Init
  <2>5. stop \in [Stoppers -> {"idle", "pumps", "lock", "wait", "done", "failed"}]
    BY DEF Init
  <2>6. cancelled \in BOOLEAN /\ quit \in BOOLEAN /\ released \in BOOLEAN
    BY ZenonT(30) DEF Init
  <2>7. QED
    BY <2>1, <2>2, <2>4, <2>5, <2>6 DEF Shape
<1>2. Numbered /\ Distinct /\ Processed /\ InLane /\ InQueue /\ Covered /\ Ordered
  BY DEF Init, Numbered, Distinct, Processed, InLane, InQueue, Covered, Ordered
<1>3. Stopping
  BY DEF Init, Stopping, Readers
<1>4. QED
  BY <1>1, <1>2, <1>3 DEF IInv, OrderInv

\* One submitter goes on; if it enters Submit, then with a number of its own.
LEMMA SubmitterMoves ==
  ASSUME Shape, Numbered, sent' = sent, NEW x \in Submitters, NEW rec \in SubRecords,
         sub' = [sub EXCEPT ![x] = rec], rec.n >= sub[x].n,
         rec.pc = "inside" => /\ rec.msg \in Messages /\ rec.msg[2] = x
                              /\ rec.msg[3] = rec.n /\ rec.n > sub[x].n
  PROVE  Numbered' /\ sub' \in [Submitters -> SubRecords]
<1>1. sub' \in [Submitters -> SubRecords] /\ sub'[x] = rec /\ \A y \in Submitters : y # x => sub'[y] = sub[y]
  BY DEF Shape
<1>2. \A y \in Submitters : sub[y].n \in Nat /\ sub'[y].n \in Nat /\ sub[y].n <= sub'[y].n
  BY <1>1 DEF Shape, SubRecords
<1>3. ASSUME NEW k \in Keys, NEW i \in 1..Len(sent[k])
      PROVE  /\ sent[k][i] \in Messages /\ sent[k][i][2] \in Submitters /\ sent[k][i][3] \in Nat
             /\ sent[k][i][1] = k /\ sent[k][i][3] <= sub[sent[k][i][2]].n
  <2>1. sent[k][i] \in Messages
    BY DEF Shape
  <2>2. sent[k][i][2] \in Submitters /\ sent[k][i][3] \in Nat
    BY <2>1 DEF Messages
  <2>3. QED
    BY <2>1, <2>2 DEF Numbered
<1>4. ASSUME NEW k \in Keys, NEW i \in 1..Len(sent[k])
      PROVE  sent[k][i][1] = k /\ sent[k][i][3] <= sub'[sent[k][i][2]].n
  <2>1. sub[sent[k][i][2]].n <= sub'[sent[k][i][2]].n /\ sub[sent[k][i][2]].n \in Nat /\ sub'[sent[k][i][2]].n \in Nat
    BY <1>2, <1>3
  <2>2. sent[k][i][3] <= sub[sent[k][i][2]].n /\ sent[k][i][3] \in Nat /\ sent[k][i][1] = k
    BY <1>3
  <2>3. QED
    BY <2>1, <2>2
<1>5. ASSUME NEW y \in Submitters, sub'[y].pc = "inside"
      PROVE  /\ sub'[y].msg \in Messages /\ sub'[y].msg[2] = y /\ sub'[y].msg[3] = sub'[y].n
             /\ \A i \in 1..Len(sent[sub'[y].msg[1]]) : sent[sub'[y].msg[1]][i] # sub'[y].msg
  <2>1. CASE y # x
    BY <1>1, <1>5, <2>1 DEF Numbered
  <2>2. CASE y = x
    <3>1. rec.msg \in Messages /\ rec.msg[2] = x /\ rec.msg[3] = rec.n /\ rec.n > sub[x].n /\ rec.n \in Nat /\ sub[x].n \in Nat
      BY <1>1, <1>2, <1>5, <2>2
    <3>2. rec.msg[1] \in Keys
      BY <3>1 DEF Messages
    <3>3. ASSUME NEW i \in 1..Len(sent[rec.msg[1]]), sent[rec.msg[1]][i] = rec.msg
          PROVE  FALSE
      <4>1. sent[rec.msg[1]][i][3] <= sub[sent[rec.msg[1]][i][2]].n
        BY <1>3, <3>2
      <4>2. rec.msg[3] <= sub[rec.msg[2]].n
        BY <3>3, <4>1
      <4>3. QED
        BY <3>1, <4>2
    <3>4. QED
      BY <1>1, <2>2, <3>1, <3>3
  <2>3. QED
    BY <2>1, <2>2
<1>6. QED
  BY <1>1, <1>4, <1>5 DEF Numbered

\* Nothing moves between submitters, lanes and graph.
Calm ==
  /\ queue' = queue /\ sent' = sent /\ done' = done
  /\ lane' \in [Lanes -> LaneRecords]
  /\ \A l \in Lanes : lane'[l].msg = lane[l].msg
  /\ stop' \in [Stoppers -> {"idle", "pumps", "lock", "wait", "done", "failed"}]
  /\ cancelled' \in BOOLEAN /\ quit' \in BOOLEAN /\ released' \in BOOLEAN

LEMMA CalmStep ==
  ASSUME OrderInv, Calm, sub' \in [Submitters -> SubRecords], Numbered'
  PROVE  OrderInv'
<1>1. Shape'
  BY DEF OrderInv, Shape, Calm
<1>2. Distinct' /\ Processed'
  BY DEF OrderInv, Distinct, Processed, Calm
<1>3. InLane'
  <2>1. \A l \in Lanes, i \in Nat : Waits(lane[l].msg, i) => Waits(lane[l].msg, i)'
    BY DEF Waits, Calm
  <2>2. QED
    BY <2>1, ZenonT(30) DEF OrderInv, InLane, Calm, Waits
<1>4. InQueue'
  <2> SUFFICES ASSUME NEW l \in Lanes, NEW p \in 1..Len(queue[l])
               PROVE  /\ LaneOf[queue[l][p][1]] = l
                      /\ \E i \in Nat : Waits(queue[l][p], i)' /\ Behind(l, queue[l][p][1], i)'
    BY DEF InQueue, Calm
  <2>1. PICK i \in Nat : Waits(queue[l][p], i) /\ Behind(l, queue[l][p][1], i)
    BY DEF OrderInv, InQueue
  <2>2. Waits(queue[l][p], i)'
    BY <2>1 DEF Waits, Calm
  <2>3. Behind(l, queue[l][p][1], i)'
    BY <2>1 DEF Behind, Calm
  <2>4. QED
    BY <2>1, <2>2, <2>3 DEF OrderInv, InQueue
<1>5. Covered'
  <2>1. \A k \in Keys : LaneOf[k] \in Lanes
    BY FlowAssumption
  <2>2. QED
    BY <2>1 DEF OrderInv, Covered, Calm
<1>6. Ordered'
  BY DEF OrderInv, Ordered, Calm
<1>7. QED
  BY <1>1, <1>2, <1>3, <1>4, <1>5, <1>6 DEF OrderInv

LEMMA CalmFrame ==
  ASSUME OrderInv, UNCHANGED <<queue, lane, stop, cancelled, quit, released, sent, done>>
  PROVE  Calm
BY DEF OrderInv, Shape, Calm

LEMMA EmitOrder ==
  ASSUME OrderInv, NEW x \in Submitters, Emit(x) \/ PumpExits(x)
  PROVE  OrderInv'
<1>1. sub[x] \in SubRecords /\ sub[x].n \in Nat
  BY DEF OrderInv, Shape, SubRecords
<1>2. PICK rec \in SubRecords : sub' = [sub EXCEPT ![x] = rec] /\ rec.n = sub[x].n /\ rec.pc # "inside"
  <2>1. CASE Emit(x)
    <3>1. PICK b \in 1..MaxBatch : sub' = [sub EXCEPT ![x].pc = "submit", ![x].left = b]
      BY <2>1, ZenonT(30) DEF Emit
    <3> DEFINE rec == [sub[x] EXCEPT !.pc = "submit", !.left = b]
    <3>2. rec \in SubRecords /\ rec.n = sub[x].n /\ rec.pc = "submit"
      <4>1. b \in Int
        BY FlowAssumption
      <4>2. QED
        BY <1>1, <4>1, ZenonT(30) DEF SubRecords
    <3>3. sub' = [sub EXCEPT ![x] = rec]
      BY <3>1, ZenonT(30) DEF OrderInv, Shape
    <3> HIDE DEF rec
    <3>4. QED
      BY <3>2, <3>3, ZenonT(30)
  <2>2. CASE PumpExits(x)
    <3> DEFINE rec == [sub[x] EXCEPT !.pc = "exit"]
    <3>1. rec \in SubRecords /\ rec.n = sub[x].n /\ rec.pc = "exit"
      BY <1>1 DEF SubRecords
    <3>2. sub' = [sub EXCEPT ![x] = rec]
      BY <2>2 DEF PumpExits
    <3> HIDE DEF rec
    <3>3. QED
      BY <3>1, <3>2, ZenonT(30)
  <2>3. QED
    BY <2>1, <2>2
<1>3. UNCHANGED <<queue, lane, stop, cancelled, quit, released, sent, done>>
  BY DEF Emit, PumpExits
<1>4. Numbered' /\ sub' \in [Submitters -> SubRecords]
  <2>1. rec.n >= sub[x].n
    BY <1>1, <1>2
  <2>2. QED
    BY <1>2, <1>3, <2>1, SubmitterMoves, ZenonT(30) DEF OrderInv
<1>5. QED
  BY <1>3, <1>4, CalmFrame, CalmStep

LEMMA SubmittedShape ==
  ASSUME Shape, NEW x \in Submitters
  PROVE  Submitted(x) \in SubRecords /\ Submitted(x).n = sub[x].n /\ Submitted(x).pc \in {"emit", "submit"}
<1>1. sub[x] \in SubRecords /\ sub[x].left - 1 \in Int
  BY DEF Shape, SubRecords
<1>2. QED
  BY <1>1, ZenonT(30) DEF Submitted, SubRecords

LEMMA EntersOrder ==
  ASSUME OrderInv, NEW x \in Submitters, SubmitEnters(x)
  PROVE  OrderInv'
<1>1. sub[x] \in SubRecords /\ sub[x].n \in Nat
  BY DEF OrderInv, Shape, SubRecords
<1>2. PICK k \in Keys :
        sub' = [sub EXCEPT ![x] = IF quit THEN [Submitted(x) EXCEPT !.n = @ + 1]
                                  ELSE [sub[x] EXCEPT !.pc = "inside", !.n = @ + 1,
                                                      !.msg = <<k, x, sub[x].n + 1>>]]
  BY ZenonT(30) DEF SubmitEnters
<1> DEFINE m == <<k, x, sub[x].n + 1>>
           swallowed == [Submitted(x) EXCEPT !.n = @ + 1]
           inside == [sub[x] EXCEPT !.pc = "inside", !.n = @ + 1, !.msg = m]
           rec == IF quit THEN swallowed ELSE inside
<1>3. m \in Messages /\ m[2] = x /\ m[3] = sub[x].n + 1
  BY <1>1 DEF Messages
<1>4. swallowed \in SubRecords /\ swallowed.n = sub[x].n + 1 /\ swallowed.pc # "inside"
  BY <1>1, SubmittedShape DEF OrderInv, SubRecords
<1>5. inside \in SubRecords /\ inside.n = sub[x].n + 1 /\ inside.msg = m
  <2>1. m \in Messages \cup {None} /\ sub[x].n + 1 \in Nat
    BY <1>1, <1>3
  <2> HIDE DEF m
  <2>2. inside = [sub[x] EXCEPT !.pc = "inside", !.n = sub[x].n + 1, !.msg = m]
    BY <1>1
  <2> HIDE DEF inside, m
  <2>3. PICK r \in SubRecords, n \in Nat, e \in Messages \cup {None} : r = sub[x] /\ n = sub[x].n + 1 /\ e = m
    BY <1>1, <2>1
  <2>4. inside = [r EXCEPT !.pc = "inside", !.n = n, !.msg = e]
    BY <2>2, <2>3
  <2>5. inside \in SubRecords /\ inside.n = n /\ inside.msg = e
    BY <2>4, ZenonT(30) DEF SubRecords
  <2>6. QED
    BY <2>3, <2>5
<1>6. sub' = [sub EXCEPT ![x] = rec]
  BY <1>2
<1> HIDE DEF m, swallowed, inside
<1>7. /\ rec \in SubRecords /\ rec.n >= sub[x].n
      /\ rec.pc = "inside" => /\ rec.msg \in Messages /\ rec.msg[2] = x
                              /\ rec.msg[3] = rec.n /\ rec.n > sub[x].n
  BY <1>1, <1>3, <1>4, <1>5
<1>8. UNCHANGED <<queue, lane, stop, cancelled, quit, released, sent, done>>
  BY DEF SubmitEnters
<1> HIDE DEF rec
<1>9. Numbered' /\ sub' \in [Submitters -> SubRecords]
  BY <1>6, <1>7, <1>8, SubmitterMoves, ZenonT(30) DEF OrderInv
<1>10. QED
  BY <1>8, <1>9, CalmFrame, CalmStep

\* What a lane has buffered is among what its key was sent.
LEMMA Buffered ==
  ASSUME OrderInv, NEW l \in Lanes, NEW p \in 1..Len(queue[l])
  PROVE  /\ queue[l][p] \in Messages /\ queue[l][p][1] \in Keys /\ LaneOf[queue[l][p][1]] = l
         /\ \E i \in 1..Len(sent[queue[l][p][1]]) : sent[queue[l][p][1]][i] = queue[l][p]
<1>1. queue[l][p] \in Messages
  BY DEF OrderInv, Shape
<1>2. queue[l][p][1] \in Keys
  BY <1>1 DEF Messages
<1>3. LaneOf[queue[l][p][1]] = l
  BY DEF OrderInv, InQueue
<1>4. PICK i \in Nat : Waits(queue[l][p], i)
  BY DEF OrderInv, InQueue
<1>5. done[queue[l][p][1]] \in Seq(Messages) /\ sent[queue[l][p][1]] \in Seq(Messages)
  BY <1>2 DEF OrderInv, Shape
<1>6. i \in 1..Len(sent[queue[l][p][1]]) /\ sent[queue[l][p][1]][i] = queue[l][p]
  BY <1>4, <1>5 DEF Waits
<1>7. QED
  BY <1>1, <1>2, <1>3, <1>6

\* A message tells its key.
LEMMA SentOf ==
  ASSUME OrderInv, NEW k \in Keys, NEW i \in 1..Len(sent[k])
  PROVE  sent[k][i] \in Messages /\ sent[k][i][1] = k /\ sent[k][i] # None
<1>1. sent[k][i] \in Messages
  BY DEF OrderInv, Shape
<1>2. QED
  BY <1>1, NoneIsNoMessage DEF OrderInv, Numbered

LEMMA AppendAt ==
  ASSUME NEW S, NEW s \in Seq(S), NEW e \in S
  PROVE  /\ Len(Append(s, e)) = Len(s) + 1 /\ Append(s, e)[Len(s) + 1] = e
         /\ \A i \in 1..Len(s) : Append(s, e)[i] = s[i]
OBVIOUS

\* A lane takes a message its key was not sent before: the last of its lane and
\* of its key.
Accepts(m) ==
  /\ queue' = [queue EXCEPT ![LaneOf[m[1]]] = Append(@, m)]
  /\ sent' = [sent EXCEPT ![m[1]] = Append(@, m)]
  /\ lane' = lane /\ done' = done

LEMMA AcceptedKeys ==
  ASSUME OrderInv, NEW m \in Messages, Accepts(m)
  PROVE  /\ m[1] \in Keys /\ LaneOf[m[1]] \in Lanes
         /\ sent' \in [Keys -> Seq(Messages)] /\ queue' \in [Lanes -> Seq(Messages)]
         /\ \A k \in Keys : /\ Len(sent[k]) \in Nat /\ Len(sent'[k]) \in Nat
                            /\ Len(sent'[k]) = IF k = m[1] THEN Len(sent[k]) + 1 ELSE Len(sent[k])
         /\ \A k \in Keys : \A i \in 1..Len(sent[k]) : sent'[k][i] = sent[k][i]
         /\ sent'[m[1]][Len(sent[m[1]]) + 1] = m
         /\ \A l \in Lanes : /\ Len(queue[l]) \in Nat /\ Len(queue'[l]) \in Nat
                             /\ Len(queue'[l]) = IF l = LaneOf[m[1]] THEN Len(queue[l]) + 1 ELSE Len(queue[l])
         /\ \A l \in Lanes : \A p \in 1..Len(queue[l]) : queue'[l][p] = queue[l][p]
         /\ queue'[LaneOf[m[1]]][Len(queue[LaneOf[m[1]]]) + 1] = m
<1>1. m[1] \in Keys
  BY DEF Messages
<1>2. LaneOf[m[1]] \in Lanes
  BY <1>1, FlowAssumption
<1> DEFINE k0 == m[1]
           l0 == LaneOf[m[1]]
<1>3. sent[k0] \in Seq(Messages) /\ queue[l0] \in Seq(Messages)
  BY <1>1, <1>2 DEF OrderInv, Shape
<1>4. Append(sent[k0], m) \in Seq(Messages) /\ Append(queue[l0], m) \in Seq(Messages)
  BY <1>3
<1>5. /\ sent' = [sent EXCEPT ![k0] = Append(sent[k0], m)]
      /\ queue' = [queue EXCEPT ![l0] = Append(queue[l0], m)]
  BY DEF Accepts
<1>6. /\ sent \in [Keys -> Seq(Messages)] /\ queue \in [Lanes -> Seq(Messages)]
  BY DEF OrderInv, Shape
<1>7. k0 \in Keys /\ l0 \in Lanes
  BY <1>1, <1>2
<1> HIDE DEF k0, l0
<1>8. /\ sent' \in [Keys -> Seq(Messages)] /\ queue' \in [Lanes -> Seq(Messages)]
      /\ sent'[k0] = Append(sent[k0], m) /\ \A k \in Keys : k # k0 => sent'[k] = sent[k]
      /\ queue'[l0] = Append(queue[l0], m) /\ \A l \in Lanes : l # l0 => queue'[l] = queue[l]
  BY <1>4, <1>5, <1>6, <1>7
<1>9. \A k \in Keys : /\ Len(sent[k]) \in Nat /\ Len(sent'[k]) \in Nat
                      /\ Len(sent'[k]) = IF k = k0 THEN Len(sent[k]) + 1 ELSE Len(sent[k])
  BY <1>3, <1>6, <1>8
<1>10. \A k \in Keys : \A i \in 1..Len(sent[k]) : sent'[k][i] = sent[k][i]
  <2>1. \A i \in 1..Len(sent[k0]) : sent'[k0][i] = sent[k0][i]
    BY <1>3, <1>8, AppendAt
  <2>2. QED
    BY <1>8, <2>1, ZenonT(30)
<1>11. sent'[k0][Len(sent[k0]) + 1] = m
  BY <1>3, <1>8
<1>12. \A l \in Lanes : /\ Len(queue[l]) \in Nat /\ Len(queue'[l]) \in Nat
                        /\ Len(queue'[l]) = IF l = l0 THEN Len(queue[l]) + 1 ELSE Len(queue[l])
  BY <1>3, <1>6, <1>8
<1>13. \A l \in Lanes : \A p \in 1..Len(queue[l]) : queue'[l][p] = queue[l][p]
  <2>1. \A p \in 1..Len(queue[l0]) : queue'[l0][p] = queue[l0][p]
    BY <1>3, <1>8, AppendAt
  <2>2. QED
    BY <1>8, <2>1, ZenonT(30)
<1>14. queue'[l0][Len(queue[l0]) + 1] = m
  BY <1>3, <1>8
<1>15. QED
  BY <1>7, <1>8, <1>9, <1>10, <1>11, <1>12, <1>13, <1>14 DEF k0, l0

LEMMA DoneLengths ==
  ASSUME OrderInv, NEW k \in Keys
  PROVE  Len(done[k]) \in Nat /\ Len(sent[k]) \in Nat /\ Len(done[k]) <= Len(sent[k])
<1>1. done[k] \in Seq(Messages) /\ sent[k] \in Seq(Messages)
  BY DEF OrderInv, Shape
<1>2. QED
  BY <1>1 DEF OrderInv, Processed

LEMMA AcceptedOrder ==
  ASSUME OrderInv, NEW m \in Messages, Accepts(m),
         \A i \in 1..Len(sent[m[1]]) : sent[m[1]][i] # m
  PROVE  Distinct' /\ Processed' /\ InLane' /\ InQueue' /\ Covered' /\ Ordered'
<1> DEFINE k0 == m[1]
           l0 == LaneOf[m[1]]
<1>1. k0 \in Keys /\ l0 \in Lanes /\ lane' = lane /\ done' = done
  BY AcceptedKeys, ZenonT(30) DEF Accepts
<1>2. \A k \in Keys : /\ Len(sent[k]) \in Nat /\ Len(sent'[k]) \in Nat
                      /\ Len(sent'[k]) = IF k = k0 THEN Len(sent[k]) + 1 ELSE Len(sent[k])
  BY AcceptedKeys
<1>3. /\ \A k \in Keys : \A i \in 1..Len(sent[k]) : sent'[k][i] = sent[k][i]
      /\ sent'[k0][Len(sent[k0]) + 1] = m
  BY AcceptedKeys
<1>4. \A l \in Lanes : /\ Len(queue[l]) \in Nat /\ Len(queue'[l]) \in Nat
                       /\ Len(queue'[l]) = IF l = l0 THEN Len(queue[l]) + 1 ELSE Len(queue[l])
  BY AcceptedKeys
<1>5. /\ \A l \in Lanes : \A p \in 1..Len(queue[l]) : queue'[l][p] = queue[l][p]
      /\ queue'[l0][Len(queue[l0]) + 1] = m
  BY AcceptedKeys
<1>6. \A i \in 1..Len(sent[k0]) : sent[k0][i] # m
  OBVIOUS
<1>7. \A k \in Keys : Len(done[k]) \in Nat /\ Len(done[k]) <= Len(sent[k])
  BY DoneLengths
<1>8. l0 = LaneOf[k0]
  OBVIOUS
\* Positions before and after.
<1>9. ASSUME NEW k \in Keys, NEW i \in 1..Len(sent'[k])
      PROVE  \/ i \in 1..Len(sent[k]) /\ sent'[k][i] = sent[k][i]
             \/ k = k0 /\ i = Len(sent[k0]) + 1 /\ sent'[k][i] = m
  <2>1. CASE i \in 1..Len(sent[k])
    BY <1>3, <2>1
  <2>2. CASE i \notin 1..Len(sent[k])
    <3>1. k = k0 /\ i = Len(sent[k0]) + 1
      BY <1>2, <2>2
    <3>2. QED
      BY <1>3, <3>1
  <2>3. QED
    BY <2>1, <2>2
<1>10. ASSUME NEW l \in Lanes, NEW p \in 1..Len(queue'[l])
       PROVE  \/ p \in 1..Len(queue[l]) /\ queue'[l][p] = queue[l][p]
              \/ l = l0 /\ p = Len(queue[l0]) + 1 /\ queue'[l][p] = m
  <2>1. CASE p \in 1..Len(queue[l])
    BY <1>5, <2>1
  <2>2. CASE p \notin 1..Len(queue[l])
    <3>1. l = l0 /\ p = Len(queue[l0]) + 1
      BY <1>4, <2>2
    <3>2. QED
      BY <1>5, <3>1
  <2>3. QED
    BY <2>1, <2>2
<1>11. \A k \in Keys : \A i \in 1..Len(sent[k]) : sent[k][i] = m => FALSE
  <2>1. SUFFICES ASSUME NEW k \in Keys, NEW i \in 1..Len(sent[k]), sent[k][i] = m PROVE FALSE
    OBVIOUS
  <2>2. k = k0
    BY <2>1, SentOf
  <2>3. QED
    BY <1>6, <2>1, <2>2
<1>12. \A l \in Lanes : \A p \in 1..Len(queue[l]) : queue[l][p] # m
  BY <1>11, Buffered
<1>13. \A q : q[1] \in Keys => \A i \in Nat : Waits(q, i) => Waits(q, i)'
  <2> SUFFICES ASSUME NEW q, q[1] \in Keys, NEW i \in Nat, Waits(q, i)
               PROVE  Waits(q, i)'
    OBVIOUS
  <2>1. i \in Len(done[q[1]]) + 1..Len(sent[q[1]]) /\ sent[q[1]][i] = q
    BY DEF Waits
  <2>2. i \in 1..Len(sent[q[1]]) /\ i \in Len(done[q[1]]) + 1..Len(sent'[q[1]])
    BY <1>2, <1>7, <2>1
  <2>3. sent'[q[1]][i] = q
    BY <1>3, <2>1, <2>2
  <2>4. QED
    BY <1>1, <2>2, <2>3 DEF Waits
<1> HIDE DEF k0, l0
<1>14. Distinct'
  <2> SUFFICES ASSUME NEW k \in Keys, NEW i \in 1..Len(sent'[k]), NEW j \in 1..Len(sent'[k]),
                      sent'[k][i] = sent'[k][j]
               PROVE  i = j
    BY DEF Distinct
  <2>1. CASE i \in 1..Len(sent[k]) /\ j \in 1..Len(sent[k])
    BY <1>3, <2>1 DEF OrderInv, Distinct
  <2>2. QED
    BY <1>9, <1>11, <2>1
<1>15. Processed'
  <2> SUFFICES ASSUME NEW k \in Keys
               PROVE  /\ Len(done[k]) <= Len(sent'[k])
                      /\ \A i \in 1..Len(done[k]) : done[k][i] = sent'[k][i]
    BY <1>1 DEF Processed
  <2>1. Len(done[k]) <= Len(sent'[k])
    BY <1>2, <1>7
  <2>2. ASSUME NEW i \in 1..Len(done[k])
        PROVE  done[k][i] = sent'[k][i]
    <3>1. i \in 1..Len(sent[k])
      BY <1>2, <1>7
    <3>2. QED
      BY <1>3, <3>1 DEF OrderInv, Processed
  <2>3. QED
    BY <2>1, <2>2
<1>16. InLane'
  <2> SUFFICES ASSUME NEW l \in Lanes, lane[l].msg # None
               PROVE  /\ LaneOf[lane[l].msg[1]] = l
                      /\ Waits(lane[l].msg, Len(done[lane[l].msg[1]]) + 1)'
    BY <1>1 DEF InLane
  <2>1. lane[l].msg[1] \in Keys
    BY DEF OrderInv, Shape, LaneRecords, Messages
  <2>2. Len(done[lane[l].msg[1]]) + 1 \in Nat
    BY <1>7, <2>1
  <2>3. PICK q : q = lane[l].msg
    OBVIOUS
  <2>4. PICK i \in Nat : i = Len(done[q[1]]) + 1
    BY <2>2, <2>3
  <2>5. Waits(q, i)'
    BY <1>13, <2>1, <2>3, <2>4 DEF OrderInv, InLane
  <2>6. QED
    BY <1>1, <2>3, <2>4, <2>5 DEF OrderInv, InLane, Waits
<1>17. InQueue'
  <2> SUFFICES ASSUME NEW l \in Lanes, NEW p \in 1..Len(queue'[l]), NEW q, q = queue'[l][p]
               PROVE  /\ LaneOf[q[1]] = l
                      /\ \E i \in Nat : Waits(q, i)' /\ Behind(l, q[1], i)'
    BY DEF InQueue
  <2>1. CASE p \in 1..Len(queue[l]) /\ queue'[l][p] = queue[l][p]
    <3>1. q[1] \in Keys /\ LaneOf[q[1]] = l
      BY <2>1, Buffered
    <3>2. PICK i \in Nat : Waits(q, i) /\ Behind(l, q[1], i)
      BY <2>1 DEF OrderInv, InQueue
    <3>3. Waits(q, i)'
      BY <1>13, <3>1, <3>2
    <3>4. Behind(l, q[1], i)'
      BY <1>1, <3>2 DEF Behind
    <3>5. QED
      BY <3>1, <3>3, <3>4
  <2>2. CASE l = l0 /\ queue'[l][p] = m
    <3>1. q = m /\ q[1] = k0 /\ LaneOf[q[1]] = l
      BY <1>8, <2>2 DEF k0
    <3>2. PICK i \in Nat : i = Len(sent[k0]) + 1 /\ i \in Len(done[k0]) + 1..Len(sent'[k0])
      BY <1>1, <1>2, <1>7
    <3>3. Waits(q, i)'
      BY <1>1, <1>3, <3>1, <3>2 DEF Waits
    <3>4. Behind(l, q[1], i)'
      <4> SUFFICES ASSUME lane[l].msg # None, lane[l].msg[1] = k0
                   PROVE  i # Len(done[k0]) + 1
        BY <1>1, <3>1 DEF Behind
      <4>1. Len(done[k0]) + 1 \in Len(done[k0]) + 1..Len(sent[k0])
        BY DEF OrderInv, InLane, Waits
      <4>2. QED
        BY <1>1, <1>2, <1>7, <3>2, <4>1
    <3>5. QED
      BY <3>1, <3>2, <3>3, <3>4
  <2>3. QED
    BY <1>10, <2>1, <2>2
<1>18. Covered'
  <2> SUFFICES ASSUME NEW k \in Keys, NEW i \in Len(done[k]) + 1..Len(sent'[k])
               PROVE  \/ i = Len(done[k]) + 1 /\ lane[LaneOf[k]].msg = sent'[k][i]
                      \/ \E p \in 1..Len(queue'[LaneOf[k]]) : queue'[LaneOf[k]][p] = sent'[k][i]
    BY <1>1, ZenonT(30) DEF Covered
  <2>1. i \in 1..Len(sent'[k])
    BY <1>2, <1>7
  <2>2. LaneOf[k] \in Lanes
    BY FlowAssumption
  <2>3. CASE i \in 1..Len(sent[k]) /\ sent'[k][i] = sent[k][i]
    <3>1. i \in Len(done[k]) + 1..Len(sent[k])
      BY <1>2, <1>7, <2>3
    <3>2. \/ i = Len(done[k]) + 1 /\ lane[LaneOf[k]].msg = sent[k][i]
          \/ \E p \in 1..Len(queue[LaneOf[k]]) : queue[LaneOf[k]][p] = sent[k][i]
      BY <3>1 DEF OrderInv, Covered
    <3>3. \A p \in 1..Len(queue[LaneOf[k]]) : p \in 1..Len(queue'[LaneOf[k]])
      BY <1>4, <2>2
    <3>4. QED
      BY <1>5, <2>2, <2>3, <3>2, <3>3
  <2>4. CASE k = k0 /\ sent'[k][i] = m
    <3>1. LaneOf[k] = l0 /\ Len(queue[l0]) + 1 \in 1..Len(queue'[l0])
      BY <1>1, <1>4, <1>8, <2>4
    <3>2. QED
      BY <1>5, <2>4, <3>1
  <2>5. QED
    BY <1>9, <2>1, <2>3, <2>4
<1>19. Ordered'
  <2> SUFFICES ASSUME NEW l \in Lanes, NEW p \in 1..Len(queue'[l]), NEW q \in 1..Len(queue'[l]),
                      NEW k \in Keys, NEW i \in 1..Len(sent'[k]), NEW j \in 1..Len(sent'[k]),
                      p < q, sent'[k][i] = queue'[l][p], sent'[k][j] = queue'[l][q]
               PROVE  i < j
    BY DEF Ordered
  <2>1. p \in 1..Len(queue[l]) /\ queue'[l][p] = queue[l][p]
    BY <1>4, <1>10
  <2>2. i \in 1..Len(sent[k]) /\ sent'[k][i] = sent[k][i]
    BY <1>9, <1>12, <2>1
  <2>3. CASE q \in 1..Len(queue[l]) /\ queue'[l][q] = queue[l][q]
    <3>1. j \in 1..Len(sent[k]) /\ sent'[k][j] = sent[k][j]
      BY <1>9, <1>12, <2>3
    <3>2. QED
      BY <2>1, <2>2, <2>3, <3>1 DEF OrderInv, Ordered
  <2>4. CASE queue'[l][q] = m
    <3>1. k = k0 /\ j = Len(sent[k0]) + 1
      BY <1>9, <1>11, <2>4
    <3>2. QED
      BY <1>2, <2>2, <3>1
  <2>5. QED
    BY <1>10, <2>3, <2>4
<1>20. QED
  BY <1>14, <1>15, <1>16, <1>17, <1>18, <1>19

LEMMA SendsOrder ==
  ASSUME OrderInv, NEW x \in Submitters, SubmitSends(x)
  PROVE  OrderInv'
<1>1. sub' = [sub EXCEPT ![x] = Submitted(x)] /\ sub[x].pc = "inside"
  BY DEF SubmitSends
<1>2. PICK rec \in SubRecords : rec = Submitted(x) /\ rec.n = sub[x].n /\ rec.pc # "inside"
  BY SubmittedShape DEF OrderInv
<1>3. sub[x].n \in Nat
  BY DEF OrderInv, Shape, SubRecords
<1>4. PICK m \in Messages : /\ m = sub[x].msg /\ m[2] = x /\ m[3] = sub[x].n
                            /\ \A i \in 1..Len(sent[m[1]]) : sent[m[1]][i] # m
  BY <1>1 DEF OrderInv, Numbered
<1>5. CASE Len(queue[LaneFor(m[1])]) >= LaneCapacity
  <2>1. UNCHANGED <<queue, lane, stop, cancelled, quit, released, sent, done>>
    BY <1>4, <1>5 DEF SubmitSends
  <2>2. Numbered' /\ sub' \in [Submitters -> SubRecords]
    <3>1. sub' = [sub EXCEPT ![x] = rec] /\ rec.n >= sub[x].n /\ rec.pc # "inside"
      BY <1>1, <1>2, <1>3
    <3>2. QED
      BY <2>1, <3>1, SubmitterMoves, ZenonT(30) DEF OrderInv
  <2>3. QED
    BY <2>1, <2>2, CalmFrame, CalmStep
<1>6. CASE ~(Len(queue[LaneFor(m[1])]) >= LaneCapacity)
  <2>1. Accepts(m) /\ UNCHANGED <<stop, cancelled, quit, released>>
    BY <1>4, <1>6, ZenonT(30) DEF SubmitSends, Accepts, LaneFor
  <2>2. Distinct' /\ Processed' /\ InLane' /\ InQueue' /\ Covered' /\ Ordered'
    BY <1>4, <2>1, AcceptedOrder
  <2>3. sub' \in [Submitters -> SubRecords] /\ sub'[x] = rec /\ \A y \in Submitters : y # x => sub'[y] = sub[y]
    BY <1>1, <1>2 DEF OrderInv, Shape
  <2>4. sent' \in [Keys -> Seq(Messages)] /\ queue' \in [Lanes -> Seq(Messages)]
    BY <2>1, AcceptedKeys
  <2>5. Shape'
    BY <2>1, <2>3, <2>4 DEF Accepts, OrderInv, Shape
  <2>6. ASSUME NEW k \in Keys, NEW i \in 1..Len(sent'[k])
        PROVE  \/ i \in 1..Len(sent[k]) /\ sent'[k][i] = sent[k][i]
               \/ k = m[1] /\ sent'[k][i] = m
    <3>1. CASE i \in 1..Len(sent[k])
      BY <2>1, <3>1, AcceptedKeys, SMTT(30)
    <3>2. CASE i \notin 1..Len(sent[k])
      <4>1. /\ Len(sent[k]) \in Nat
            /\ Len(sent'[k]) = IF k = m[1] THEN Len(sent[k]) + 1 ELSE Len(sent[k])
        BY <2>1, AcceptedKeys
      <4>2. k = m[1] /\ i = Len(sent[m[1]]) + 1
        BY <3>2, <4>1
      <4>3. QED
        BY <2>1, <4>2, AcceptedKeys
    <3>3. QED
      BY <3>1, <3>2
  <2>7. \A y \in Submitters : sub'[y].n = sub[y].n
    BY <1>2, <2>3
  <2>8. ASSUME NEW k \in Keys, NEW i \in 1..Len(sent'[k])
        PROVE  sent'[k][i][1] = k /\ sent'[k][i][3] <= sub'[sent'[k][i][2]].n
    <3>1. CASE i \in 1..Len(sent[k]) /\ sent'[k][i] = sent[k][i]
      <4>1. sent[k][i] \in Messages
        BY <3>1, SentOf
      <4>2. sent[k][i][2] \in Submitters
        BY <4>1 DEF Messages
      <4>3. QED
        BY <2>7, <3>1, <4>2 DEF OrderInv, Numbered
    <3>2. CASE k = m[1] /\ sent'[k][i] = m
      <4>1. m[3] <= sub'[m[2]].n
        BY <1>3, <1>4, <2>7
      <4>2. QED
        BY <3>2, <4>1
    <3>3. QED
      BY <2>6, <3>1, <3>2
  <2>9. ASSUME NEW y \in Submitters, sub'[y].pc = "inside"
        PROVE  /\ sub'[y].msg \in Messages /\ sub'[y].msg[2] = y /\ sub'[y].msg[3] = sub'[y].n
               /\ \A i \in 1..Len(sent'[sub'[y].msg[1]]) : sent'[sub'[y].msg[1]][i] # sub'[y].msg
    <3>1. y # x /\ sub'[y] = sub[y]
      BY <1>2, <2>3, <2>9
    <3>2. PICK w \in Messages : /\ w = sub[y].msg /\ w[2] = y /\ w[3] = sub[y].n
                                /\ \A i \in 1..Len(sent[w[1]]) : sent[w[1]][i] # w
      BY <2>9, <3>1 DEF OrderInv, Numbered
    <3>3. w[1] \in Keys
      BY DEF Messages
    <3>4. w # m
      BY <1>4, <3>1, <3>2
    <3>5. \A i \in 1..Len(sent'[w[1]]) : sent'[w[1]][i] # w
      BY <2>6, <3>2, <3>3, <3>4
    <3>6. QED
      BY <3>1, <3>2, <3>5
  <2>10. Numbered'
    BY <2>8, <2>9 DEF Numbered
  <2>11. QED
    BY <2>2, <2>5, <2>10 DEF OrderInv
<1>7. QED
  BY <1>5, <1>6

-----------------------------------------------------------------------------
(* Lanes *)

LEMMA TailAt ==
  ASSUME NEW S, NEW s \in Seq(S), s # <<>>
  PROVE  /\ Head(s) = s[1] /\ 1 \in 1..Len(s)
         /\ Tail(s) \in Seq(S) /\ Len(Tail(s)) = Len(s) - 1 /\ Len(s) \in Nat
         /\ \A p \in 1..Len(Tail(s)) : p + 1 \in 2..Len(s) /\ Tail(s)[p] = s[p + 1]
OBVIOUS

LEMMA LaneRecord ==
  ASSUME Shape, NEW l \in Lanes, NEW m \in Messages \cup {None}, lane' = [lane EXCEPT ![l].msg = m]
  PROVE  /\ lane' \in [Lanes -> LaneRecords]
         /\ lane'[l].msg = m /\ \A g \in Lanes : g # l => lane'[g] = lane[g]
         /\ \A g \in Lanes : lane'[g].pc = lane[g].pc
<1>1. lane[l] \in LaneRecords
  BY DEF Shape
<1>2. [lane[l] EXCEPT !.msg = m] \in LaneRecords /\ [lane[l] EXCEPT !.msg = m].msg = m
      /\ [lane[l] EXCEPT !.msg = m].pc = lane[l].pc
  BY <1>1 DEF LaneRecords
<1>3. lane' = [lane EXCEPT ![l] = [lane[l] EXCEPT !.msg = m]]
  BY DEF Shape
<1>4. QED
  BY <1>2, <1>3 DEF Shape

\* The head of a lane is the next message of its key.
LEMMA HeadIsNext ==
  ASSUME OrderInv, NEW l \in Lanes, lane[l].msg = None, queue[l] # <<>>
  PROVE  Waits(queue[l][1], Len(done[queue[l][1][1]]) + 1)
<1>1. queue[l] \in Seq(Messages)
  BY DEF OrderInv, Shape
<1>2. 1 \in 1..Len(queue[l]) /\ Len(queue[l]) \in Nat
  BY <1>1, TailAt
<1>3. PICK h \in Messages : h = queue[l][1] /\ h[1] \in Keys /\ LaneOf[h[1]] = l
  BY <1>2, Buffered, ZenonT(30)
<1>4. PICK k \in Keys : k = h[1]
  BY <1>3
<1>5. PICK i \in Nat : Waits(h, i)
  BY <1>2, <1>3 DEF OrderInv, InQueue
<1>6. PICK n \in Nat : n = Len(done[k]) + 1 /\ Len(done[k]) \in Nat /\ Len(sent[k]) \in Nat
  BY DoneLengths
<1>7. i \in n..Len(sent[k]) /\ sent[k][i] = h
  BY <1>4, <1>5, <1>6 DEF Waits
<1>8. n \in 1..Len(sent[k]) /\ n \in Len(done[k]) + 1..Len(sent[k]) /\ i \in 1..Len(sent[k])
  BY <1>6, <1>7
<1>9. ASSUME i # n
      PROVE  FALSE
  <2>1. sent[k][n] # None
    BY <1>8, SentOf
  <2>2. PICK q \in 1..Len(queue[l]) : queue[l][q] = sent[k][n]
    <3>1. \/ lane[LaneOf[k]].msg = sent[k][n]
          \/ \E q \in 1..Len(queue[LaneOf[k]]) : queue[LaneOf[k]][q] = sent[k][n]
      BY <1>8 DEF OrderInv, Covered
    <3>2. LaneOf[k] = l
      BY <1>3, <1>4
    <3>3. QED
      BY <2>1, <3>1, <3>2
  <2>3. q # 1
    BY <1>3, <1>7, <1>8, <1>9, <2>2 DEF OrderInv, Distinct
  <2>4. 1 < q
    BY <1>2, <2>3
  <2>5. i < n
    <3>1. sent[k][i] = queue[l][1] /\ sent[k][n] = queue[l][q]
      BY <1>3, <1>7, <2>2
    <3>2. Ordered
      BY DEF OrderInv
    <3>3. QED
      BY <1>2, <1>8, <2>4, <3>1, <3>2 DEF Ordered
  <2>6. QED
    BY <1>6, <1>7, <2>5
<1>10. QED
  BY <1>3, <1>4, <1>5, <1>6, <1>9

LEMMA ReceivesOrder ==
  ASSUME OrderInv, NEW l \in Lanes, LaneReceives(l)
  PROVE  OrderInv'
<1>1. lane[l].msg = None /\ queue[l] # <<>> /\ queue[l] \in Seq(Messages)
  BY DEF LaneReceives, OrderInv, Shape
<1>2. /\ 1 \in 1..Len(queue[l]) /\ Head(queue[l]) = queue[l][1]
      /\ Tail(queue[l]) \in Seq(Messages) /\ Len(queue[l]) \in Nat
      /\ Len(Tail(queue[l])) = Len(queue[l]) - 1
      /\ \A p \in 1..Len(Tail(queue[l])) : p + 1 \in 2..Len(queue[l]) /\ Tail(queue[l])[p] = queue[l][p + 1]
  BY <1>1, TailAt
<1>3. PICK h \in Messages : h = queue[l][1] /\ h[1] \in Keys /\ LaneOf[h[1]] = l
  BY <1>2, Buffered
<1>4. PICK k0 \in Keys : k0 = h[1]
  BY <1>3
<1>5. PICK n \in Nat : n = Len(done[k0]) + 1
  BY DoneLengths
<1>6. Waits(h, n) /\ n \in 1..Len(sent[k0]) /\ sent[k0][n] = h
  <2>1. Waits(h, n)
    BY <1>1, <1>3, <1>4, <1>5, HeadIsNext
  <2>2. n \in Len(done[k0]) + 1..Len(sent[k0]) /\ sent[k0][n] = h
    BY <1>4, <2>1 DEF Waits
  <2>3. QED
    BY <1>5, <2>1, <2>2, DoneLengths
<1>7. /\ lane' = [lane EXCEPT ![l].msg = h]
      /\ queue' = [queue EXCEPT ![l] = Tail(queue[l])]
      /\ UNCHANGED <<sub, stop, cancelled, quit, released, sent, done>>
  BY <1>2, <1>3 DEF LaneReceives
<1>8. /\ lane' \in [Lanes -> LaneRecords]
      /\ lane'[l].msg = h /\ \A g \in Lanes : g # l => lane'[g] = lane[g]
  BY <1>7, LaneRecord, ZenonT(30) DEF OrderInv
<1>9. /\ queue' \in [Lanes -> Seq(Messages)] /\ queue'[l] = Tail(queue[l])
      /\ \A g \in Lanes : g # l => queue'[g] = queue[g]
  BY <1>2, <1>7 DEF OrderInv, Shape
<1>10. Shape'
  BY <1>7, <1>8, <1>9 DEF OrderInv, Shape
<1>11. Numbered' /\ Distinct' /\ Processed'
  BY <1>7 DEF OrderInv, Numbered, Distinct, Processed
<1>12. \A q, i : Waits(q, i) <=> Waits(q, i)'
  BY <1>7 DEF Waits
<1>13. h # None
  BY NoneIsNoMessage
<1>14. InLane'
  <2> SUFFICES ASSUME NEW g \in Lanes, lane'[g].msg # None, NEW q, q = lane'[g].msg
               PROVE  LaneOf[q[1]] = g /\ Waits(q, Len(done[q[1]]) + 1)'
    BY <1>7 DEF InLane
  <2>1. CASE g = l
    <3>1. q = h
      BY <1>8, <2>1
    <3>2. Waits(q, n)' /\ done' = done
      BY <1>6, <1>7, <1>12, <3>1
    <3>3. QED
      BY <1>3, <1>4, <1>5, <2>1, <3>1, <3>2
  <2>2. CASE g # l
    <3>1. q = lane[g].msg /\ q # None
      BY <1>8, <2>2
    <3>2. LaneOf[q[1]] = g /\ Waits(q, Len(done[q[1]]) + 1)
      BY <3>1 DEF OrderInv, InLane
    <3>3. QED
      BY <1>7, <3>2 DEF Waits
  <2>3. QED
    BY <2>1, <2>2
\* The buffer behind the head.
<1>15. ASSUME NEW g \in Lanes, NEW p \in 1..Len(queue'[g])
       PROVE  \E r \in 1..Len(queue[g]) : /\ queue'[g][p] = queue[g][r]
                                          /\ r = (IF g = l THEN p + 1 ELSE p)
  <2>1. CASE g = l
    <3>1. p + 1 \in 2..Len(queue[l]) /\ queue'[l][p] = queue[l][p + 1] /\ p \in Nat
      BY <1>2, <1>9, <2>1
    <3>2. p + 1 \in 1..Len(queue[l])
      BY <1>2, <3>1
    <3>3. QED
      BY <2>1, <3>1, <3>2
  <2>2. CASE g # l
    BY <1>9, <2>2
  <2>3. QED
    BY <2>1, <2>2
<1>16. InQueue'
  <2> SUFFICES ASSUME NEW g \in Lanes, NEW p \in 1..Len(queue'[g]), NEW q, q = queue'[g][p]
               PROVE  LaneOf[q[1]] = g /\ \E i \in Nat : Waits(q, i)' /\ Behind(g, q[1], i)'
    BY DEF InQueue
  <2>1. PICK r \in 1..Len(queue[g]) : q = queue[g][r] /\ r = (IF g = l THEN p + 1 ELSE p)
    BY <1>15
  <2>2. LaneOf[q[1]] = g /\ q[1] \in Keys
    <3>1. LaneOf[queue[g][r][1]] = g /\ queue[g][r][1] \in Keys
      BY Buffered
    <3>2. QED
      BY <2>1, <3>1
  <2>3. PICK i \in Nat : Waits(q, i) /\ Behind(g, q[1], i)
    BY <2>1 DEF OrderInv, InQueue
  <2>4. Waits(q, i)'
    BY <1>12, <2>3
  <2>5. CASE g # l
    <3>1. Behind(g, q[1], i)'
      BY <1>7, <1>8, <2>3, <2>5 DEF Behind
    <3>2. QED
      BY <2>2, <2>4, <3>1
  <2>6. CASE g = l
    <3>1. ASSUME q[1] = k0
          PROVE  n < i
      <4>1. 1 < r
        BY <1>9, <2>1, <2>6
      <4>2. i \in Len(done[k0]) + 1..Len(sent[k0]) /\ sent[k0][i] = q
        BY <2>3, <3>1 DEF Waits
      <4>3. i \in 1..Len(sent[k0])
        BY <4>2, DoneLengths
      <4>4. sent[k0][n] = queue[l][1] /\ sent[k0][i] = queue[l][r]
        BY <1>3, <1>6, <2>1, <2>6, <4>2
      <4>5. Ordered
        BY DEF OrderInv
      <4>6. QED
        BY <1>2, <1>6, <2>6, <4>1, <4>3, <4>4, <4>5 DEF Ordered
    <3>2. Behind(l, q[1], i)'
      <4>1. ASSUME h[1] = q[1]
            PROVE  i # Len(done[q[1]]) + 1
        BY <1>4, <1>5, <3>1, <4>1
      <4>2. lane'[l].msg = h /\ done' = done
        BY <1>7, <1>8
      <4>3. QED
        BY <4>1, <4>2 DEF Behind
    <3>3. QED
      BY <2>2, <2>4, <2>6, <3>2
  <2>7. QED
    BY <2>5, <2>6
<1>17. Covered'
  <2> SUFFICES ASSUME NEW k \in Keys, NEW i \in Len(done[k]) + 1..Len(sent[k])
               PROVE  \/ i = Len(done[k]) + 1 /\ lane'[LaneOf[k]].msg = sent[k][i]
                      \/ \E p \in 1..Len(queue'[LaneOf[k]]) : queue'[LaneOf[k]][p] = sent[k][i]
    BY <1>7 DEF Covered
  <2>1. LaneOf[k] \in Lanes
    BY FlowAssumption
  <2>2. \/ i = Len(done[k]) + 1 /\ lane[LaneOf[k]].msg = sent[k][i]
        \/ \E p \in 1..Len(queue[LaneOf[k]]) : queue[LaneOf[k]][p] = sent[k][i]
    BY DEF OrderInv, Covered
  <2>3. CASE LaneOf[k] # l
    BY <1>8, <1>9, <2>1, <2>2, <2>3
  <2>4. CASE LaneOf[k] = l
    <3>1. i \in 1..Len(sent[k])
      BY DoneLengths
    <3>2. sent[k][i] # None /\ sent[k][i][1] = k
      BY <3>1, SentOf
    <3>3. PICK p \in 1..Len(queue[l]) : queue[l][p] = sent[k][i]
      BY <1>1, <2>2, <2>4, <3>2
    <3>4. CASE p = 1
      <4>1. sent[k][i] = h /\ k = k0
        BY <1>3, <1>4, <3>2, <3>3, <3>4
      <4>2. i = n
        BY <1>6, <3>1, <4>1 DEF OrderInv, Distinct
      <4>3. QED
        BY <1>5, <1>8, <2>4, <4>1, <4>2
    <3>5. CASE p # 1
      <4>1. p - 1 \in 1..Len(queue'[l]) /\ p = (p - 1) + 1
        BY <1>2, <1>9, <3>5
      <4>2. queue'[l][p - 1] = queue[l][p]
        BY <1>2, <1>9, <4>1
      <4>3. QED
        BY <2>4, <3>3, <4>1, <4>2
    <3>6. QED
      BY <3>4, <3>5
  <2>5. QED
    BY <2>3, <2>4
<1>18. Ordered'
  <2> SUFFICES ASSUME NEW g \in Lanes, NEW p \in 1..Len(queue'[g]), NEW q \in 1..Len(queue'[g]),
                      NEW k \in Keys, NEW i \in 1..Len(sent'[k]), NEW j \in 1..Len(sent'[k]),
                      p < q, sent'[k][i] = queue'[g][p], sent'[k][j] = queue'[g][q]
               PROVE  i < j
    BY DEF Ordered
  <2>1. PICK r \in 1..Len(queue[g]) : queue'[g][p] = queue[g][r] /\ r = (IF g = l THEN p + 1 ELSE p)
    BY <1>15, ZenonT(30)
  <2>2. PICK t \in 1..Len(queue[g]) : queue'[g][q] = queue[g][t] /\ t = (IF g = l THEN q + 1 ELSE q)
    BY <1>15
  <2>3. r < t
    BY <2>1, <2>2
  <2>4. sent[k][i] = queue[g][r] /\ sent[k][j] = queue[g][t] /\ i \in 1..Len(sent[k]) /\ j \in 1..Len(sent[k])
    BY <1>7, <2>1, <2>2
  <2>5. Ordered
    BY DEF OrderInv
  <2>6. QED
    BY <2>3, <2>4, <2>5 DEF Ordered
<1>19. QED
  BY <1>10, <1>11, <1>14, <1>16, <1>17, <1>18 DEF OrderInv

LEMMA ProcessOrder ==
  ASSUME OrderInv, NEW l \in Lanes, ProcessOne(l)
  PROVE  OrderInv'
<1>1. PICK m \in Messages : m = lane[l].msg
  BY DEF ProcessOne, OrderInv, Shape, LaneRecords
<1>2. m # None
  BY NoneIsNoMessage
<1>3. PICK k0 \in Keys : k0 = m[1]
  BY DEF Messages
<1>4. PICK n \in Nat : n = Len(done[k0]) + 1 /\ Len(done[k0]) \in Nat /\ Len(sent[k0]) \in Nat
  BY DoneLengths
<1>5. LaneOf[k0] = l /\ n \in 1..Len(sent[k0]) /\ sent[k0][n] = m
  <2>1. LaneOf[k0] = l /\ Waits(m, n)
    BY <1>1, <1>2, <1>3, <1>4 DEF OrderInv, InLane
  <2>2. n \in Len(done[k0]) + 1..Len(sent[k0]) /\ sent[k0][n] = m
    BY <1>3, <2>1 DEF Waits
  <2>3. QED
    BY <1>4, <2>1, <2>2
<1>6. /\ lane' = [lane EXCEPT ![l].msg = None]
      /\ done' = [done EXCEPT ![k0] = Append(done[k0], m)]
      /\ UNCHANGED <<sub, queue, stop, cancelled, quit, released, sent>>
  BY <1>1, <1>3 DEF ProcessOne
<1>7. /\ lane' \in [Lanes -> LaneRecords]
      /\ lane'[l].msg = None /\ \A g \in Lanes : g # l => lane'[g] = lane[g]
  BY <1>6, LaneRecord, ZenonT(30) DEF OrderInv
<1>8. done[k0] \in Seq(Messages) /\ Append(done[k0], m) \in Seq(Messages)
  BY DEF OrderInv, Shape
<1>9. /\ done' \in [Keys -> Seq(Messages)] /\ done'[k0] = Append(done[k0], m)
      /\ \A k \in Keys : k # k0 => done'[k] = done[k]
  BY <1>6, <1>8 DEF OrderInv, Shape
<1>10. /\ Len(done'[k0]) = n /\ done'[k0][n] = m
       /\ \A i \in 1..Len(done[k0]) : done'[k0][i] = done[k0][i]
  BY <1>4, <1>8, <1>9, AppendAt
<1>11. Shape'
  BY <1>6, <1>7, <1>9 DEF OrderInv, Shape
<1>12. Numbered' /\ Distinct' /\ Ordered'
  <2>1. Numbered'
    BY <1>6 DEF OrderInv, Numbered
  <2>2. Distinct'
    BY <1>6 DEF OrderInv, Distinct
  <2>3. Ordered'
    BY <1>6 DEF OrderInv, Ordered
  <2>4. QED
    BY <2>1, <2>2, <2>3
<1>13. Processed'
  <2> SUFFICES ASSUME NEW k \in Keys
               PROVE  /\ Len(done'[k]) <= Len(sent[k])
                      /\ \A i \in 1..Len(done'[k]) : done'[k][i] = sent[k][i]
    BY <1>6 DEF Processed
  <2>1. CASE k # k0
    BY <1>9, <2>1 DEF OrderInv, Processed
  <2>2. CASE k = k0
    <3>1. Len(done'[k]) <= Len(sent[k])
      BY <1>4, <1>5, <1>10, <2>2
    <3>2. ASSUME NEW i \in 1..Len(done'[k])
          PROVE  done'[k][i] = sent[k][i]
      <4>1. i = n \/ i \in 1..Len(done[k0])
        BY <1>4, <1>10, <2>2
      <4>2. \A j \in 1..Len(done[k0]) : done[k0][j] = sent[k0][j]
        BY DEF OrderInv, Processed
      <4>3. QED
        BY <1>5, <1>10, <2>2, <4>1, <4>2
    <3>3. QED
      BY <3>1, <3>2
  <2>3. QED
    BY <2>1, <2>2
\* Other lanes have other keys.
<1>14. InLane'
  <2> SUFFICES ASSUME NEW g \in Lanes, lane'[g].msg # None, NEW q, q = lane'[g].msg
               PROVE  LaneOf[q[1]] = g /\ Waits(q, Len(done[q[1]]) + 1)'
    BY <1>6 DEF InLane
  <2>1. g # l /\ q = lane[g].msg /\ q # None
    BY <1>7
  <2>2. LaneOf[q[1]] = g /\ Waits(q, Len(done[q[1]]) + 1) /\ q \in Messages
    BY <2>1 DEF OrderInv, InLane, Shape, LaneRecords
  <2>3. q[1] \in Keys
    BY <2>2 DEF Messages
  <2>4. q[1] # k0 /\ done'[q[1]] = done[q[1]] /\ sent' = sent
    BY <1>5, <1>6, <1>9, <2>1, <2>2, <2>3
  <2>5. QED
    BY <2>2, <2>4 DEF Waits
<1>15. InQueue'
  <2> SUFFICES ASSUME NEW g \in Lanes, NEW p \in 1..Len(queue[g]), NEW q, q = queue[g][p]
               PROVE  LaneOf[q[1]] = g /\ \E i \in Nat : Waits(q, i)' /\ Behind(g, q[1], i)'
    BY <1>6 DEF InQueue
  <2>1. LaneOf[q[1]] = g /\ q[1] \in Keys
    BY Buffered, ZenonT(30)
  <2>2. PICK i \in Nat : Waits(q, i) /\ Behind(g, q[1], i)
    BY SMTT(30) DEF OrderInv, InQueue
  <2>3. CASE q[1] = k0
    <3>1. g = l
      BY <1>5, <2>1, <2>3
    <3>2. i # n
      BY <1>1, <1>2, <1>3, <1>4, <2>2, <2>3, <3>1 DEF Behind
    <3>3. i \in n..Len(sent[k0]) /\ sent[k0][i] = q
      BY <1>4, <2>2, <2>3 DEF Waits
    <3>4. i \in n + 1..Len(sent[k0])
      BY <1>4, <3>2, <3>3
    <3>5. Waits(q, i)'
      BY <1>6, <1>10, <2>3, <3>3, <3>4 DEF Waits
    <3>6. Behind(g, q[1], i)'
      BY <1>7, <3>1 DEF Behind
    <3>7. QED
      BY <2>1, <3>5, <3>6
  <2>4. CASE q[1] # k0
    <3>1. done'[q[1]] = done[q[1]] /\ sent' = sent
      BY <1>6, <1>9, <2>1, <2>4
    <3>2. Waits(q, i)'
      BY <2>2, <3>1 DEF Waits
    <3>3. Behind(g, q[1], i)'
      BY <1>7, <2>2, <3>1 DEF Behind
    <3>4. QED
      BY <2>1, <3>2, <3>3
  <2>5. QED
    BY <2>3, <2>4
<1>16. Covered'
  <2> SUFFICES ASSUME NEW k \in Keys, NEW i \in Len(done'[k]) + 1..Len(sent[k])
               PROVE  \/ i = Len(done'[k]) + 1 /\ lane'[LaneOf[k]].msg = sent[k][i]
                      \/ \E p \in 1..Len(queue[LaneOf[k]]) : queue[LaneOf[k]][p] = sent[k][i]
    BY <1>6 DEF Covered
  <2>1. i \in Len(done[k]) + 1..Len(sent[k]) /\ (k = k0 => i # Len(done[k]) + 1)
    <3>1. CASE k = k0
      BY <1>4, <1>10, <3>1
    <3>2. CASE k # k0
      BY <1>9, <3>2
    <3>3. QED
      BY <3>1, <3>2
  <2>2. \/ i = Len(done[k]) + 1 /\ lane[LaneOf[k]].msg = sent[k][i]
        \/ \E p \in 1..Len(queue[LaneOf[k]]) : queue[LaneOf[k]][p] = sent[k][i]
    BY <2>1 DEF OrderInv, Covered
  <2>3. ASSUME i = Len(done[k]) + 1, lane[LaneOf[k]].msg = sent[k][i]
        PROVE  i = Len(done'[k]) + 1 /\ lane'[LaneOf[k]].msg = sent[k][i]
    <3>1. k # k0 /\ done'[k] = done[k]
      BY <1>9, <2>1, <2>3
    <3>2. i \in 1..Len(sent[k])
      BY <2>1, DoneLengths
    <3>3. sent[k][i][1] = k
      BY <3>2, SentOf
    <3>4. LaneOf[k] # l
      BY <1>1, <1>3, <2>3, <3>1, <3>3
    <3>5. LaneOf[k] \in Lanes
      BY FlowAssumption
    <3>6. QED
      BY <1>7, <2>3, <3>1, <3>4, <3>5
  <2>4. QED
    BY <2>2, <2>3
<1>17. QED
  BY <1>11, <1>12, <1>13, <1>14, <1>15, <1>16 DEF OrderInv

LEMMA LanePc ==
  ASSUME Shape, NEW l \in Lanes, NEW v \in {"draining", "exit"}, lane' = [lane EXCEPT ![l].pc = v]
  PROVE  /\ lane' \in [Lanes -> LaneRecords] /\ lane'[l].pc = v
         /\ \A g \in Lanes : lane'[g].msg = lane[g].msg /\ (g # l => lane'[g] = lane[g])
<1>1. lane[l] \in LaneRecords
  BY DEF Shape
<1>2. [lane[l] EXCEPT !.pc = v] \in LaneRecords /\ [lane[l] EXCEPT !.pc = v].msg = lane[l].msg
      /\ [lane[l] EXCEPT !.pc = v].pc = v
  BY <1>1 DEF LaneRecords
<1>3. lane' = [lane EXCEPT ![l] = [lane[l] EXCEPT !.pc = v]]
  BY DEF Shape
<1>4. QED
  BY <1>2, <1>3 DEF Shape

LEMMA LaneStepOrder ==
  ASSUME OrderInv, NEW l \in Lanes, LaneStep(l)
  PROVE  OrderInv'
<1>1. CASE LaneReceives(l)
  BY <1>1, ReceivesOrder
<1>2. CASE ProcessOne(l)
  BY <1>2, ProcessOrder
<1>3. CASE LaneSeesQuit(l) \/ LaneExits(l)
  <2>1. PICK v \in {"draining", "exit"} : lane' = [lane EXCEPT ![l].pc = v]
    BY <1>3 DEF LaneSeesQuit, LaneExits
  <2>2. UNCHANGED <<sub, queue, stop, cancelled, quit, released, sent, done>>
    BY <1>3 DEF LaneSeesQuit, LaneExits
  <2>3. Calm
    BY <2>1, <2>2, LanePc, ZenonT(30) DEF OrderInv, Shape, Calm
  <2>4. Numbered' /\ sub' \in [Submitters -> SubRecords]
    BY <2>2 DEF OrderInv, Shape, Numbered
  <2>5. QED
    BY <2>3, <2>4, CalmStep
<1>4. QED
  BY <1>1, <1>2, <1>3 DEF LaneStep

-----------------------------------------------------------------------------
(* Stopping keeps the order of a key *)

StopStep(s) == StopFlow(s) \/ StopperStep(s) \/ DrainTimesOut(s)

LEMMA StopStepOrder ==
  ASSUME OrderInv, NEW s \in Stoppers, StopStep(s)
  PROVE  OrderInv'
<1>1. PICK v \in {"pumps", "lock", "wait", "done", "failed"} : stop' = [stop EXCEPT ![s] = v]
  BY DEF StopStep, StopFlow, StopperStep, PumpsAwaited, DrainCloses, StopBlocks, DrainTimesOut
<1>2. UNCHANGED <<sub, queue, lane, sent, done>>
  BY DEF StopStep, StopFlow, StopperStep, PumpsAwaited, DrainCloses, StopBlocks, DrainTimesOut
<1>3. cancelled' \in BOOLEAN /\ quit' \in BOOLEAN /\ released' \in BOOLEAN
  BY ZenonT(30) DEF StopStep, StopFlow, StopperStep, PumpsAwaited, DrainCloses, StopBlocks, DrainTimesOut,
         OrderInv, Shape
<1>4. Calm
  BY <1>1, <1>2, <1>3 DEF OrderInv, Shape, Calm
<1>5. Numbered' /\ sub' \in [Submitters -> SubRecords]
  BY <1>2 DEF OrderInv, Shape, Numbered
<1>6. QED
  BY <1>4, <1>5, CalmStep

LEMMA NextOrder == OrderInv /\ [Next]_vars => OrderInv'
<1> SUFFICES ASSUME OrderInv, [Next]_vars PROVE OrderInv'
  OBVIOUS
<1>1. CASE \E x \in Submitters : Emit(x) \/ SubmitterStep(x)
  BY <1>1, EmitOrder, EntersOrder, SendsOrder DEF SubmitterStep
<1>2. CASE \E l \in Lanes : LaneStep(l)
  BY <1>2, LaneStepOrder
<1>3. CASE \E s \in Stoppers : StopFlow(s) \/ StopperStep(s) \/ DrainTimesOut(s)
  BY <1>3, StopStepOrder DEF StopStep
<1>4. CASE UNCHANGED vars
  <2>1. UNCHANGED <<sub, queue, lane, stop, cancelled, quit, released, sent, done>>
    BY <1>4 DEF vars
  <2>2. Numbered' /\ sub' \in [Submitters -> SubRecords]
    BY <2>1 DEF OrderInv, Shape, Numbered
  <2>3. QED
    BY <2>1, <2>2, CalmFrame, CalmStep
<1>5. QED
  BY <1>1, <1>2, <1>3, <1>4 DEF Next

-----------------------------------------------------------------------------
(* The order of a stop *)

\* A submitter that moves has not left, and enters only while the router is
\* open; a lane that takes a message is one of an open router.
LEMMA SubmitterStopping ==
  ASSUME Shape, Stopping, NEW x \in Submitters, sub[x].pc # "exit",
         \A y \in Submitters : y # x => sub'[y] = sub[y],
         sub'[x].pc = "inside" => ~quit,
         queue' = queue \/ ~quit,
         UNCHANGED <<lane, stop, cancelled, quit, released>>
  PROVE  Stopping'
<1>1. PumpsDone => PumpsDone'
  BY DEF PumpsDone, Submitters
<1>2. LanesDone <=> LanesDone'
  BY DEF LanesDone
<1>3. (quit => Readers = {})'
  BY DEF Stopping, Readers
<1>4. (\A l \in Lanes : lane[l].pc # "run" => quit)'
  BY DEF Stopping
<1>5. (\A l \in Lanes : lane[l].pc = "exit" => queue[l] = <<>> /\ lane[l].msg = None)'
  BY DEF Stopping
<1>6. (\A s \in Stoppers : stop[s] # "idle" => cancelled)'
  BY DEF Stopping
<1>7. (\A s \in Stoppers : stop[s] \in {"lock", "wait", "done", "failed"} => PumpsDone)'
  BY <1>1 DEF Stopping
<1>8. (\A s \in Stoppers : stop[s] = "done" => released)'
  BY DEF Stopping
<1>9. (released => PumpsDone /\ LanesDone)'
  BY <1>1, <1>2 DEF Stopping
<1>10. QED
  BY <1>3, <1>4, <1>5, <1>6, <1>7, <1>8, <1>9 DEF Stopping

\* A lane that moves had not exited, and leaves its loop only past quit.
LEMMA LaneStopping ==
  ASSUME Shape, Stopping, NEW l \in Lanes, lane[l].pc # "exit",
         \A g \in Lanes : g # l => lane'[g] = lane[g] /\ queue'[g] = queue[g],
         lane'[l].pc # "run" => quit,
         lane'[l].pc = "exit" => queue'[l] = <<>> /\ lane'[l].msg = None,
         UNCHANGED <<sub, stop, cancelled, quit, released>>
  PROVE  Stopping'
<1>1. PumpsDone <=> PumpsDone'
  BY DEF PumpsDone
<1>2. ~released
  BY DEF Stopping, LanesDone
<1>3. (quit => Readers = {})'
  BY DEF Stopping, Readers
<1>4. (\A g \in Lanes : lane[g].pc # "run" => quit)'
  BY DEF Stopping
<1>5. (\A g \in Lanes : lane[g].pc = "exit" => queue[g] = <<>> /\ lane[g].msg = None)'
  BY DEF Stopping
<1>6. (\A s \in Stoppers : stop[s] # "idle" => cancelled)'
  BY DEF Stopping
<1>7. (\A s \in Stoppers : stop[s] \in {"lock", "wait", "done", "failed"} => PumpsDone)'
  BY <1>1 DEF Stopping
<1>8. (\A s \in Stoppers : stop[s] = "done" => released)'
  BY DEF Stopping
<1>9. (released => PumpsDone /\ LanesDone)'
  BY <1>2
<1>10. QED
  BY <1>3, <1>4, <1>5, <1>6, <1>7, <1>8, <1>9 DEF Stopping

LEMMA SubmitterKeepsStopping ==
  ASSUME Shape, Stopping, NEW x \in Submitters, Emit(x) \/ SubmitterStep(x)
  PROVE  Stopping'
<1>1. sub[x] \in SubRecords
  BY DEF Shape
<1>2. CASE Emit(x)
  <2>1. PICK b \in 1..MaxBatch : sub' = [sub EXCEPT ![x].pc = "submit", ![x].left = b]
    BY <1>2, ZenonT(30) DEF Emit
  <2>2. sub'[x].pc = "submit" /\ \A y \in Submitters : y # x => sub'[y] = sub[y]
    BY <1>1, <2>1 DEF Shape, SubRecords
  <2>3. sub[x].pc # "exit" /\ UNCHANGED <<queue, lane, stop, cancelled, quit, released>>
    BY <1>2 DEF Emit
  <2>4. QED
    BY <2>2, <2>3, SubmitterStopping
<1>3. CASE PumpExits(x)
  <2>1. sub'[x].pc = "exit" /\ \A y \in Submitters : y # x => sub'[y] = sub[y]
    BY <1>1, <1>3 DEF PumpExits, Shape, SubRecords
  <2>2. sub[x].pc # "exit" /\ UNCHANGED <<queue, lane, stop, cancelled, quit, released>>
    BY <1>3 DEF PumpExits
  <2>3. QED
    BY <2>1, <2>2, SubmitterStopping
<1>4. CASE SubmitEnters(x)
  <2>1. PICK rec : /\ sub' = [sub EXCEPT ![x] = rec]
                   /\ quit => rec = [Submitted(x) EXCEPT !.n = Submitted(x).n + 1]
    BY <1>4, ZenonT(30) DEF SubmitEnters
  <2>2. quit => rec.pc # "inside"
    <3>1. Submitted(x) \in SubRecords /\ Submitted(x).pc \in {"emit", "submit"}
      BY SubmittedShape
    <3>2. QED
      BY <2>1, <3>1 DEF SubRecords
  <2>3. sub'[x] = rec /\ \A y \in Submitters : y # x => sub'[y] = sub[y]
    BY <2>1 DEF Shape
  <2>4. sub[x].pc # "exit" /\ UNCHANGED <<queue, lane, stop, cancelled, quit, released>>
    BY <1>4 DEF SubmitEnters
  <2>5. sub'[x].pc = "inside" => ~quit
    BY <2>2, <2>3
  <2>6. QED
    BY <2>3, <2>4, <2>5, SubmitterStopping
<1>5. CASE SubmitSends(x)
  <2>1. sub' = [sub EXCEPT ![x] = Submitted(x)] /\ sub[x].pc = "inside"
    BY <1>5 DEF SubmitSends
  <2>2. ~quit
    BY <2>1 DEF Stopping, Readers
  <2>3. sub'[x] = Submitted(x) /\ \A y \in Submitters : y # x => sub'[y] = sub[y]
    BY <2>1 DEF Shape
  <2>4. sub[x].pc # "exit" /\ UNCHANGED <<lane, stop, cancelled, quit, released>>
    BY <1>5 DEF SubmitSends
  <2>5. QED
    BY <2>2, <2>3, <2>4, SubmitterStopping, SMTT(30)
<1>6. QED
  BY <1>2, <1>3, <1>4, <1>5 DEF SubmitterStep

LEMMA LaneKeepsStopping ==
  ASSUME Shape, Stopping, NEW l \in Lanes, LaneStep(l)
  PROVE  Stopping'
<1>1. lane[l] \in LaneRecords /\ (lane[l].pc # "run" => quit)
  BY DEF Shape, Stopping
<1>2. CASE LaneReceives(l)
  <2>1. lane[l].pc # "exit" /\ UNCHANGED <<sub, stop, cancelled, quit, released>>
    BY <1>2 DEF LaneReceives
  <2>2. lane'[l].pc = lane[l].pc /\ \A g \in Lanes : g # l => lane'[g] = lane[g] /\ queue'[g] = queue[g]
    BY <1>1, <1>2 DEF LaneReceives, Shape, LaneRecords
  <2>3. QED
    BY <1>1, <2>1, <2>2, LaneStopping
<1>3. CASE ProcessOne(l)
  <2>1. lane[l].pc # "exit" /\ UNCHANGED <<sub, queue, stop, cancelled, quit, released>>
    BY <1>3 DEF ProcessOne, Stopping
  <2>2. lane'[l].pc = lane[l].pc /\ \A g \in Lanes : g # l => lane'[g] = lane[g]
    BY <1>1, <1>3 DEF ProcessOne, Shape, LaneRecords
  <2>3. QED
    BY <1>1, <2>1, <2>2, LaneStopping
<1>4. CASE LaneSeesQuit(l)
  <2>1. lane[l].pc # "exit" /\ quit /\ UNCHANGED <<sub, queue, stop, cancelled, quit, released>>
    BY <1>4 DEF LaneSeesQuit
  <2>2. lane'[l].pc = "draining" /\ \A g \in Lanes : g # l => lane'[g] = lane[g]
    BY <1>4, LanePc, ZenonT(30) DEF LaneSeesQuit
  <2>3. QED
    BY <2>1, <2>2, LaneStopping
<1>5. CASE LaneExits(l)
  <2>1. lane[l].pc # "exit" /\ quit /\ UNCHANGED <<sub, queue, stop, cancelled, quit, released>>
    BY <1>1, <1>5 DEF LaneExits
  <2>2. lane'[l].pc = "exit" /\ lane'[l].msg = None /\ queue'[l] = <<>> /\ \A g \in Lanes : g # l => lane'[g] = lane[g]
    BY <1>5, LanePc, ZenonT(30) DEF LaneExits
  <2>3. QED
    BY <2>1, <2>2, LaneStopping
<1>6. QED
  BY <1>2, <1>3, <1>4, <1>5 DEF LaneStep

LEMMA StopKeepsStopping ==
  ASSUME Shape, Stopping, NEW s \in Stoppers, StopStep(s)
  PROVE  Stopping'
<1>1. UNCHANGED <<sub, queue, lane>>
  BY DEF StopStep, StopFlow, StopperStep, PumpsAwaited, DrainCloses, StopBlocks, DrainTimesOut
<1>2. (PumpsDone <=> PumpsDone') /\ (LanesDone <=> LanesDone') /\ Readers' = Readers
  BY <1>1 DEF PumpsDone, LanesDone, Readers
<1>3. CASE StopFlow(s)
  <2>1. /\ cancelled' /\ stop'[s] = "pumps" /\ \A t \in Stoppers : t # s => stop'[t] = stop[t]
        /\ UNCHANGED <<quit, released>>
    BY <1>3, SMTT(30) DEF StopFlow, Shape
  <2>2. QED
    BY <1>1, <1>2, <2>1 DEF Stopping
<1>4. CASE PumpsAwaited(s)
  <2>1. /\ PumpsDone /\ stop[s] # "idle" /\ stop'[s] = "lock" /\ \A t \in Stoppers : t # s => stop'[t] = stop[t]
        /\ UNCHANGED <<cancelled, quit, released>>
    BY <1>4 DEF PumpsAwaited, Shape
  <2>2. QED
    BY <1>1, <1>2, <2>1 DEF Stopping
<1>5. CASE DrainCloses(s)
  <2>1. /\ Readers = {} /\ stop[s] = "lock" /\ stop'[s] = "wait" /\ \A t \in Stoppers : t # s => stop'[t] = stop[t]
        /\ quit' /\ UNCHANGED <<cancelled, released>>
    BY <1>5, SMTT(30) DEF DrainCloses, Shape
  <2>2. QED
    BY <1>1, <1>2, <2>1 DEF Stopping
<1>6. CASE StopBlocks(s)
  <2>1. /\ LanesDone /\ stop[s] = "wait" /\ stop'[s] = "done" /\ \A t \in Stoppers : t # s => stop'[t] = stop[t]
        /\ released' /\ UNCHANGED <<cancelled, quit>>
    BY <1>6 DEF StopBlocks, Shape
  <2>2. QED
    BY <1>1, <1>2, <2>1 DEF Stopping
<1>7. CASE DrainTimesOut(s)
  <2>1. /\ stop[s] = "wait" /\ stop'[s] = "failed" /\ \A t \in Stoppers : t # s => stop'[t] = stop[t]
        /\ UNCHANGED <<cancelled, quit, released>>
    BY <1>7 DEF DrainTimesOut, Shape
  <2>2. QED
    BY <1>1, <1>2, <2>1 DEF Stopping
<1>8. QED
  BY <1>3, <1>4, <1>5, <1>6, <1>7 DEF StopStep, StopperStep

LEMMA NextIInv == IInv /\ [Next]_vars => IInv'
<1> SUFFICES ASSUME IInv, [Next]_vars PROVE IInv'
  OBVIOUS
<1>1. OrderInv'
  BY NextOrder DEF IInv
<1>2. Shape /\ Stopping
  BY DEF IInv, OrderInv
<1>3. Stopping'
  <2>1. CASE \E x \in Submitters : Emit(x) \/ SubmitterStep(x)
    BY <1>2, <2>1, SubmitterKeepsStopping
  <2>2. CASE \E l \in Lanes : LaneStep(l)
    BY <1>2, <2>2, LaneKeepsStopping
  <2>3. CASE \E s \in Stoppers : StopFlow(s) \/ StopperStep(s) \/ DrainTimesOut(s)
    BY <1>2, <2>3, StopKeepsStopping DEF StopStep
  <2>4. CASE UNCHANGED vars
    BY <1>2, <2>4 DEF vars, Stopping, Readers, PumpsDone, LanesDone
  <2>5. QED
    BY <2>1, <2>2, <2>3, <2>4 DEF Next
<1>4. QED
  BY <1>1, <1>3 DEF IInv

-----------------------------------------------------------------------------
(* What Router and StopFlow promise *)

LEMMA PrefixOf ==
  ASSUME NEW S, NEW s \in Seq(S), NEW t \in Seq(S), Len(s) <= Len(t),
         \A i \in 1..Len(s) : s[i] = t[i]
  PROVE  /\ Len(s) \in 0..Len(t) /\ s = SubSeq(t, 1, Len(s))
         /\ Len(s) = Len(t) => s = t
<1>1. Len(s) \in Nat /\ Len(t) \in Nat
  OBVIOUS
<1>2. s = SubSeq(t, 1, Len(s))
  BY <1>1
<1>3. Len(s) = Len(t) => s = t
  OBVIOUS
<1>4. QED
  BY <1>1, <1>2, <1>3

LEMMA DoneIsPrefix ==
  ASSUME OrderInv, NEW k \in Keys
  PROVE  /\ \E n \in 0..Len(sent[k]) : done[k] = SubSeq(sent[k], 1, n)
         /\ Len(done[k]) = Len(sent[k]) => done[k] = sent[k]
<1>1. done[k] \in Seq(Messages) /\ sent[k] \in Seq(Messages)
  BY DEF OrderInv, Shape
<1>2. Len(done[k]) <= Len(sent[k]) /\ \A i \in 1..Len(done[k]) : done[k][i] = sent[k][i]
  BY DEF OrderInv, Processed
<1>3. QED
  BY <1>1, <1>2, PrefixOf

\* With every lane gone, nothing is left to process.
LEMMA LanesLeaveNothing ==
  ASSUME IInv, LanesDone
  PROVE  done = sent
<1>1. ASSUME NEW k \in Keys
      PROVE  Len(done[k]) = Len(sent[k])
  <2>1. Len(done[k]) \in Nat /\ Len(sent[k]) \in Nat /\ Len(done[k]) <= Len(sent[k])
    BY DoneLengths DEF IInv
  <2>2. SUFFICES ASSUME Len(done[k]) < Len(sent[k])
                 PROVE  FALSE
    BY <2>1
  <2>3. PICK i \in Nat : i = Len(done[k]) + 1 /\ i \in Len(done[k]) + 1..Len(sent[k]) /\ i \in 1..Len(sent[k])
    BY <2>1, <2>2
  <2>4. LaneOf[k] \in Lanes
    BY FlowAssumption
  <2>5. queue[LaneOf[k]] = <<>> /\ lane[LaneOf[k]].msg = None
    BY <2>4 DEF IInv, Stopping, LanesDone
  <2>6. \/ lane[LaneOf[k]].msg = sent[k][i]
        \/ \E p \in 1..Len(queue[LaneOf[k]]) : queue[LaneOf[k]][p] = sent[k][i]
    BY <2>3 DEF IInv, OrderInv, Covered
  <2>7. sent[k][i] # None
    BY <2>3, SentOf DEF IInv
  <2>8. QED
    BY <2>5, <2>6, <2>7
<1>2. \A k \in Keys : done[k] = sent[k]
  BY <1>1, DoneIsPrefix DEF IInv
<1>3. QED
  BY <1>2 DEF IInv, OrderInv, Shape

\* runLane and processOne take the messages of a key through the graph in the
\* order Submit put them into the key's lane, each once and none skipped: for
\* any number of keys, lanes, submitters and stops, and any channel capacity.
THEOREM KeysStayInOrder == Spec => []KeyOrder
<1>1. IInv => KeyOrder
  BY DoneIsPrefix DEF IInv, KeyOrder
<1>2. QED
  BY <1>1, InitIInv, NextIInv, PTL DEF Spec

\* A StopFlow that returned nil processed every message a lane had accepted,
\* and Stop runs on the blocks only behind every pump and every lane.
THEOREM StopsLoseNothing == Spec => []StopIsClean
<1>1. IInv => StopIsClean
  <2> SUFFICES ASSUME IInv PROVE StopIsClean
    OBVIOUS
  <2>1. (\E s \in Stoppers : stop[s] = "done") => done = sent
    BY LanesLeaveNothing DEF IInv, Stopping
  <2>2. released => PumpsDone /\ LanesDone /\ \A l \in Lanes : lane[l].msg = None
    BY DEF IInv, Stopping, LanesDone
  <2>3. QED
    BY <2>1, <2>2 DEF StopIsClean
<1>2. QED
  BY <1>1, InitIInv, NextIInv, PTL DEF Spec
=============================================================================
