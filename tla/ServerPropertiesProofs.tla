----------------------- MODULE ServerPropertiesProofs -----------------------
(* Proofs about ServerProperties, for every value of its constants. *)
EXTENDS ServerProperties, FiniteSetTheorems, TLAPS

-----------------------------------------------------------------------------
(* The inductive invariant *)

Vals == Values \cup {None}

Messages ==
  [kind : {"value"}, path : Paths, value : Vals, retain : BOOLEAN]
    \cup [kind : {"purge"}, paths : SUBSET Paths, retain : {FALSE}]

Stages == {"idle", "publish", "load", "list", "resend", "ack"}

JobRecords ==
  [pc : Stages, op : {"none", "set", "unset", "greet", "resync"}, path : Paths \cup {None},
   todo : Seq(Messages), next : Stages, cut : BOOLEAN]

Requests == {<<>>, <<"introspection", "emptyCache">>, <<"emptyCache">>}

Types ==
  /\ rows \in [Paths -> Vals] /\ retained \in [Paths -> Vals] /\ held \in [Paths -> Vals]
  /\ queue \in [Paths -> Vals \cup {Keep}]
  /\ session \in BOOLEAN /\ online \in BOOLEAN
  /\ offline \in {"none", "claimed", "has", "lacks"}
  /\ trust \in {"yes", "restoring", "no"}
  /\ uplink \in Requests
  /\ job \in [Jobs -> JobRecords]

\* A job about to publish its list of set paths, or the value of its call.
Lists(x) == x.pc = "publish" /\ \E ps \in SUBSET Paths : x.todo = <<Purge(ps)>>

Sends(x) ==
  /\ x.pc \in {"publish", "load"}
  /\ \E v \in Vals : x.todo = <<Value(x.path, v, TRUE)>>

CallShape(x) ==
  /\ x.op \in {"set", "unset"} /\ x.path \in Paths
  /\ \/ Sends(x) /\ x.next = (IF x.op = "unset" THEN "list" ELSE "idle")
     \/ x.op = "unset" /\ x.pc = "list" /\ x.todo = <<>>
     \/ x.op = "unset" /\ Lists(x) /\ x.next = "idle"

GreetingShape(x) ==
  /\ x.op = "greet"
  /\ (x.pc = "list" /\ x.todo = <<>>) \/ (Lists(x) /\ x.next = "idle")

\* The messages of a resend, all of them values.
Resends(x) ==
  /\ x.pc \in {"publish", "load"} /\ x.todo # <<>>
  /\ \A i \in DOMAIN x.todo : x.todo[i].kind = "value"

ShardShape(x) ==
  /\ x.op = "resync"
  /\ \/ x.pc \in {"resend", "list", "ack"} /\ x.todo = <<>>
     \/ Lists(x) /\ x.next = "ack"
     \/ Resends(x) /\ x.next = "list"

\* How far each job can be, and what it then has left to publish.
Shapes ==
  /\ \A c \in Calls : job[c] = Rest \/ CallShape(job[c])
  /\ job[Greeting] = Rest \/ GreetingShape(job[Greeting])
  /\ job[Shard] = Rest \/ ShardShape(job[Shard])

\* A resync works for a request that is not acknowledged yet; while it is not
\* cut off, the connection it was asked on is up.
Asked ==
  /\ online => session
  /\ trust = "restoring" => ~Idle(Shard)
  /\ ~Idle(Shard) => uplink # <<>>
  /\ ~Idle(Shard) /\ ~job[Shard].cut => online /\ uplink = <<"emptyCache">>

\* No two jobs at work conflict.
Compatible ==
  \A j, k \in Jobs : j # k /\ ~Idle(j) => ~Conflict(job[j].op, job[j].path, k)

\* What message m says is what the table holds.
IsCurrent(m) == IF m.kind = "value" THEN m.value = rows[m.path] ELSE m.paths = SetPaths

Current == \A j \in Jobs : \A i \in DOMAIN job[j].todo : IsCurrent(job[j].todo[i])

\* The copy the device has once it took what is queued.
Due(p) == IF queue[p] = Keep THEN held[p] ELSE queue[p]

\* With no resync asked for, each path is right or about to be made so by the
\* call that wrote it.
Agrees ==
  session /\ uplink = <<>> =>
    \A p \in Paths : Due(p) = rows[p] \/ \E c \in Calls : Sends(job[c]) /\ job[c].path = p

\* A resync that is not cut off has put right the set paths that are not among
\* its messages, and every path once it has published the list.
Resyncs ==
  ~Idle(Shard) /\ ~job[Shard].cut =>
    \A p \in Paths :
      /\ rows[p] # None /\ job[Shard].pc # "resend" =>
           \/ Due(p) = rows[p]
           \/ \E i \in DOMAIN job[Shard].todo :
                job[Shard].todo[i].kind = "value" /\ job[Shard].todo[i].path = p
      /\ job[Shard].pc = "ack" => Due(p) = rows[p]

IInv ==
  /\ Types /\ Shapes /\ Asked
  /\ trust # "no" => Compatible /\ Current /\ Agrees /\ Resyncs

-----------------------------------------------------------------------------
(* What the proof needs of sequences and of the job records *)

(* Only finitely many paths are set, so there is one message for each. *)
LEMMA ResendLists ==
  ASSUME Types
  PROVE  /\ Resend \in Seq(Messages)
         /\ \A i \in DOMAIN Resend : Resend[i].kind = "value" /\ IsCurrent(Resend[i])
         /\ \A p \in Paths : rows[p] # None =>
              \E i \in DOMAIN Resend : Resend[i].kind = "value" /\ Resend[i].path = p
<1> DEFINE S == {Value(p, rows[p], FALSE) : p \in SetPaths}
           f == [p \in SetPaths |-> Value(p, rows[p], FALSE)]
<1>1. IsFiniteSet(SetPaths)
  BY Zenon, PathsAreFinite, FS_Subset DEF SetPaths
<1>2. f \in Surjection(SetPaths, S)
  BY ZenonT(30) DEF Surjection
<1>3. IsFiniteSet(S)
  BY Zenon, <1>1, <1>2, FS_Surjection
<1>4. \A p \in SetPaths : Value(p, rows[p], FALSE) \in Messages
  BY ZenonT(30) DEF Types, SetPaths, Messages, Value
<1>5. S \subseteq Messages
  BY <1>4, ZenonT(30)
<1>6. /\ Resend \in Seq(S)
      /\ \A x \in S : \E i \in DOMAIN Resend : Resend[i] = x
  <2> DEFINE n == Cardinality(S)
  <2>1. n \in Nat /\ ExistsBijection(1..n, S)
    BY Zenon, <1>3, FS_CardinalityType
  <2>2. Resend \in Bijection(1..n, S)
    BY <2>1, ZenonT(30) DEF ExistsBijection, Resend
  <2>3. Resend \in [1..n -> S] /\ \A x \in S : \E i \in 1..n : Resend[i] = x
    BY <2>2, ZenonT(30) DEF Bijection, Injection, Surjection
  <2> HIDE DEF n, S
  <2>4. Resend \in Seq(S) /\ DOMAIN Resend = 1..n
    BY <2>1, <2>3
  <2>5. QED
    BY Zenon, <2>3, <2>4
<1>7. \A x \in S : x.kind = "value" /\ IsCurrent(x)
  BY DEF Value, IsCurrent, SetPaths
<1> HIDE DEF S, f
<1>8. Resend \in Seq(Messages) /\ \A i \in DOMAIN Resend : Resend[i] \in S
  BY <1>5, <1>6
<1>9. ASSUME NEW p \in Paths, rows[p] # None
      PROVE  \E i \in DOMAIN Resend : Resend[i].kind = "value" /\ Resend[i].path = p
  <2>1. Value(p, rows[p], FALSE) \in S
    BY <1>9, ZenonT(30) DEF S, SetPaths
  <2>2. PICK i \in DOMAIN Resend : Resend[i] = Value(p, rows[p], FALSE)
    BY <2>1, <1>6, ZenonT(30)
  <2>3. QED
    BY <2>2 DEF Value
<1>10. QED
  BY Zenon, <1>7, <1>8, <1>9

LEMMA JobNames == Greeting \in Jobs /\ Shard \in Jobs /\ Calls \subseteq Jobs /\ Greeting # Shard
  BY Zenon DEF Jobs, Greeting, Shard

(* The first message and the rest of a sequence of messages. *)
LEMMA HeadAndTail ==
  ASSUME NEW s \in Seq(Messages), s # <<>>
  PROVE  /\ Head(s) \in Messages /\ Tail(s) \in Seq(Messages)
         /\ 1 \in DOMAIN s /\ s[1] = Head(s)
         /\ \A i \in DOMAIN Tail(s) : i + 1 \in DOMAIN s /\ Tail(s)[i] = s[i + 1]
         /\ \A i \in DOMAIN s : i # 1 => i - 1 \in DOMAIN Tail(s) /\ Tail(s)[i - 1] = s[i]
<1>1. Len(s) \in Nat /\ Len(s) >= 1 /\ DOMAIN s = 1..Len(s)
  OBVIOUS
<1>2. Tail(s) \in Seq(Messages) /\ Len(Tail(s)) = Len(s) - 1 /\ DOMAIN Tail(s) = 1..(Len(s) - 1)
  BY <1>1
<1>3. \A i \in 1..(Len(s) - 1) : Tail(s)[i] = s[i + 1]
  BY <1>1
<1>4. Head(s) = s[1] /\ 1 \in 1..Len(s) /\ s[1] \in Messages
  BY <1>1
<1>5. ASSUME NEW i \in 1..Len(s), i # 1
      PROVE  i - 1 \in 1..(Len(s) - 1) /\ Tail(s)[i - 1] = s[i]
  <2>1. i - 1 \in 1..(Len(s) - 1) /\ (i - 1) + 1 = i
    BY <1>1, <1>5
  <2>2. QED
    BY Zenon, <2>1, <1>3
<1>6. \A i \in 1..(Len(s) - 1) : i + 1 \in 1..Len(s)
  BY <1>1
<1>7. QED
  BY Zenon, <1>1, <1>2, <1>3, <1>4, <1>5, <1>6

LEMMA EmptySeq ==
  /\ <<>> \in Seq(Messages) /\ DOMAIN <<>> = {}
  /\ <<>> # <<"introspection", "emptyCache">> /\ <<>> # <<"emptyCache">>
  OBVIOUS

LEMMA Single ==
  ASSUME NEW m
  PROVE  /\ <<m>> # <<>> /\ Head(<<m>>) = m /\ Tail(<<m>>) = <<>>
         /\ DOMAIN <<m>> = {1} /\ <<m>>[1] = m
  OBVIOUS

-----------------------------------------------------------------------------
(* Publishing one message *)

LEMMA RestIsJob ==
  /\ Rest \in JobRecords
  /\ Rest.pc = "idle" /\ Rest.todo = <<>> /\ Rest.op = "none" /\ Rest.cut = FALSE
  /\ ~Sends(Rest)
<1>1. <<>> \in Seq(Messages)
  OBVIOUS
<1>2. Rest \in JobRecords
  BY Zenon, <1>1 DEF Rest, JobRecords, Stages
<1>3. Rest.pc = "idle" /\ Rest.todo = <<>> /\ Rest.op = "none" /\ Rest.cut = FALSE
  BY Zenon DEF Rest
<1>4. QED
  BY Zenon, <1>2, <1>3 DEF Sends

(* A call publishes its value, then an unset its list; it is over after the    *)
(* last of them (finishPublish and unset in the AppEngine).                    *)
LEMMA CallAdvances ==
  ASSUME Types, NEW c \in Calls, CallShape(job[c]), job[c].pc \in {"publish", "load"}, Advance(c)
  PROVE  LET x == job[c]
             y == job'[c]
         IN /\ y \in JobRecords /\ (y = Rest \/ CallShape(y)) /\ ~Sends(y)
            /\ y = Rest \/ (y.op = x.op /\ y.path = x.path /\ y.pc # "idle")
            /\ y.todo = <<>>
            /\ x.todo = <<Head(x.todo)>>
            /\ Head(x.todo).kind = "value" => Head(x.todo).path = x.path /\ Sends(x)
            /\ Head(x.todo).kind # "value" => ~Sends(x)
<1> DEFINE x == job[c]
           y == job'[c]
<1>1. c \in Jobs /\ x \in JobRecords
  BY Zenon, JobNames DEF Types
<1>2. x.path \in Paths /\ x.op \in {"set", "unset"}
  BY Zenon DEF CallShape
<1>3. <<>> \in Seq(Messages) /\ "list" \in Stages
  BY DEF Stages
<1>4. CASE Sends(x) /\ x.next = (IF x.op = "unset" THEN "list" ELSE "idle")
  <2>1. PICK v \in Vals : x.todo = <<Value(x.path, v, TRUE)>>
    BY <1>4, ZenonT(30) DEF Sends
  <2>2. Head(x.todo) = Value(x.path, v, TRUE) /\ Tail(x.todo) = <<>> /\ x.todo = <<Head(x.todo)>>
    BY Zenon, <2>1, Single
  <2>3. y = After(c)
    BY Zenon, <1>1, <2>2 DEF Advance, Types
  <2>4. CASE x.op = "set"
    <3>1. y = Rest
      BY Zenon, <1>4, <2>3, <2>4 DEF After
    <3>2. QED
      BY <2>2, <3>1, <1>4, RestIsJob DEF Value
  <2>5. CASE x.op = "unset"
    <3>1. y = [x EXCEPT !.pc = "list", !.todo = <<>>]
      BY Zenon, <1>4, <2>3, <2>5 DEF After
    <3>2. y \in JobRecords /\ y.pc = "list" /\ y.todo = <<>> /\ y.op = x.op /\ y.path = x.path
      BY <3>1, <1>1, <1>3, ZenonT(30) DEF JobRecords
    <3>3. CallShape(y) /\ ~Sends(y)
      BY Zenon, <3>2, <1>2, <2>5 DEF CallShape, Sends
    <3>4. QED
      BY <3>2, <3>3, <2>2, <1>4 DEF Value
  <2>6. QED
    BY Zenon, <2>4, <2>5, <1>2
<1>5. CASE Lists(x) /\ x.next = "idle"
  <2>1. PICK ps \in SUBSET Paths : x.todo = <<Purge(ps)>>
    BY Zenon, <1>5 DEF Lists
  <2>2. Head(x.todo) = Purge(ps) /\ Tail(x.todo) = <<>> /\ x.todo = <<Head(x.todo)>>
    BY Zenon, <2>1, Single
  <2>3. y = Rest
    BY Zenon, <1>1, <1>5, <2>2 DEF Advance, After, Types
  <2>4. Head(x.todo).kind = "purge"
    BY <2>2 DEF Purge
  <2>5. ~Sends(x)
    <3>1. SUFFICES ASSUME NEW v \in Vals, x.todo = <<Value(x.path, v, TRUE)>> PROVE FALSE
      BY ZenonT(30) DEF Sends
    <3>2. Head(x.todo) = Value(x.path, v, TRUE)
      BY Zenon, <3>1, Single
    <3>3. QED
      BY <3>2, <2>4 DEF Value
  <2>6. QED
    BY Zenon, <2>2, <2>3, <2>4, <2>5, RestIsJob
<1>6. QED
  BY Zenon, <1>4, <1>5 DEF CallShape

(* sendConsumerProperties on the connect goroutine ends with its list. *)
LEMMA GreetingAdvances ==
  ASSUME Types, GreetingShape(job[Greeting]), job[Greeting].pc \in {"publish", "load"}, Advance(Greeting)
  PROVE  job'[Greeting] = Rest /\ Head(job[Greeting].todo).kind = "purge"
<1>1. Greeting \in Jobs
  BY Zenon, JobNames
<1>2. Lists(job[Greeting]) /\ job[Greeting].next = "idle"
  BY Zenon DEF GreetingShape
<1>3. PICK ps \in SUBSET Paths : job[Greeting].todo = <<Purge(ps)>>
  BY Zenon, <1>2 DEF Lists
<1>4. Head(job[Greeting].todo) = Purge(ps) /\ Tail(job[Greeting].todo) = <<>>
  BY Zenon, <1>3, Single
<1>5. QED
  BY <1>1, <1>2, <1>4 DEF Advance, After, Types, Purge

(* A resync sends value after value, then its list, then acknowledges. *)
LEMMA ShardAdvances ==
  ASSUME Types, ShardShape(job[Shard]), job[Shard].pc \in {"publish", "load"}, Advance(Shard)
  PROVE  LET x == job[Shard]
             y == job'[Shard]
         IN /\ y \in JobRecords /\ ShardShape(y)
            /\ y.op = x.op /\ y.path = x.path /\ y.cut = x.cut /\ y.pc \notin {"idle", "resend"}
            /\ x.todo # <<>> /\ y.todo = Tail(x.todo)
            /\ y.pc = "ack" => Head(x.todo).kind = "purge"
<1> DEFINE x == job[Shard]
           y == job'[Shard]
<1>1. Shard \in Jobs /\ x \in JobRecords /\ x.todo \in Seq(Messages)
  BY Zenon, JobNames DEF Types, JobRecords
<1>2. <<>> \in Seq(Messages) /\ "list" \in Stages /\ "ack" \in Stages /\ "publish" \in Stages
  BY DEF Stages
<1>3. CASE Lists(x) /\ x.next = "ack"
  <2>1. PICK ps \in SUBSET Paths : x.todo = <<Purge(ps)>>
    BY Zenon, <1>3 DEF Lists
  <2>2. Head(x.todo) = Purge(ps) /\ Tail(x.todo) = <<>> /\ x.todo # <<>>
    BY Zenon, <2>1, Single
  <2>3. y = [x EXCEPT !.pc = "ack", !.todo = <<>>]
    BY Zenon, <1>1, <1>3, <2>2 DEF Advance, After, Types
  <2>4. /\ y \in JobRecords /\ y.pc = "ack" /\ y.todo = <<>> /\ y.op = x.op
        /\ y.path = x.path /\ y.cut = x.cut
    BY <2>3, <1>1, <1>2, ZenonT(30) DEF JobRecords
  <2>5. ShardShape(y)
    BY Zenon, <2>4 DEF ShardShape
  <2>6. QED
    BY <2>2, <2>4, <2>5 DEF Purge
<1>4. CASE Resends(x) /\ x.next = "list"
  <2> DEFINE t == Tail(x.todo)
  <2>1. /\ x.todo # <<>> /\ Head(x.todo).kind = "value" /\ t \in Seq(Messages)
        /\ \A i \in DOMAIN t : t[i].kind = "value"
    BY <1>1, <1>4, HeadAndTail DEF Resends
  <2>2. CASE t = <<>>
    <3>1. y = [x EXCEPT !.pc = "list", !.todo = <<>>]
      BY Zenon, <1>1, <1>4, <2>2 DEF Advance, After, Types
    <3>2. /\ y \in JobRecords /\ y.pc = "list" /\ y.todo = <<>> /\ y.op = x.op
          /\ y.path = x.path /\ y.cut = x.cut
      BY <3>1, <1>1, <1>2, ZenonT(30) DEF JobRecords
    <3>3. ShardShape(y)
      BY Zenon, <3>2 DEF ShardShape
    <3>4. QED
      BY Zenon, <2>1, <2>2, <3>2, <3>3
  <2>3. CASE t # <<>>
    <3>1. y = [x EXCEPT !.todo = t, !.pc = "publish"]
      BY Zenon, <1>1, <2>3 DEF Advance, Types
    <3>2. /\ y \in JobRecords /\ y.pc = "publish" /\ y.todo = t /\ y.op = x.op
          /\ y.path = x.path /\ y.cut = x.cut /\ y.next = x.next
      BY <3>1, <1>1, <1>2, <2>1, ZenonT(30) DEF JobRecords
    <3>3. ShardShape(y)
      BY Zenon, <3>2, <2>1, <2>3, <1>4 DEF ShardShape, Resends
    <3>4. QED
      BY Zenon, <2>1, <3>2, <3>3
  <2>4. QED
    BY Zenon, <2>2, <2>3
<1>5. QED
  BY Zenon, <1>3, <1>4 DEF ShardShape

\* What Publish and LoadEntry have in common: job j publishes its next message,
\* to the session's queue if the ACL allows it.
Pushes(j, allowed) ==
  /\ job[j].pc \in {"publish", "load"}
  /\ Inject(Head(job[j].todo), allowed) /\ Advance(j)
  /\ Distrust(session /\ ~allowed)
  /\ UNCHANGED <<rows, session, online, uplink, held>>

(* What is left of a job after it published a message: the rest of the same    *)
(* job, or nothing.                                                            *)
LEMMA PushesJob ==
  ASSUME Types, Shapes, NEW j \in Jobs, NEW allowed \in BOOLEAN, Pushes(j, allowed)
  PROVE  /\ job' \in [Jobs -> JobRecords]
         /\ \A k \in Jobs : k # j => job'[k] = job[k]
         /\ Shapes'
         /\ job[j].todo # <<>> /\ Head(job[j].todo) \in Messages
         /\ \/ job'[j] = Rest
            \/ job'[j].op = job[j].op /\ job'[j].path = job[j].path /\ job'[j].pc # "idle"
         /\ \A i \in DOMAIN job'[j].todo :
              i + 1 \in DOMAIN job[j].todo /\ job'[j].todo[i] = job[j].todo[i + 1]
<1>1. job[j] \in JobRecords /\ job[j].todo \in Seq(Messages) /\ Advance(j)
  BY Zenon DEF Types, Pushes, JobRecords
<1>2. \A k \in Jobs : k # j => job'[k] = job[k]
  BY Zenon, <1>1 DEF Advance, Types
<1>3. job[j].pc \in {"publish", "load"} /\ job[j] # Rest
  BY Zenon, RestIsJob DEF Pushes
<1>4. CASE j \in Calls
  <2>1. CallShape(job[j])
    BY Zenon, <1>3, <1>4 DEF Shapes
  <2>2. /\ job'[j] \in JobRecords /\ (job'[j] = Rest \/ CallShape(job'[j]))
        /\ job'[j] = Rest \/ (job'[j].op = job[j].op /\ job'[j].path = job[j].path /\ job'[j].pc # "idle")
        /\ job'[j].todo = <<>> /\ job[j].todo = <<Head(job[j].todo)>>
    BY Zenon, <1>1, <1>3, <1>4, <2>1, CallAdvances
  <2>3. job[j].todo # <<>>
    BY Zenon, <2>2, Single
  <2>4. Head(job[j].todo) \in Messages
    BY Zenon, <1>1, <2>3, HeadAndTail
  <2>5. job' \in [Jobs -> JobRecords]
    BY Zenon, <1>1, <1>2, <2>2 DEF Advance, Types
  <2>6. Shapes'
    BY <1>2, <1>4, <2>2, CallsAreRequests, JobNames DEF Shapes
  <2>7. QED
    BY <1>2, <2>2, <2>3, <2>4, <2>5, <2>6
<1>5. CASE j = Greeting
  <2>1. GreetingShape(job[j])
    BY Zenon, <1>3, <1>5 DEF Shapes
  <2>2. job'[j] = Rest /\ Head(job[j].todo).kind = "purge"
    BY Zenon, <1>1, <1>3, <1>5, <2>1, GreetingAdvances
  <2>3. PICK ps \in SUBSET Paths : job[j].todo = <<Purge(ps)>>
    BY Zenon, <2>1, <1>3 DEF GreetingShape, Lists
  <2>4. job[j].todo # <<>>
    BY Zenon, <2>3, Single
  <2>5. Head(job[j].todo) \in Messages
    BY Zenon, <1>1, <2>4, HeadAndTail
  <2>6. job' \in [Jobs -> JobRecords]
    BY Zenon, <1>1, <1>2, <2>2, RestIsJob DEF Advance, Types
  <2>7. Shapes'
    BY Zenon, <1>2, <1>5, <2>2, CallsAreRequests, JobNames DEF Shapes
  <2>8. QED
    BY <1>2, <2>2, <2>4, <2>5, <2>6, <2>7, RestIsJob
<1>6. CASE j = Shard
  <2>1. ShardShape(job[j])
    BY Zenon, <1>3, <1>6 DEF Shapes
  <2>2. /\ job'[j] \in JobRecords /\ ShardShape(job'[j])
        /\ job'[j].op = job[j].op /\ job'[j].path = job[j].path /\ job'[j].pc # "idle"
        /\ job[j].todo # <<>> /\ job'[j].todo = Tail(job[j].todo)
    BY Zenon, <1>1, <1>3, <1>6, <2>1, ShardAdvances
  <2>3. /\ Head(job[j].todo) \in Messages
        /\ \A i \in DOMAIN job'[j].todo :
              i + 1 \in DOMAIN job[j].todo /\ job'[j].todo[i] = job[j].todo[i + 1]
    BY <1>1, <2>2, HeadAndTail
  <2>4. job' \in [Jobs -> JobRecords]
    BY Zenon, <1>1, <1>2, <2>2 DEF Advance, Types
  <2>5. Shapes'
    BY <1>2, <1>6, <2>2, CallsAreRequests, JobNames DEF Shapes
  <2>6. QED
    BY Zenon, <1>2, <2>2, <2>3, <2>4, <2>5
<1>7. QED
  BY Zenon, <1>4, <1>5, <1>6 DEF Jobs

(* The message changes the device's due copy of the paths it is about, to what *)
(* the table holds if the message is current.                                  *)
LEMMA PushesDue ==
  ASSUME Types, NEW j \in Jobs, NEW allowed \in BOOLEAN, Pushes(j, allowed),
         session, allowed, Head(job[j].todo) \in Messages, NEW p \in Paths
  PROVE  LET m == Head(job[j].todo)
         IN /\ m.kind = "value" => Due(p)' = (IF p = m.path THEN m.value ELSE Due(p))
            /\ m.kind # "value" => m.kind = "purge" /\ Due(p)' = (IF p \in m.paths THEN Due(p) ELSE None)
            /\ IsCurrent(m) /\ Due(p) = rows[p] => Due(p)' = rows[p]
            /\ IsCurrent(m) /\ m.kind = "value" /\ m.path = p => Due(p)' = rows[p]
            /\ IsCurrent(m) /\ m.kind # "value" /\ rows[p] = None => Due(p)' = rows[p]
<1> DEFINE m == Head(job[j].todo)
<1>1. queue'[p] = Queued(m)[p] /\ held' = held
  BY Zenon DEF Pushes, Inject
<1>2. None # Keep /\ \A v \in Vals : v # Keep
  BY ValuesAreSet DEF None, Keep, Vals
<1>3. CASE m.kind = "value"
  <2>1. m.value \in Vals
    BY <1>3, ZenonT(30) DEF Messages
  <2>2. queue'[p] = IF p = m.path THEN m.value ELSE queue[p]
    BY Zenon, <1>1, <1>3 DEF Queued
  <2>3. Due(p)' = (IF p = m.path THEN m.value ELSE Due(p))
    BY Zenon, <1>1, <1>2, <2>1, <2>2 DEF Due
  <2>4. QED
    BY Zenon, <1>3, <2>3 DEF IsCurrent
<1>4. CASE m.kind # "value"
  <2>1. m.kind = "purge"
    BY <1>4, ZenonT(30) DEF Messages
  <2>2. queue'[p] = IF p \in m.paths THEN queue[p] ELSE None
    BY Zenon, <1>1, <2>1 DEF Queued
  <2>3. Due(p)' = (IF p \in m.paths THEN Due(p) ELSE None)
    BY Zenon, <1>1, <1>2, <2>2 DEF Due
  <2>4. IsCurrent(m) => (p \in m.paths <=> rows[p] # None)
    BY Zenon, <1>4 DEF IsCurrent, SetPaths
  <2>5. QED
    BY Zenon, <1>4, <2>1, <2>3, <2>4
<1>5. QED
  BY Zenon, <1>3, <1>4

LEMMA PushesTypes ==
  ASSUME Types, Shapes, NEW j \in Jobs, NEW allowed \in BOOLEAN, Pushes(j, allowed)
  PROVE  /\ retained' \in [Paths -> Vals] /\ queue' \in [Paths -> Vals \cup {Keep}]
         /\ trust' \in {trust, "no"} /\ (session /\ trust' # "no" => allowed)
<1> DEFINE m == Head(job[j].todo)
<1>1. m \in Messages
  BY Zenon, PushesJob
<1>2. retained' \in [Paths -> Vals]
  <2>1. CASE m.kind = "value"
    BY <1>1, <2>1, ZenonT(30) DEF Messages, Pushes, Inject, Types
  <2>2. CASE m.kind # "value"
    BY <1>1, <2>2, ZenonT(30) DEF Messages, Pushes, Inject, Types
  <2>3. QED
    BY Zenon, <2>1, <2>2
<1>3. Queued(m) \in [Paths -> Vals \cup {Keep}]
  <2>1. CASE m.kind = "value"
    BY <1>1, <2>1, ZenonT(30) DEF Messages, Queued, Types
  <2>2. CASE m.kind # "value"
    BY <1>1, <2>2, ZenonT(30) DEF Messages, Queued, Types, Vals
  <2>3. QED
    BY Zenon, <2>1, <2>2
<1>4. queue' \in [Paths -> Vals \cup {Keep}]
  BY Zenon, <1>3 DEF Pushes, Inject, Types
<1>5. QED
  BY Zenon, <1>2, <1>4 DEF Pushes, Distrust

LEMMA PushesAsked ==
  ASSUME Types, Shapes, Asked, NEW j \in Jobs, NEW allowed \in BOOLEAN, Pushes(j, allowed)
  PROVE  Asked'
<1>1. trust' \in {trust, "no"} /\ UNCHANGED <<session, online, uplink>>
  BY Zenon, PushesTypes DEF Pushes
<1>2. ~Idle(j)
  BY Zenon DEF Pushes, Idle
<1>3. CASE j = Shard
  <2>1. ShardShape(job[Shard])
    BY Zenon, <1>2, <1>3, RestIsJob DEF Shapes, Idle
  <2>2. job'[Shard].pc # "idle" /\ job'[Shard].cut = job[Shard].cut
    BY Zenon, <1>3, <2>1, ShardAdvances DEF Pushes
  <2>3. QED
    BY Zenon, <1>1, <1>2, <1>3, <2>2 DEF Asked, Idle
<1>4. CASE j # Shard
  <2>1. job'[Shard] = job[Shard]
    BY Zenon, <1>4, JobNames, PushesJob
  <2>2. QED
    BY Zenon, <1>1, <2>1 DEF Asked, Idle
<1>5. QED
  BY Zenon, <1>3, <1>4

LEMMA PushesCompatible ==
  ASSUME Types, Shapes, NEW j \in Jobs, NEW allowed \in BOOLEAN, Pushes(j, allowed), Compatible
  PROVE  Compatible'
<1>1. SUFFICES ASSUME NEW a \in Jobs, NEW b \in Jobs, a # b, ~Idle(a)', ~Idle(b)'
               PROVE  ~Conflict(job[a].op, job[a].path, b)'
  BY Zenon DEF Compatible, Conflict
<1>2. \A k \in Jobs : ~Idle(k)' => ~Idle(k) /\ job'[k].op = job[k].op /\ job'[k].path = job[k].path
  <2>1. SUFFICES ASSUME NEW k \in Jobs, ~Idle(k)'
                 PROVE  ~Idle(k) /\ job'[k].op = job[k].op /\ job'[k].path = job[k].path
    OBVIOUS
  <2>2. CASE k = j
    <3>1. job'[j] # Rest
      BY Zenon, <2>1, <2>2, RestIsJob DEF Idle
    <3>2. ~Idle(j)
      BY Zenon DEF Pushes, Idle
    <3>3. QED
      BY Zenon, <2>2, <3>1, <3>2, PushesJob
  <2>3. CASE k # j
    BY Zenon, <2>1, <2>3, PushesJob DEF Idle
  <2>4. QED
    BY Zenon, <2>2, <2>3
<1>3. ~Conflict(job[a].op, job[a].path, b)
  BY Zenon, <1>1, <1>2 DEF Compatible
<1>4. QED
  BY Zenon, <1>1, <1>2, <1>3 DEF Conflict, IsCall

LEMMA PushesCurrent ==
  ASSUME Types, Shapes, NEW j \in Jobs, NEW allowed \in BOOLEAN, Pushes(j, allowed), Current
  PROVE  Current' /\ IsCurrent(Head(job[j].todo))
<1>1. rows' = rows
  BY Zenon DEF Pushes
<1>2. ASSUME NEW k \in Jobs, NEW i \in DOMAIN job'[k].todo
      PROVE  IsCurrent(job'[k].todo[i])
  <2>1. CASE k = j
    BY Zenon, <1>2, <2>1, PushesJob DEF Current
  <2>2. CASE k # j
    BY Zenon, <1>2, <2>2, PushesJob DEF Current
  <2>3. QED
    BY Zenon, <2>1, <2>2
<1>3. Current'
  <2>1. SUFFICES ASSUME NEW k \in Jobs, NEW i \in DOMAIN job'[k].todo
                 PROVE  IsCurrent(job[k].todo[i])'
    BY Zenon DEF Current
  <2>2. IsCurrent(job'[k].todo[i])
    BY Zenon, <1>2, <2>1
  <2>3. QED
    BY Zenon, <2>2, <1>1 DEF IsCurrent, SetPaths
<1>4. IsCurrent(Head(job[j].todo))
  <2>1. job[j].todo \in Seq(Messages) /\ job[j].todo # <<>>
    BY Zenon, PushesJob DEF Types, JobRecords
  <2>2. 1 \in DOMAIN job[j].todo /\ job[j].todo[1] = Head(job[j].todo)
    BY Zenon, <2>1, HeadAndTail
  <2>3. QED
    BY Zenon, <2>2 DEF Current
<1>5. QED
  BY Zenon, <1>3, <1>4

LEMMA PushesAgrees ==
  ASSUME Types, Shapes, Asked, NEW j \in Jobs, NEW allowed \in BOOLEAN, Pushes(j, allowed),
         trust' # "no", Current, Agrees
  PROVE  Agrees'
<1> DEFINE m == Head(job[j].todo)
<1>1. SUFFICES ASSUME session', uplink' = <<>>, NEW p \in Paths
               PROVE  Due(p)' = rows'[p] \/ \E c \in Calls : Sends(job'[c]) /\ job'[c].path = p
  BY Zenon DEF Agrees
<1>2. session /\ uplink = <<>> /\ rows' = rows
  BY Zenon, <1>1 DEF Pushes
<1>3. allowed /\ IsCurrent(m) /\ m \in Messages
  BY Zenon, <1>2, PushesTypes, PushesCurrent, PushesJob
<1>4. CASE Due(p) = rows[p]
  BY <1>2, <1>3, <1>4, PushesDue, ZenonT(30)
<1>5. CASE \E c \in Calls : Sends(job[c]) /\ job[c].path = p
  <2>1. PICK c \in Calls : Sends(job[c]) /\ job[c].path = p
    BY Zenon, <1>5
  <2>2. CASE c = j
    <3>1. CallShape(job[j]) /\ job[j].pc \in {"publish", "load"} /\ Advance(j) /\ j \in Calls
      BY Zenon, <2>1, <2>2, RestIsJob DEF Shapes, Pushes
    <3>2. m.kind = "value" /\ m.path = p
      BY Zenon, <2>1, <2>2, <3>1, CallAdvances
    <3>3. QED
      BY <1>2, <1>3, <3>2, PushesDue, ZenonT(30)
  <2>3. CASE c # j
    <3>1. job'[c] = job[c]
      BY Zenon, <2>3, JobNames, PushesJob
    <3>2. QED
      BY Zenon, <2>1, <3>1
  <2>4. QED
    BY Zenon, <2>2, <2>3
<1>6. QED
  BY Zenon, <1>2, <1>4, <1>5 DEF Agrees

LEMMA PushesResyncs ==
  ASSUME Types, Shapes, Asked, NEW j \in Jobs, NEW allowed \in BOOLEAN, Pushes(j, allowed),
         trust' # "no", Compatible, Current, Resyncs
  PROVE  Resyncs'
<1> DEFINE m == Head(job[j].todo)
           x == job[Shard]
           y == job'[Shard]
           Left(z, p) == \E i \in DOMAIN z.todo : z.todo[i].kind = "value" /\ z.todo[i].path = p
<1>1. SUFFICES ASSUME y.pc # "idle", ~y.cut, NEW p \in Paths
               PROVE  /\ rows'[p] # None /\ y.pc # "resend" => Due(p)' = rows'[p] \/ Left(y, p)
                      /\ y.pc = "ack" => Due(p)' = rows'[p]
  BY Zenon DEF Resyncs, Idle
<1>2. rows' = rows
  BY Zenon DEF Pushes
<1>3. job[j].pc # "idle" /\ job[j] # Rest
  BY Zenon, RestIsJob DEF Pushes
<1>4. x.pc # "idle" /\ ~x.cut
  <2>1. CASE j = Shard
    <3>1. ShardShape(job[Shard])
      BY Zenon, <1>3, <2>1 DEF Shapes
    <3>2. y.cut = x.cut
      BY Zenon, <2>1, <3>1, ShardAdvances DEF Pushes
    <3>3. QED
      BY Zenon, <1>1, <1>3, <2>1, <3>2
  <2>2. CASE j # Shard
    <3>1. y = x
      BY Zenon, <2>2, JobNames, PushesJob
    <3>2. QED
      BY Zenon, <1>1, <3>1
  <2>3. QED
    BY Zenon, <2>1, <2>2
<1>5. session
  BY Zenon, <1>4 DEF Asked, Idle
<1>6. allowed /\ IsCurrent(m) /\ m \in Messages
  BY Zenon, <1>5, PushesTypes, PushesCurrent, PushesJob
<1>7. Due(p) = rows[p] => Due(p)' = rows[p]
  BY <1>5, <1>6, PushesDue, ZenonT(30)
<1>8. /\ rows[p] # None /\ x.pc # "resend" => Due(p) = rows[p] \/ Left(x, p)
      /\ x.pc = "ack" => Due(p) = rows[p]
  BY Zenon, <1>4 DEF Resyncs, Idle
<1>9. CASE j # Shard
  <2>1. y = x
    BY <1>9, JobNames, PushesJob
  <2>2. QED
    BY Zenon, <1>2, <1>7, <1>8, <2>1
<1>10. CASE j = Shard
  <2>1. ShardShape(x)
    BY Zenon, <1>3, <1>10 DEF Shapes
  <2>2. y.pc # "resend" /\ x.todo # <<>> /\ y.todo = Tail(x.todo) /\ (y.pc = "ack" => m.kind = "purge")
    BY Zenon, <1>10, <2>1, ShardAdvances DEF Pushes
  <2>3. x.pc # "resend" /\ x.todo \in Seq(Messages)
    BY Zenon, <1>10, JobNames DEF Pushes, Types, JobRecords
  <2>4. ASSUME Left(x, p) PROVE Due(p)' = rows[p] \/ Left(y, p)
    <3>1. PICK i \in DOMAIN x.todo : x.todo[i].kind = "value" /\ x.todo[i].path = p
      BY Zenon, <2>4
    <3>2. CASE i = 1
      <4>1. m.kind = "value" /\ m.path = p
        BY Zenon, <1>10, <2>2, <2>3, <3>1, <3>2, HeadAndTail
      <4>2. QED
        BY <4>1, <1>5, <1>6, PushesDue, ZenonT(30)
    <3>3. CASE i # 1
      <4>1. i - 1 \in DOMAIN y.todo /\ y.todo[i - 1] = x.todo[i]
        BY Zenon, <2>2, <2>3, <3>3, HeadAndTail
      <4>2. QED
        BY Zenon, <3>1, <4>1
    <3>4. QED
      BY Zenon, <3>2, <3>3
  <2>5. rows[p] # None => Due(p)' = rows[p] \/ Left(y, p)
    BY Zenon, <1>7, <1>8, <2>3, <2>4
  <2>6. ASSUME y.pc = "ack" PROVE Due(p)' = rows[p]
    <3>1. CASE rows[p] = None
      BY <1>5, <1>6, <2>2, <2>6, <3>1, PushesDue, ZenonT(30)
    <3>2. CASE rows[p] # None
      <4>1. y.todo = <<>>
        <5>1. ShardShape(y)
          BY Zenon, <1>10, <2>1, ShardAdvances DEF Pushes
        <5>2. QED
          BY Zenon, <5>1, <2>6 DEF ShardShape, Lists, Resends
      <4>2. ~Left(y, p)
        BY <4>1
      <4>3. QED
        BY Zenon, <2>5, <3>2, <4>2
    <3>3. QED
      BY Zenon, <3>1, <3>2
  <2>7. QED
    BY Zenon, <1>2, <2>5, <2>6
<1>11. QED
  BY Zenon, <1>9, <1>10

(* Publish and LoadEntry, for each of the three kinds of job. *)
LEMMA PushesKeeps ==
  ASSUME IInv, NEW j \in Jobs, NEW allowed \in BOOLEAN, Pushes(j, allowed),
         offline' \in {"none", "claimed", "has", "lacks"}
  PROVE  IInv'
<1>1. Types /\ Shapes /\ Asked /\ (trust # "no" => Compatible /\ Current /\ Agrees /\ Resyncs)
  BY Zenon DEF IInv
<1>2. Types'
  <2>1. UNCHANGED <<rows, session, online, uplink, held>>
    BY Zenon DEF Pushes
  <2>2. /\ job' \in [Jobs -> JobRecords] /\ retained' \in [Paths -> Vals]
        /\ queue' \in [Paths -> Vals \cup {Keep}] /\ trust' \in {trust, "no"}
    BY Zenon, <1>1, PushesJob, PushesTypes
  <2>3. QED
    BY Zenon, <1>1, <2>1, <2>2 DEF Types
<1>3. Shapes' /\ Asked'
  BY Zenon, <1>1, PushesJob, PushesAsked
<1>4. ASSUME trust' # "no" PROVE Compatible' /\ Current' /\ Agrees' /\ Resyncs'
  <2>1. trust # "no"
    BY Zenon, <1>1, <1>4, PushesTypes
  <2>2. Compatible' /\ Current'
    BY Zenon, <1>1, <2>1, PushesCompatible, PushesCurrent
  <2>3. Agrees' /\ Resyncs'
    BY Zenon, <1>1, <1>4, <2>1, PushesAgrees, PushesResyncs
  <2>4. QED
    BY Zenon, <2>2, <2>3
<1>5. QED
  BY Zenon, <1>2, <1>3, <1>4 DEF IInv

LEMMA PublishKeeps ==
  ASSUME IInv, NEW j \in Jobs, Publish(j)
  PROVE  IInv'
<1> DEFINE allowed == MayDeliver(Head(job[j].todo))
<1>1. allowed \in BOOLEAN
  BY Zenon DEF MayDeliver
<1>2. Pushes(j, allowed)
  BY Zenon DEF Publish, Pushes
<1>3. offline' \in {"none", "claimed", "has", "lacks"}
  BY Zenon DEF Publish, IInv, Types
<1>4. QED
  BY Zenon, <1>1, <1>2, <1>3, PushesKeeps

LEMMA LoadEntryKeeps ==
  ASSUME IInv, NEW j \in Jobs, LoadEntry(j)
  PROVE  IInv'
<1>1. CASE declared
  <2>1. Pushes(j, TRUE)
    BY Zenon, <1>1 DEF LoadEntry, Pushes, Inject, Distrust
  <2>2. QED
    BY <2>1, PushesKeeps, ZenonT(30) DEF LoadEntry, IInv, Types
<1>2. CASE ~declared
  <2>1. Pushes(j, FALSE)
    BY Zenon, <1>2 DEF LoadEntry, Pushes, Inject, Distrust
  <2>2. QED
    BY <2>1, PushesKeeps, ZenonT(30) DEF LoadEntry, IInv, Types
<1>3. QED
  BY Zenon, <1>1, <1>2

-----------------------------------------------------------------------------
(* Steps that leave the table alone *)

\* One job moves on, and publishes nothing.
Moves(j, y) ==
  /\ y \in JobRecords
  /\ job' = [job EXCEPT ![j] = y]
  /\ y = Rest \/ (~Idle(j) /\ y.op = job[j].op /\ y.path = job[j].path /\ y.pc # "idle")
  /\ UNCHANGED rows

(* A job that reads the table finds it as its other messages say, and keeps    *)
(* clear of the same jobs.                                                     *)
LEMMA MovesKeeps ==
  ASSUME Types, NEW j \in Jobs, NEW y, Moves(j, y),
         \A i \in DOMAIN y.todo : IsCurrent(y.todo[i])
  PROVE  /\ job' \in [Jobs -> JobRecords] /\ job'[j] = y /\ \A k \in Jobs : k # j => job'[k] = job[k]
         /\ Compatible => Compatible'
         /\ Current => Current'
<1>1. /\ job' \in [Jobs -> JobRecords] /\ job'[j] = y /\ \A k \in Jobs : k # j => job'[k] = job[k]
  BY Zenon DEF Moves, Types
<1>2. ASSUME Compatible PROVE Compatible'
  <2>1. SUFFICES ASSUME NEW a \in Jobs, NEW b \in Jobs, a # b, ~Idle(a)', ~Idle(b)'
                 PROVE  ~Conflict(job[a].op, job[a].path, b)'
    BY Zenon DEF Compatible, Conflict
  <2>2. \A k \in Jobs : ~Idle(k)' => ~Idle(k) /\ job'[k].op = job[k].op /\ job'[k].path = job[k].path
    BY Zenon, <1>1, RestIsJob DEF Moves, Idle
  <2>3. ~Conflict(job[a].op, job[a].path, b)
    BY Zenon, <1>2, <2>1, <2>2 DEF Compatible
  <2>4. QED
    BY Zenon, <2>1, <2>2, <2>3 DEF Conflict, IsCall
<1>3. ASSUME Current PROVE Current'
  <2>1. SUFFICES ASSUME NEW k \in Jobs, NEW i \in DOMAIN job'[k].todo
                 PROVE  IsCurrent(job[k].todo[i])'
    BY Zenon DEF Current
  <2>2. IsCurrent(job'[k].todo[i])
    BY Zenon, <1>1, <1>3, <2>1 DEF Current
  <2>3. QED
    BY Zenon, <2>2 DEF IsCurrent, SetPaths, Moves
<1>4. QED
  BY Zenon, <1>1, <1>2, <1>3

(* The device's due copy depends on the queue and the copy alone. *)
LEMMA AgreesKept ==
  ASSUME Agrees, UNCHANGED <<rows, queue, held, session, uplink>>,
         \A c \in Calls : Sends(job[c]) => Sends(job'[c]) /\ job'[c].path = job[c].path
  PROVE  Agrees'
<1>1. SUFFICES ASSUME session, uplink = <<>>, NEW p \in Paths
               PROVE  Due(p)' = rows[p] \/ \E c \in Calls : Sends(job'[c]) /\ job'[c].path = p
  BY Zenon DEF Agrees
<1>2. Due(p)' = Due(p)
  BY Zenon DEF Due
<1>3. QED
  BY Zenon, <1>1, <1>2 DEF Agrees

LEMMA ResyncsKept ==
  ASSUME Resyncs, UNCHANGED <<rows, queue, held>>, job'[Shard] = job[Shard]
  PROVE  Resyncs'
  BY DEF Resyncs, Idle, Due

LEMMA AskedKept ==
  ASSUME Asked, UNCHANGED <<session, online, uplink>>, trust' \in {trust, "no"},
         job'[Shard].pc = "idle" <=> job[Shard].pc = "idle", job'[Shard].cut = job[Shard].cut
  PROVE  Asked'
  BY Zenon DEF Asked, Idle

\* offlineACL claims its slot; the job goes on with the same message.
LEMMA ClaimEntryKeeps ==
  ASSUME IInv, NEW j \in Jobs, ClaimEntry(j)
  PROVE  IInv'
<1> DEFINE x == job[j]
           y == [x EXCEPT !.pc = "load"]
<1>1. Types /\ Shapes /\ Asked /\ (trust # "no" => Compatible /\ Current /\ Agrees /\ Resyncs)
  BY Zenon DEF IInv
<1>2. x \in JobRecords /\ x.pc = "publish" /\ job' = [job EXCEPT ![j] = y]
  BY Zenon, <1>1 DEF ClaimEntry, Types
<1>3. /\ y \in JobRecords /\ y.pc = "load" /\ y.op = x.op /\ y.path = x.path /\ y.todo = x.todo
      /\ y.next = x.next /\ y.cut = x.cut
  BY Zenon, <1>2 DEF JobRecords, Stages
<1>4. Moves(j, y)
  BY <1>2, <1>3 DEF Moves, ClaimEntry, Idle
<1>5. job' \in [Jobs -> JobRecords] /\ job'[j] = y /\ \A k \in Jobs : k # j => job'[k] = job[k]
  BY <1>1, <1>2, <1>3 DEF Types
<1>6. Types'
  BY Zenon, <1>1, <1>5 DEF Types, ClaimEntry
<1>7. x # Rest
  BY Zenon, <1>2, RestIsJob
<1>8. ~Lists(x)
  <2>1. SUFFICES ASSUME NEW ps \in SUBSET Paths, x.todo = <<Purge(ps)>> PROVE FALSE
    BY Zenon DEF Lists
  <2>2. Head(x.todo) = Purge(ps)
    BY Zenon, <2>1, Single
  <2>3. QED
    BY <2>2 DEF ClaimEntry, MustLoad, Purge
<1>9. Sends(x) => Sends(y)
  BY <1>3, ZenonT(30) DEF Sends
<1>10. Shapes'
  <2>1. CASE j \in Calls
    <3>1. CallShape(x)
      BY Zenon, <1>1, <1>7, <2>1 DEF Shapes
    <3>2. CallShape(y)
      BY Zenon, <3>1, <1>2, <1>3, <1>8, <1>9 DEF CallShape
    <3>3. QED
      BY Zenon, <1>1, <1>5, <2>1, <3>2, CallsAreRequests, JobNames DEF Shapes
  <2>2. CASE j = Greeting
    <3>1. GreetingShape(x)
      BY Zenon, <1>1, <1>7, <2>2 DEF Shapes
    <3>2. QED
      BY Zenon, <3>1, <1>2, <1>8 DEF GreetingShape
  <2>3. CASE j = Shard
    <3>1. ShardShape(x)
      BY Zenon, <1>1, <1>7, <2>3 DEF Shapes
    <3>2. ShardShape(y)
      BY Zenon, <3>1, <1>2, <1>3, <1>8 DEF ShardShape, Resends
    <3>3. QED
      BY Zenon, <1>1, <1>5, <2>3, <3>2, CallsAreRequests, JobNames DEF Shapes
  <2>4. QED
    BY Zenon, <2>1, <2>2, <2>3 DEF Jobs
<1>11. Asked'
  <2>1. job'[Shard].pc = "idle" <=> job[Shard].pc = "idle"
    BY Zenon, <1>2, <1>3, <1>5, JobNames
  <2>2. job'[Shard].cut = job[Shard].cut
    BY <1>3, <1>5, JobNames, ZenonT(30)
  <2>3. QED
    BY Zenon, <1>1, <2>1, <2>2, AskedKept DEF ClaimEntry
<1>12. ASSUME trust' # "no" PROVE Compatible' /\ Current' /\ Agrees' /\ Resyncs'
  <2>1. Compatible /\ Current /\ Agrees /\ Resyncs
    BY Zenon, <1>1, <1>12 DEF ClaimEntry
  <2>2. \A i \in DOMAIN y.todo : IsCurrent(y.todo[i])
    BY Zenon, <1>3, <2>1 DEF Current
  <2>3. Compatible' /\ Current'
    BY <1>1, <1>4, <2>1, <2>2, MovesKeeps, ZenonT(30)
  <2>4. \A c \in Calls : Sends(job[c]) => Sends(job'[c]) /\ job'[c].path = job[c].path
    BY <1>3, <1>5, <1>9, JobNames, ZenonT(30)
  <2>5. Agrees'
    BY Zenon, <2>1, <2>4, AgreesKept DEF ClaimEntry
  <2>6. CASE j # Shard
    BY Zenon, <1>5, <2>1, <2>3, <2>5, <2>6, JobNames, ResyncsKept DEF ClaimEntry
  <2>7. CASE j = Shard
    <3>1. \A p \in Paths : Due(p)' = Due(p) /\ rows'[p] = rows[p]
      BY Zenon DEF Due, ClaimEntry
    <3>2. Resyncs'
      BY <1>2, <1>3, <1>5, <2>1, <2>7, <3>1 DEF Resyncs, Idle
    <3>3. QED
      BY Zenon, <2>3, <2>5, <3>2
  <2>8. QED
    BY Zenon, <2>6, <2>7
<1>13. QED
  BY Zenon, <1>6, <1>10, <1>11, <1>12 DEF IInv

LEMMA SendConsumerPropertiesKeeps ==
  ASSUME IInv, NEW j \in Jobs, SendConsumerProperties(j)
  PROVE  IInv'
<1> DEFINE x == job[j]
           after == IF j = Shard THEN "ack" ELSE "idle"
           y == [x EXCEPT !.pc = "publish", !.todo = <<ConsumerProperties>>, !.next = after]
<1>1. Types /\ Shapes /\ Asked /\ (trust # "no" => Compatible /\ Current /\ Agrees /\ Resyncs)
  BY DEF IInv
<1>2. x \in JobRecords /\ x.pc = "list" /\ job' = [job EXCEPT ![j] = y]
  BY Zenon, <1>1 DEF SendConsumerProperties, Types, broker
<1>3. SetPaths \in SUBSET Paths /\ ConsumerProperties = Purge(SetPaths)
  BY Zenon DEF SetPaths, ConsumerProperties
<1>4. Purge(SetPaths) \in Messages
  BY Zenon, <1>3 DEF Messages, Purge
<1>5. <<ConsumerProperties>> \in Seq(Messages) /\ after \in Stages /\ "publish" \in Stages
  BY <1>3, <1>4 DEF Stages
<1>6. /\ y \in JobRecords /\ y.pc = "publish" /\ y.op = x.op /\ y.path = x.path
      /\ y.todo = <<Purge(SetPaths)>> /\ y.next = after /\ y.cut = x.cut
  BY <1>2, <1>3, <1>5, ZenonT(30) DEF JobRecords
<1>7. Moves(j, y)
  BY Zenon, <1>2, <1>6 DEF Moves, SendConsumerProperties, Idle, broker
<1>8. job' \in [Jobs -> JobRecords] /\ job'[j] = y /\ \A k \in Jobs : k # j => job'[k] = job[k]
  BY Zenon, <1>1, <1>2, <1>6 DEF Types
<1>9. Types'
  BY Zenon, <1>1, <1>8 DEF Types, SendConsumerProperties, broker
<1>10. x # Rest /\ Lists(y) /\ ~Sends(x)
  BY Zenon, <1>2, <1>3, <1>6, RestIsJob DEF Lists, Sends
<1>11. Shapes'
  <2>1. CASE j \in Calls
    <3>1. CallShape(x)
      BY Zenon, <1>1, <1>10, <2>1 DEF Shapes
    <3>2. x.op = "unset" /\ x.path \in Paths
      BY Zenon, <3>1, <1>2 DEF CallShape, Sends
    <3>3. after = "idle"
      BY Zenon, <2>1, CallsAreRequests
    <3>4. CallShape(y)
      BY Zenon, <3>2, <3>3, <1>6, <1>10 DEF CallShape
    <3>5. QED
      BY Zenon, <1>1, <1>8, <2>1, <3>4, CallsAreRequests, JobNames DEF Shapes
  <2>2. CASE j = Greeting
    <3>1. GreetingShape(x) /\ after = "idle"
      BY Zenon, <1>1, <1>10, <2>2, JobNames DEF Shapes
    <3>2. GreetingShape(y)
      BY Zenon, <3>1, <1>6, <1>10 DEF GreetingShape
    <3>3. QED
      BY Zenon, <1>1, <1>8, <2>2, <3>2, CallsAreRequests, JobNames DEF Shapes
  <2>3. CASE j = Shard
    <3>1. ShardShape(x)
      BY Zenon, <1>1, <1>10, <2>3 DEF Shapes
    <3>2. ShardShape(y)
      BY Zenon, <3>1, <1>6, <1>10, <2>3 DEF ShardShape
    <3>3. QED
      BY Zenon, <1>1, <1>8, <2>3, <3>2, CallsAreRequests, JobNames DEF Shapes
  <2>4. QED
    BY <2>1, <2>2, <2>3 DEF Jobs
<1>12. Asked'
  <2>1. job'[Shard].pc = "idle" <=> job[Shard].pc = "idle"
    BY Zenon, <1>2, <1>6, <1>8, JobNames
  <2>2. job'[Shard].cut = job[Shard].cut
    BY <1>6, <1>8, JobNames, ZenonT(30)
  <2>3. QED
    BY Zenon, <1>1, <2>1, <2>2, AskedKept DEF SendConsumerProperties, broker
<1>13. ASSUME trust' # "no" PROVE Compatible' /\ Current' /\ Agrees' /\ Resyncs'
  <2>1. Compatible /\ Current /\ Agrees /\ Resyncs
    BY Zenon, <1>1, <1>13 DEF SendConsumerProperties, broker
  <2>2. \A i \in DOMAIN y.todo : IsCurrent(y.todo[i])
    <3>1. IsCurrent(Purge(SetPaths))
      BY Zenon DEF IsCurrent, Purge
    <3>2. QED
      BY <3>1, <1>6, Single
  <2>3. Compatible' /\ Current'
    BY <1>1, <1>7, <2>1, <2>2, MovesKeeps, ZenonT(30)
  <2>4. \A c \in Calls : Sends(job[c]) => Sends(job'[c]) /\ job'[c].path = job[c].path
    BY Zenon, <1>8, <1>10, JobNames
  <2>5. Agrees'
    BY Zenon, <2>1, <2>4, AgreesKept DEF SendConsumerProperties, broker
  <2>6. CASE j # Shard
    BY Zenon, <1>8, <2>1, <2>3, <2>5, <2>6, JobNames, ResyncsKept DEF SendConsumerProperties, broker
  <2>7. CASE j = Shard
    <3>1. \A p \in Paths : Due(p)' = Due(p) /\ rows'[p] = rows[p]
      BY Zenon DEF Due, SendConsumerProperties, broker
    <3>2. x.todo = <<>>
      BY Zenon, <1>1, <1>2, <1>10, <2>7 DEF Shapes, ShardShape, Lists, Resends
    <3>3. ASSUME ~x.cut, NEW p \in Paths, rows[p] # None PROVE Due(p) = rows[p]
      BY <1>2, <2>1, <2>7, <3>2, <3>3 DEF Resyncs, Idle
    <3>4. Resyncs'
      BY <1>6, <1>8, <2>7, <3>1, <3>3, ZenonT(30) DEF Resyncs, Idle
    <3>5. QED
      BY <2>3, <2>5, <3>4
  <2>8. QED
    BY <2>6, <2>7
<1>14. QED
  BY <1>9, <1>11, <1>12, <1>13 DEF IInv

LEMMA ResendServerPropertiesKeeps ==
  ASSUME IInv, ResendServerProperties
  PROVE  IInv'
<1> DEFINE x == job[Shard]
           stage == IF Resend = <<>> THEN "list" ELSE "publish"
           y == [x EXCEPT !.pc = stage, !.todo = Resend, !.next = "list"]
<1>1. Types /\ Shapes /\ Asked /\ (trust # "no" => Compatible /\ Current /\ Agrees /\ Resyncs)
  BY Zenon DEF IInv
<1>2. Shard \in Jobs /\ x \in JobRecords /\ x.pc = "resend" /\ job' = [job EXCEPT ![Shard] = y]
  BY Zenon, <1>1, JobNames DEF ResendServerProperties, Types, broker
<1>3. /\ Resend \in Seq(Messages)
      /\ \A i \in DOMAIN Resend : Resend[i].kind = "value" /\ IsCurrent(Resend[i])
      /\ \A p \in Paths : rows[p] # None =>
           \E i \in DOMAIN Resend : Resend[i].kind = "value" /\ Resend[i].path = p
  BY Zenon, <1>1, ResendLists
<1>4. stage \in Stages /\ "list" \in Stages
  BY Zenon DEF Stages
<1>5. /\ y \in JobRecords /\ y.pc = stage /\ y.op = x.op /\ y.path = x.path
      /\ y.todo = Resend /\ y.next = "list" /\ y.cut = x.cut
  BY <1>2, <1>3, <1>4, ZenonT(30) DEF JobRecords
<1>6. Moves(Shard, y)
  BY <1>2, <1>5 DEF Moves, ResendServerProperties, Idle, broker
<1>7. job' \in [Jobs -> JobRecords] /\ job'[Shard] = y /\ \A k \in Jobs : k # Shard => job'[k] = job[k]
  BY Zenon, <1>1, <1>2, <1>5 DEF Types
<1>8. Types'
  BY Zenon, <1>1, <1>7 DEF Types, ResendServerProperties, broker
<1>9. ShardShape(x)
  BY Zenon, <1>1, <1>2, RestIsJob DEF Shapes
<1>10. ShardShape(y)
  <2>1. CASE Resend = <<>>
    BY Zenon, <1>5, <1>9, <2>1 DEF ShardShape
  <2>2. CASE Resend # <<>>
    BY <1>3, <1>5, <1>9, <2>2 DEF ShardShape, Resends
  <2>3. QED
    BY Zenon, <2>1, <2>2
<1>11. Shapes'
  BY Zenon, <1>1, <1>7, <1>10, CallsAreRequests, JobNames DEF Shapes
<1>12. Asked'
  BY <1>1, <1>2, <1>5, <1>7, AskedKept DEF ResendServerProperties, broker
<1>13. ASSUME trust' # "no" PROVE Compatible' /\ Current' /\ Agrees' /\ Resyncs'
  <2>1. Compatible /\ Current /\ Agrees /\ Resyncs
    BY Zenon, <1>1, <1>13 DEF ResendServerProperties, broker
  <2>2. Compatible' /\ Current'
    BY <1>1, <1>2, <1>3, <1>5, <1>6, <2>1, MovesKeeps, ZenonT(30)
  <2>3. Agrees'
    BY Zenon, <1>7, <2>1, AgreesKept, JobNames, CallsAreRequests DEF ResendServerProperties, broker
  <2>4. Resyncs'
    BY <1>3, <1>5, <1>7 DEF Resyncs, Idle, ResendServerProperties, broker
  <2>5. QED
    BY Zenon, <2>2, <2>3, <2>4
<1>14. QED
  BY <1>8, <1>11, <1>12, <1>13 DEF IInv

\* A failed read or publish ends a call or a greeting and starts a resync over.
LEMMA AttemptFailsKeeps ==
  ASSUME IInv, NEW j \in Jobs, AttemptFails(j)
  PROVE  IInv'
<1> DEFINE x == job[j]
           y == RetryFrom(j)
<1>1. Types /\ Shapes /\ Asked /\ (trust # "no" => Compatible /\ Current /\ Agrees /\ Resyncs)
  BY DEF IInv
<1>2. x \in JobRecords /\ x.pc \in {"list", "resend", "publish"} /\ job' = [job EXCEPT ![j] = y]
  BY Zenon, <1>1 DEF AttemptFails, Types
<1>3. x # Rest
  BY <1>2, RestIsJob, ZenonT(30)
<1>4. trust' \in {trust, "no"} /\ UNCHANGED <<rows, retained, held, queue, session, online, offline, uplink>>
  BY Zenon DEF AttemptFails, Distrust, broker
<1>5. /\ y \in JobRecords /\ y.todo = <<>>
      /\ j # Shard => y = Rest
      /\ j = Shard => /\ ShardShape(y) /\ y.pc = "resend" /\ y.op = x.op /\ y.path = x.path /\ y.cut = x.cut
  <2>1. CASE j # Shard
    BY Zenon, <2>1, RestIsJob DEF RetryFrom
  <2>2. CASE j = Shard
    <3>1. ShardShape(x)
      BY Zenon, <1>1, <1>3, <2>2 DEF Shapes
    <3>2. <<>> \in Seq(Messages) /\ "resend" \in Stages
      BY EmptySeq DEF Stages
    <3>3. y = [x EXCEPT !.pc = "resend", !.todo = <<>>]
      BY Zenon, <2>2 DEF RetryFrom
    <3>4. /\ y \in JobRecords /\ y.pc = "resend" /\ y.op = x.op /\ y.path = x.path /\ y.cut = x.cut
          /\ y.todo = <<>>
      BY <1>2, <3>2, <3>3, ZenonT(30) DEF JobRecords
    <3>5. ShardShape(y)
      BY Zenon, <3>1, <3>4 DEF ShardShape
    <3>6. QED
      BY Zenon, <2>2, <3>4, <3>5
  <2>3. QED
    BY Zenon, <2>1, <2>2
<1>6. Moves(j, y)
  BY Zenon, <1>2, <1>4, <1>5 DEF Moves, Idle
<1>7. job' \in [Jobs -> JobRecords] /\ job'[j] = y /\ \A k \in Jobs : k # j => job'[k] = job[k]
  BY Zenon, <1>1, <1>2, <1>5 DEF Types
<1>8. Types'
  BY Zenon, <1>1, <1>4, <1>7 DEF Types
<1>9. Shapes'
  <2>1. CASE j = Shard
    BY Zenon, <1>1, <1>5, <1>7, <2>1, CallsAreRequests, JobNames DEF Shapes
  <2>2. CASE j # Shard
    BY Zenon, <1>1, <1>5, <1>7, <2>2, JobNames DEF Shapes
  <2>3. QED
    BY Zenon, <2>1, <2>2
<1>10. Asked'
  <2>1. job'[Shard].pc = "idle" <=> job[Shard].pc = "idle"
    BY Zenon, <1>2, <1>5, <1>7, JobNames
  <2>2. job'[Shard].cut = job[Shard].cut
    BY Zenon, <1>5, <1>7, JobNames
  <2>3. QED
    BY Zenon, <1>1, <1>4, <2>1, <2>2, AskedKept
<1>11. ASSUME trust' # "no" PROVE Compatible' /\ Current' /\ Agrees' /\ Resyncs'
  <2>1. Compatible /\ Current /\ Agrees /\ Resyncs
    BY Zenon, <1>1, <1>4, <1>11
  <2>2. Compatible' /\ Current'
    BY <1>1, <1>5, <1>6, <2>1, MovesKeeps
  <2>3. \A c \in Calls : Sends(job[c]) => Sends(job'[c]) /\ job'[c].path = job[c].path
    <3>1. ~IsCall(j)
      BY Zenon, <1>11 DEF AttemptFails, Distrust
    <3>2. j \notin Calls
      BY Zenon, <1>1, <1>3, <3>1 DEF Shapes, CallShape, IsCall
    <3>3. QED
      BY Zenon, <1>7, <3>2, JobNames
  <2>4. Agrees'
    BY Zenon, <1>4, <2>1, <2>3, AgreesKept
  <2>5. CASE j # Shard
    BY Zenon, <1>4, <1>7, <2>1, <2>2, <2>4, <2>5, JobNames, ResyncsKept
  <2>6. CASE j = Shard
    <3>1. Resyncs'
      BY Zenon, <1>5, <1>7, <2>6 DEF Resyncs
    <3>2. QED
      BY <2>2, <2>4, <3>1
  <2>7. QED
    BY <2>5, <2>6
<1>12. QED
  BY <1>8, <1>9, <1>10, <1>11 DEF IInv

(* The acknowledgement: a resync that was not cut off leaves every path right. *)
LEMMA AckEmptyCacheKeeps ==
  ASSUME IInv, AckEmptyCache
  PROVE  IInv'
<1> DEFINE x == job[Shard]
<1>1. Types /\ Shapes /\ Asked /\ (trust # "no" => Compatible /\ Current /\ Agrees /\ Resyncs)
  BY DEF IInv
<1>2. Shard \in Jobs /\ x \in JobRecords /\ x.pc = "ack" /\ job' = [job EXCEPT ![Shard] = Rest] /\ x.cut \in BOOLEAN
  BY Zenon, <1>1, JobNames DEF AckEmptyCache, Ack, Types, JobRecords
<1>3. UNCHANGED <<rows, retained, held, queue, session, online, offline>>
  BY Zenon DEF AckEmptyCache, broker
<1>4. Moves(Shard, Rest)
  BY Zenon, <1>2, <1>3, RestIsJob DEF Moves
<1>5. job' \in [Jobs -> JobRecords] /\ job'[Shard] = Rest /\ \A k \in Jobs : k # Shard => job'[k] = job[k]
  BY Zenon, <1>1, <1>2, RestIsJob DEF Types
<1>6. trust' \in {"yes", "no"} /\ (trust' # "no" => trust # "no")
  BY Zenon, <1>1 DEF AckEmptyCache, Types
<1>7. (x.cut => uplink' = uplink /\ uplink # <<>>) /\ (~x.cut => uplink' = <<>>)
  BY <1>1, <1>2, Single, ZenonT(30) DEF AckEmptyCache, Ack, Asked, Idle
<1>8. Types'
  BY Zenon, <1>1, <1>3, <1>5, <1>6, <1>7 DEF Types, Requests
<1>9. Shapes'
  BY Zenon, <1>1, <1>5, CallsAreRequests, JobNames DEF Shapes
<1>10. Asked'
  BY Zenon, <1>1, <1>3, <1>5, <1>6, RestIsJob DEF Asked, Idle
<1>11. ASSUME trust' # "no" PROVE Compatible' /\ Current' /\ Agrees' /\ Resyncs'
  <2>1. Compatible /\ Current /\ Agrees /\ Resyncs
    BY Zenon, <1>1, <1>6, <1>11
  <2>2. Compatible' /\ Current'
    BY <1>1, <1>2, <1>4, <2>1, MovesKeeps, RestIsJob
  <2>3. ASSUME uplink' = <<>>, NEW p \in Paths PROVE Due(p)' = rows'[p]
    <3>1. ~x.cut
      BY Zenon, <1>7, <2>3
    <3>2. Due(p) = rows[p]
      BY Zenon, <1>2, <2>1, <3>1 DEF Resyncs, Idle
    <3>3. QED
      BY Zenon, <1>3, <3>2 DEF Due
  <2>4. Agrees'
    BY Zenon, <2>3 DEF Agrees
  <2>5. Resyncs'
    BY Zenon, <1>5, RestIsJob DEF Resyncs, Idle
  <2>6. QED
    BY <2>2, <2>4, <2>5
<1>12. QED
  BY <1>8, <1>9, <1>10, <1>11 DEF IInv

(* A resync that is given up leaves no trust, and the device without a request. *)
LEMMA RejectEmptyCacheKeeps ==
  ASSUME IInv, RejectEmptyCache
  PROVE  IInv'
<1> DEFINE x == job[Shard]
<1>1. Types /\ Shapes /\ Asked
  BY DEF IInv
<1>2. Shard \in Jobs /\ x \in JobRecords /\ x.pc \in {"resend", "list"} /\ x.cut \in BOOLEAN
  BY Zenon, <1>1, JobNames DEF RejectEmptyCache, Types, JobRecords
<1>3. job' = [job EXCEPT ![Shard] = Rest] /\ trust' = "no"
  BY Zenon DEF RejectEmptyCache, Ack, Distrust
<1>4. UNCHANGED <<rows, retained, held, queue, session, online, offline>>
  BY Zenon DEF RejectEmptyCache, broker
<1>5. job' \in [Jobs -> JobRecords] /\ job'[Shard] = Rest /\ \A k \in Jobs : k # Shard => job'[k] = job[k]
  BY Zenon, <1>1, <1>2, <1>3, RestIsJob DEF Types
<1>6. (x.cut => uplink' = uplink) /\ (~x.cut => uplink' = <<>>)
  BY <1>1, <1>2, Single, ZenonT(30) DEF RejectEmptyCache, Ack, Asked, Idle
<1>7. Types'
  BY Zenon, <1>1, <1>2, <1>3, <1>4, <1>5, <1>6 DEF Types, Requests
<1>8. Shapes'
  BY Zenon, <1>1, <1>5, CallsAreRequests, JobNames DEF Shapes
<1>9. Asked'
  BY Zenon, <1>1, <1>3, <1>4, <1>5, RestIsJob DEF Asked, Idle
<1>10. QED
  BY Zenon, <1>3, <1>7, <1>8, <1>9 DEF IInv

-----------------------------------------------------------------------------
(* Jobs that start *)

(* A job that starts while trust is kept, or restored, conflicts with none of  *)
(* the others, nor they with it.                                               *)
LEMMA BeginKeeps ==
  ASSUME Types, Shapes, trust # "no" => Compatible,
         NEW j \in Jobs, NEW op \in {"set", "unset", "greet", "resync"}, NEW path \in Paths \cup {None},
         NEW pc \in Stages \ {"idle"}, NEW todo \in Seq(Messages), NEW next \in Stages,
         Begin(j, op, path, pc, todo, next)
  PROVE  /\ job' \in [Jobs -> JobRecords] /\ \A k \in Jobs : k # j => job'[k] = job[k]
         /\ job'[j] = [pc |-> pc, op |-> op, path |-> path, todo |-> todo, next |-> next, cut |-> FALSE]
         /\ job[j] = Rest
         /\ trust' # "no" => \A k \in Jobs : k # j => ~Conflict(op, path, k)
         /\ trust' # "no" => trust # "no" \/ (op = "resync" /\ \A k \in Jobs : job[k] = Rest)
         /\ trust' \in {"yes", "restoring", "no"}
         /\ trust' = "restoring" => op = "resync" \/ trust = "restoring"
         /\ trust' # "no" => Compatible'
<1> DEFINE y == [pc |-> pc, op |-> op, path |-> path, todo |-> todo, next |-> next, cut |-> FALSE]
<1>1. y \in JobRecords
  BY Zenon DEF JobRecords
<1>2. job' \in [Jobs -> JobRecords] /\ job'[j] = y /\ \A k \in Jobs : k # j => job'[k] = job[k]
  BY Zenon, <1>1 DEF Begin, Types
<1>3. \A k \in Jobs : Idle(k) => job[k] = Rest
  <2>1. SUFFICES ASSUME NEW k \in Jobs, Idle(k) PROVE job[k] = Rest
    OBVIOUS
  <2>2. CASE k \in Calls
    BY <2>1, <2>2, ZenonT(30) DEF Shapes, CallShape, Sends, Lists, Idle
  <2>3. CASE k = Greeting
    BY Zenon, <2>1, <2>3 DEF Shapes, GreetingShape, Lists, Idle
  <2>4. CASE k = Shard
    BY Zenon, <2>1, <2>4 DEF Shapes, ShardShape, Lists, Resends, Idle
  <2>5. QED
    BY Zenon, <2>2, <2>3, <2>4 DEF Jobs
<1>4. job[j] = Rest
  BY Zenon, <1>3 DEF Begin
<1>5. trust' # "no" => \A k \in Jobs : k # j => ~Conflict(op, path, k)
  BY Zenon DEF Begin
<1>6. /\ trust' # "no" => trust # "no" \/ (op = "resync" /\ \A k \in Jobs : job[k] = Rest)
      /\ trust' \in {"yes", "restoring", "no"}
      /\ trust' = "restoring" => op = "resync" \/ trust = "restoring"
  BY Zenon, <1>3, <1>4 DEF Begin, Types
<1>7. ASSUME trust' # "no" PROVE Compatible'
  <2>1. SUFFICES ASSUME NEW a \in Jobs, NEW b \in Jobs, a # b, ~Idle(a)', ~Idle(b)'
                 PROVE  ~Conflict(job[a].op, job[a].path, b)'
    BY Zenon DEF Compatible, Conflict
  <2>2. y.pc = pc /\ y.op = op /\ y.path = path
    BY Zenon
  <2>3. CASE a = j
    <3>1. job'[b] = job[b]
      BY <1>2, <2>1, <2>3, ZenonT(30)
    <3>2. ~Conflict(op, path, b)
      BY Zenon, <1>5, <1>7, <2>1, <2>3
    <3>3. QED
      BY Zenon, <1>2, <2>2, <2>3, <3>1, <3>2 DEF Conflict, IsCall, Idle
  <2>4. CASE b = j
    <3>1. job'[a] = job[a] /\ ~Idle(a)
      BY Zenon, <1>2, <2>1, <2>4 DEF Idle
    <3>2. ~Conflict(op, path, a)
      BY Zenon, <1>5, <1>7, <2>1, <2>4
    <3>3. QED
      BY Zenon, <1>2, <2>1, <2>2, <2>4, <3>1, <3>2 DEF Conflict, IsCall, Idle
  <2>5. CASE a # j /\ b # j
    <3>1. job'[a] = job[a] /\ job'[b] = job[b]
      BY Zenon, <1>2, <2>5
    <3>2. ~Idle(a) /\ Compatible
      BY Zenon, <1>6, <1>7, <2>1, <3>1, RestIsJob DEF Idle
    <3>3. QED
      BY Zenon, <2>1, <3>1, <3>2 DEF Compatible, Conflict, IsCall, Idle
  <2>6. QED
    BY Zenon, <2>3, <2>4, <2>5
<1>8. QED
  BY Zenon, <1>2, <1>4, <1>5, <1>6, <1>7

LEMMA HandleEmptyCacheKeeps ==
  ASSUME IInv, HandleEmptyCache
  PROVE  IInv'
<1> DEFINE y == [pc |-> "resend", op |-> "resync", path |-> None, todo |-> <<>>, next |-> "list",
                 cut |-> FALSE]
<1>1. Types /\ Shapes /\ Asked /\ (trust # "no" => Compatible /\ Current /\ Agrees /\ Resyncs)
  BY DEF IInv
<1>2. Begin(Shard, "resync", None, "resend", <<>>, "list") /\ Shard \in Jobs
  BY Zenon, JobNames DEF HandleEmptyCache
<1>3. /\ None \in Paths \cup {None} /\ "resend" \in Stages \ {"idle"} /\ "list" \in Stages
      /\ "resync" \in {"set", "unset", "greet", "resync"} /\ <<>> \in Seq(Messages)
  BY Zenon, EmptySeq DEF Stages
<1>4. /\ job' \in [Jobs -> JobRecords] /\ \A k \in Jobs : k # Shard => job'[k] = job[k]
      /\ job'[Shard] = y /\ trust' \in {"yes", "restoring", "no"}
      /\ trust' # "no" => trust # "no" \/ \A k \in Jobs : job[k] = Rest
      /\ trust' # "no" => Compatible'
  <2>1. trust # "no" => Compatible
    BY Zenon, <1>1
  <2>2. job' \in [Jobs -> JobRecords] /\ \A k \in Jobs : k # Shard => job'[k] = job[k]
    BY <1>1, <1>2, <1>3, <2>1, BeginKeeps, ZenonT(30)
  <2>3. job'[Shard] = y
    BY Zenon, <1>1, <1>2 DEF Begin, Types
  <2>4. trust' \in {"yes", "restoring", "no"}
    BY <1>1, <1>2, <1>3, <2>1, BeginKeeps, ZenonT(30)
  <2>5. trust' # "no" => trust # "no" \/ \A k \in Jobs : job[k] = Rest
    BY <1>1, <1>2, <1>3, <2>1, BeginKeeps, ZenonT(30)
  <2>6. trust' # "no" => Compatible'
    BY <1>1, <1>2, <1>3, <2>1, BeginKeeps, ZenonT(30)
  <2>7. QED
    BY Zenon, <2>2, <2>3, <2>4, <2>5, <2>6
<1>5. UNCHANGED <<rows, retained, session, online, offline, queue, uplink, held>>
  BY Zenon DEF HandleEmptyCache, broker
<1>6. uplink = <<"emptyCache">> /\ online
  BY <1>1 DEF HandleEmptyCache, Types, Requests
<1>7. y.pc = "resend" /\ y.op = "resync" /\ y.todo = <<>> /\ y.cut = FALSE
  OBVIOUS
<1> HIDE DEF y
<1>8. Types'
  BY Zenon, <1>1, <1>4, <1>5 DEF Types
<1>9. Shapes'
  <2>1. ShardShape(y)
    BY Zenon, <1>7 DEF ShardShape
  <2>2. QED
    BY Zenon, <1>1, <1>4, <2>1, CallsAreRequests, JobNames DEF Shapes
<1>10. Asked'
  BY Zenon, <1>1, <1>4, <1>5, <1>6, <1>7, EmptySeq DEF Asked, Idle
<1>11. ASSUME trust' # "no" PROVE Current' /\ Agrees' /\ Resyncs'
  <2>1. Current'
    <3>1. SUFFICES ASSUME NEW k \in Jobs, NEW i \in DOMAIN job'[k].todo
                   PROVE  IsCurrent(job[k].todo[i])'
      BY Zenon DEF Current
    <3>2. k # Shard /\ job'[k] = job[k]
      BY Zenon, <1>4, <1>7, <3>1, EmptySeq
    <3>3. Current
      BY Zenon, <1>1, <1>4, <1>11, <3>1, <3>2, RestIsJob, EmptySeq
    <3>4. IsCurrent(job[k].todo[i])
      BY Zenon, <3>1, <3>2, <3>3 DEF Current
    <3>5. QED
      BY Zenon, <1>5, <3>2, <3>4 DEF IsCurrent, SetPaths
  <2>2. Agrees'
    BY Zenon, <1>5, <1>6, EmptySeq DEF Agrees
  <2>3. Resyncs'
    BY Zenon, <1>4, <1>7 DEF Resyncs
  <2>4. QED
    BY Zenon, <2>1, <2>2, <2>3
<1>12. QED
  BY Zenon, <1>4, <1>8, <1>9, <1>10, <1>11 DEF IInv

(* What a broken connection leaves of a resync is cut off. *)
LEMMA OfflineCuts ==
  ASSUME Asked, ~online
  PROVE  Idle(Shard) \/ job[Shard].cut
  BY Zenon DEF Asked

LEMMA ConnectKeeps ==
  ASSUME IInv, Connect
  PROVE  IInv'
<1> DEFINE y == [pc |-> "list", op |-> "greet", path |-> None, todo |-> <<>>, next |-> "idle",
                 cut |-> FALSE]
<1>1. Types /\ Shapes /\ Asked /\ (trust # "no" => Compatible /\ Current /\ Agrees /\ Resyncs)
  BY DEF IInv
<1>2. Begin(Greeting, "greet", None, "list", <<>>, "idle") /\ Greeting \in Jobs /\ ~online
  BY Zenon, JobNames DEF Connect
<1>3. /\ None \in Paths \cup {None} /\ "list" \in Stages \ {"idle"} /\ "idle" \in Stages
      /\ "greet" \in {"set", "unset", "greet", "resync"} /\ <<>> \in Seq(Messages)
  BY Zenon, EmptySeq DEF Stages
<1>4. trust # "no" => Compatible
  BY <1>1
<1>5. job' \in [Jobs -> JobRecords] /\ \A k \in Jobs : k # Greeting => job'[k] = job[k]
  BY <1>1, <1>2, <1>3, <1>4, BeginKeeps, ZenonT(30)
<1>6. job'[Greeting] = y
  BY Zenon, <1>1, <1>2 DEF Begin, Types
<1>7. /\ trust' \in {"yes", "restoring", "no"} /\ (trust' = "restoring" => trust = "restoring")
      /\ trust' # "no" => trust # "no"
  BY <1>1, <1>2, <1>3, <1>4, BeginKeeps, ZenonT(30)
<1>8. trust' # "no" => Compatible'
  BY <1>1, <1>2, <1>3, <1>4, BeginKeeps, ZenonT(30)
<1>9. y.pc = "list" /\ y.op = "greet" /\ y.todo = <<>>
  OBVIOUS
<1> HIDE DEF y
<1>10. UNCHANGED <<rows, retained, offline, held>> /\ online' = TRUE /\ session' = TRUE
  BY Zenon DEF Connect
<1>11. job'[Shard] = job[Shard] /\ (Idle(Shard) \/ job[Shard].cut)
  BY Zenon, <1>1, <1>2, <1>5, OfflineCuts, JobNames
<1>12. Types'
  <2>1. Subscribed \in [Paths -> Vals \cup {Keep}]
    BY Zenon, <1>1 DEF Subscribed, Types
  <2>2. queue' \in [Paths -> Vals \cup {Keep}] /\ uplink' \in Requests
    BY Zenon, <1>1, <2>1 DEF Connect, Types, Requests
  <2>3. QED
    BY Zenon, <1>1, <1>5, <1>7, <1>10, <2>2 DEF Types
<1>13. Shapes'
  <2>1. GreetingShape(y)
    BY Zenon, <1>9 DEF GreetingShape
  <2>2. QED
    BY Zenon, <1>1, <1>5, <1>6, <2>1, CallsAreRequests, JobNames DEF Shapes
<1>14. Asked'
  <2>1. ~Idle(Shard) => uplink' # <<>>
    BY Zenon, <1>1, EmptySeq DEF Connect, Asked
  <2>2. QED
    BY Zenon, <1>1, <1>7, <1>10, <1>11, <2>1 DEF Asked, Idle
<1>15. ASSUME trust' # "no" PROVE Current' /\ Agrees' /\ Resyncs'
  <2>1. Current /\ Agrees
    BY Zenon, <1>1, <1>7, <1>15
  <2>2. Current'
    <3>1. SUFFICES ASSUME NEW k \in Jobs, NEW i \in DOMAIN job'[k].todo
                   PROVE  IsCurrent(job[k].todo[i])'
      BY DEF Current
    <3>2. k # Greeting /\ job'[k] = job[k]
      BY Zenon, <1>5, <1>6, <1>9, <3>1, EmptySeq
    <3>3. IsCurrent(job[k].todo[i])
      BY Zenon, <2>1, <3>1, <3>2 DEF Current
    <3>4. QED
      BY Zenon, <1>10, <3>2, <3>3 DEF IsCurrent, SetPaths
  <2>3. Agrees'
    <3>1. CASE session
      <4>1. UNCHANGED <<rows, queue, held, session, uplink>>
        BY Zenon, <1>10, <3>1 DEF Connect
      <4>2. \A c \in Calls : job'[c] = job[c]
        BY Zenon, <1>5, CallsAreRequests, JobNames
      <4>3. QED
        BY Zenon, <2>1, <4>1, <4>2, AgreesKept
    <3>2. CASE ~session
      BY Zenon, <3>2, EmptySeq DEF Connect, Agrees
    <3>3. QED
      BY Zenon, <3>1, <3>2
  <2>4. Resyncs'
    BY <1>11 DEF Resyncs, Idle
  <2>5. QED
    BY <2>2, <2>3, <2>4
<1>16. QED
  BY Zenon, <1>8, <1>12, <1>13, <1>14, <1>15 DEF IInv

LEMMA DisconnectKeeps ==
  ASSUME IInv, Disconnect
  PROVE  IInv'
<1> DEFINE x == job[Shard]
           y == [x EXCEPT !.cut = ~Idle(Shard)]
<1>1. Types /\ Shapes /\ Asked /\ (trust # "no" => Compatible /\ Current /\ Agrees /\ Resyncs)
  BY DEF IInv
<1>2. Shard \in Jobs /\ x \in JobRecords /\ job' = [job EXCEPT ![Shard] = y]
  BY Zenon, <1>1, JobNames DEF Disconnect, Types
<1>3. UNCHANGED <<rows, retained, session, offline, queue, uplink, held, trust>> /\ online' = FALSE
  BY Zenon DEF Disconnect
<1>4. /\ y \in JobRecords /\ y.pc = x.pc /\ y.op = x.op /\ y.path = x.path /\ y.todo = x.todo
      /\ y.next = x.next
  BY <1>2, ZenonT(30) DEF JobRecords
<1>5. y.pc # "idle" => y.cut = TRUE
  BY Zenon, <1>2, <1>4 DEF Idle, JobRecords
<1>6. x = Rest => y = Rest
  BY RestIsJob, ZenonT(30) DEF Rest, Idle
<1>7. job' \in [Jobs -> JobRecords] /\ job'[Shard] = y /\ \A k \in Jobs : k # Shard => job'[k] = job[k]
  BY Zenon, <1>1, <1>2, <1>4 DEF Types
<1>8. ShardShape(x) => ShardShape(y)
  BY Zenon, <1>4 DEF ShardShape, Lists, Resends
<1>9. Types'
  BY <1>1, <1>3, <1>7, ZenonT(30) DEF Types
<1>10. Shapes'
  BY Zenon, <1>1, <1>6, <1>7, <1>8, CallsAreRequests, JobNames DEF Shapes
<1>11. Asked'
  BY Zenon, <1>1, <1>3, <1>4, <1>5, <1>7 DEF Asked, Idle
<1>12. ASSUME trust' # "no" PROVE Compatible' /\ Current' /\ Agrees' /\ Resyncs'
  <2>1. Compatible /\ Current /\ Agrees
    BY Zenon, <1>1, <1>3, <1>12
  <2>2. Moves(Shard, y)
    <3>1. CASE x = Rest
      BY Zenon, <1>2, <1>3, <1>4, <1>6, <3>1 DEF Moves
    <3>2. CASE x # Rest
      <4>1. x.pc # "idle"
        BY Zenon, <1>1, <3>2 DEF Shapes, ShardShape, Lists, Resends
      <4>2. QED
        BY Zenon, <1>2, <1>3, <1>4, <4>1 DEF Moves, Idle
    <3>3. QED
      BY Zenon, <3>1, <3>2
  <2>3. \A i \in DOMAIN y.todo : IsCurrent(y.todo[i])
    BY Zenon, <1>2, <1>4, <2>1 DEF Current
  <2>4. Compatible' /\ Current'
    BY <1>1, <1>2, <2>1, <2>2, <2>3, MovesKeeps, ZenonT(30)
  <2>5. Agrees'
    BY Zenon, <1>3, <1>7, <2>1, AgreesKept, CallsAreRequests, JobNames
  <2>6. Resyncs'
    BY Zenon, <1>5, <1>7 DEF Resyncs, Idle
  <2>7. QED
    BY <2>4, <2>5, <2>6
<1>13. QED
  BY <1>9, <1>10, <1>11, <1>12 DEF IInv

(* Steps of the device and the broker that leave every job alone. *)
LEMMA QuietStepKeeps ==
  ASSUME IInv, UNCHANGED <<rows, job, trust>>, Types', Asked', Agrees => Agrees', Resyncs => Resyncs'
  PROVE  IInv'
<1>1. Types /\ Shapes /\ (trust # "no" => Compatible /\ Current /\ Agrees /\ Resyncs)
  BY Zenon DEF IInv
<1>2. Shapes'
  BY Zenon, <1>1 DEF Shapes
<1>3. Compatible => Compatible'
  BY Zenon DEF Compatible, Conflict, IsCall, Idle
<1>4. Current => Current'
  BY Zenon DEF Current, IsCurrent, SetPaths
<1>5. QED
  BY Zenon, <1>1, <1>2, <1>3, <1>4 DEF IInv

\* The device's due copy is what it holds after it took the queue.
LEMMA DeliverKeeps ==
  ASSUME IInv, Deliver
  PROVE  IInv'
<1>1. Types /\ Asked
  BY Zenon DEF IInv
<1>2. UNCHANGED <<rows, retained, session, online, offline, uplink, job, trust>>
  BY Zenon DEF Deliver
<1>3. Types'
  <2>1. held' \in [Paths -> Vals]
    BY Zenon, <1>1 DEF Deliver, Types
  <2>2. queue' \in [Paths -> Vals \cup {Keep}]
    BY Zenon DEF Deliver, Nothing
  <2>3. QED
    BY Zenon, <1>1, <1>2, <2>1, <2>2 DEF Types
<1>4. \A p \in Paths : Due(p)' = Due(p)
  BY Zenon DEF Due, Deliver, Nothing
<1>5. Asked'
  BY Zenon, <1>1, <1>2 DEF Asked, Idle
<1>6. Agrees => Agrees'
  BY Zenon, <1>2, <1>4 DEF Agrees
<1>7. Resyncs => Resyncs'
  BY Zenon, <1>2, <1>4 DEF Resyncs, Idle
<1>8. QED
  BY Zenon, <1>2, <1>3, <1>5, <1>6, <1>7, QuietStepKeeps

LEMMA SessionExpiresKeeps ==
  ASSUME IInv, SessionExpires
  PROVE  IInv'
<1>1. Types /\ Asked
  BY DEF IInv
<1>2. UNCHANGED <<rows, retained, online, offline, uplink, held, job, trust>> /\ session' = FALSE /\ ~online
  BY Zenon DEF SessionExpires
<1>3. Types'
  <2>1. queue' \in [Paths -> Vals \cup {Keep}]
    BY Zenon DEF SessionExpires, Nothing
  <2>2. QED
    BY <1>1, <1>2, <2>1, ZenonT(30) DEF Types
<1>4. Asked'
  BY Zenon, <1>1, <1>2 DEF Asked, Idle
<1>5. Agrees'
  BY Zenon, <1>2 DEF Agrees
<1>6. Resyncs'
  BY Zenon, <1>1, <1>2, OfflineCuts DEF Resyncs, Idle
<1>7. QED
  BY Zenon, <1>2, <1>3, <1>4, <1>5, <1>6, QuietStepKeeps

LEMMA EntryExpiresKeeps ==
  ASSUME IInv, EntryExpires
  PROVE  IInv'
<1>1. Types /\ Asked
  BY DEF IInv
<1>2. /\ UNCHANGED <<rows, retained, session, online, queue, uplink, held, job, trust>>
      /\ offline' \in {"none", "claimed", "has", "lacks"}
  BY Zenon DEF EntryExpires
<1>3. Types'
  BY Zenon, <1>1, <1>2 DEF Types
<1>4. Asked' /\ (Agrees => Agrees') /\ (Resyncs => Resyncs')
  BY Zenon, <1>1, <1>2 DEF Asked, Agrees, Resyncs, Due, Idle
<1>5. QED
  BY Zenon, <1>2, <1>3, <1>4, QuietStepKeeps

LEMMA HandleIntrospectionKeeps ==
  ASSUME IInv, HandleIntrospection \/ RejectIntrospection
  PROVE  IInv'
<1>1. Types /\ Asked
  BY DEF IInv
<1>2. UNCHANGED <<rows, retained, session, online, offline, queue, held, job, trust>> /\ Idle(Shard)
  BY Zenon DEF HandleIntrospection, RejectIntrospection, broker
<1>3. uplink' = <<"emptyCache">>
  <2>1. \A a, b : Head(<<a, b>>) = a /\ Tail(<<a, b>>) = <<b>>
    OBVIOUS
  <2>2. uplink = <<"introspection", "emptyCache">>
    BY <1>1, Single DEF HandleIntrospection, RejectIntrospection, Types, Requests
  <2>3. QED
    BY Zenon, <2>1, <2>2 DEF HandleIntrospection, RejectIntrospection
<1>4. Types'
  BY Zenon, <1>1, <1>2, <1>3 DEF Types, Requests
<1>5. Asked'
  BY Zenon, <1>1, <1>2 DEF Asked, Idle
<1>6. Agrees'
  BY Zenon, <1>3, EmptySeq DEF Agrees
<1>7. Resyncs'
  BY Zenon, <1>2 DEF Resyncs, Idle
<1>8. QED
  BY Zenon, <1>2, <1>4, <1>5, <1>6, <1>7, QuietStepKeeps

(* A restart while no call was between its row and its publish loses nothing. *)
LEMMA CrashKeeps ==
  ASSUME IInv, Crash
  PROVE  IInv'
<1>1. Types /\ Shapes /\ Asked /\ (trust # "no" => Compatible /\ Current /\ Agrees /\ Resyncs)
  BY DEF IInv
<1>2. /\ UNCHANGED <<rows, retained, session, queue, uplink, held>> /\ online' = FALSE
      /\ offline' = "none" /\ trust' \in {trust, "no"} /\ trust' # "restoring"
      /\ trust' # "no" => trust # "no" /\ \A j \in Jobs : ~(IsCall(j) /\ ~Idle(j))
  BY Zenon DEF Crash, Distrust
<1>3. job' \in [Jobs -> JobRecords] /\ \A j \in Jobs : job'[j] = Rest
  BY Zenon, RestIsJob DEF Crash
<1>4. Types'
  BY <1>1, <1>2, <1>3, ZenonT(30) DEF Types
<1>5. Shapes'
  BY Zenon, <1>3, JobNames DEF Shapes
<1>6. Asked'
  BY Zenon, <1>2, <1>3, JobNames, RestIsJob DEF Asked, Idle
<1>7. ASSUME trust' # "no" PROVE Compatible' /\ Current' /\ Agrees' /\ Resyncs'
  <2>1. Compatible'
    BY Zenon, <1>3, RestIsJob DEF Compatible, Idle
  <2>2. Current'
    BY Zenon, <1>3, RestIsJob, EmptySeq DEF Current
  <2>3. \A c \in Calls : ~Sends(job[c])
    <3>1. SUFFICES ASSUME NEW c \in Calls, Sends(job[c]) PROVE FALSE
      OBVIOUS
    <3>2. CallShape(job[c])
      BY Zenon, <1>1, <3>1, RestIsJob DEF Shapes
    <3>3. IsCall(c) /\ ~Idle(c) /\ c \in Jobs
      BY Zenon, <3>1, <3>2, JobNames DEF CallShape, Sends, IsCall, Idle
    <3>4. QED
      BY Zenon, <1>2, <1>7, <3>3
  <2>4. Agrees'
    <3>1. Agrees
      BY Zenon, <1>1, <1>2, <1>7
    <3>2. QED
      BY Zenon, <1>2, <2>3, <3>1, AgreesKept
  <2>5. Resyncs'
    BY Zenon, <1>3, JobNames, RestIsJob DEF Resyncs, Idle
  <2>6. QED
    BY Zenon, <2>1, <2>2, <2>4, <2>5
<1>8. QED
  BY <1>4, <1>5, <1>6, <1>7 DEF IInv

-----------------------------------------------------------------------------
(* The requests *)

\* What PUT and DELETE have in common: the row of p becomes v, and is published next.
Writes(c, op, p, v) ==
  /\ rows' = [rows EXCEPT ![p] = v]
  /\ Begin(c, op, p, "publish", <<Value(p, v, TRUE)>>, IF op = "unset" THEN "list" ELSE "idle")
  /\ UNCHANGED <<retained, session, online, offline, queue, uplink, held>>

(* While trust is kept, whatever else is at work says nothing of p.            *)
LEMMA RequestKeeps ==
  ASSUME IInv, NEW c \in Calls, NEW op \in {"set", "unset"}, NEW p \in Paths, NEW v \in Vals,
         Writes(c, op, p, v)
  PROVE  IInv'
<1> DEFINE next == IF op = "unset" THEN "list" ELSE "idle"
           todo == <<Value(p, v, TRUE)>>
           y == [pc |-> "publish", op |-> op, path |-> p, todo |-> todo, next |-> next, cut |-> FALSE]
<1>1. Types /\ Shapes /\ Asked /\ (trust # "no" => Compatible /\ Current /\ Agrees /\ Resyncs)
  BY Zenon DEF IInv
<1>2. Begin(c, op, p, "publish", todo, next) /\ c \in Jobs /\ c # Shard /\ c # Greeting
  BY Zenon, JobNames, CallsAreRequests DEF Writes
<1>3. Value(p, v, TRUE) \in Messages
  BY ZenonT(30) DEF Messages, Value
<1>4. /\ p \in Paths \cup {None} /\ "publish" \in Stages \ {"idle"} /\ next \in Stages
      /\ op \in {"set", "unset", "greet", "resync"} /\ todo \in Seq(Messages)
  <2>1. todo \in Seq(Messages)
    <3>1. \A m \in Messages : <<m>> \in Seq(Messages)
      OBVIOUS
    <3>2. QED
      BY <1>3, <3>1, ZenonT(30)
  <2>2. "publish" \in Stages \ {"idle"} /\ next \in Stages
    BY Zenon DEF Stages
  <2>3. QED
    BY <2>1, <2>2, ZenonT(30)
<1>5. trust # "no" => Compatible
  BY Zenon, <1>1
<1> HIDE DEF todo, next
<1>6. /\ job' \in [Jobs -> JobRecords] /\ \A k \in Jobs : k # c => job'[k] = job[k]
      /\ job[c] = Rest
  BY <1>1, <1>2, <1>4, <1>5, BeginKeeps, ZenonT(30)
<1>7. job'[c] = y
  BY Zenon, <1>1, <1>2 DEF Begin, Types
<1>8. trust' \in {trust, "no"} /\ (trust' # "no" => \A k \in Jobs : k # c => ~Conflict(op, p, k))
  BY Zenon, <1>2 DEF Begin
<1>9. trust' # "no" => Compatible'
  BY <1>1, <1>2, <1>4, <1>5, BeginKeeps, ZenonT(30)
<1>10. y.pc = "publish" /\ y.op = op /\ y.path = p /\ y.todo = todo /\ y.next = next
  OBVIOUS
<1> HIDE DEF y
<1>11. /\ UNCHANGED <<retained, session, online, offline, queue, uplink, held>>
       /\ rows' \in [Paths -> Vals] /\ rows'[p] = v /\ \A q \in Paths : q # p => rows'[q] = rows[q]
  BY Zenon, <1>1 DEF Writes, Types
<1>12. Sends(y) /\ CallShape(y)
  BY <1>10, ZenonT(30) DEF Sends, CallShape, todo, next
<1>13. Types'
  BY Zenon, <1>1, <1>6, <1>8, <1>11 DEF Types
<1>14. Shapes'
  BY Zenon, <1>1, <1>2, <1>6, <1>7, <1>12, JobNames DEF Shapes
<1>15. job'[Shard] = job[Shard]
  BY Zenon, <1>2, <1>6, JobNames
<1>16. Asked'
  BY Zenon, <1>1, <1>8, <1>11, <1>15, AskedKept
<1>17. ASSUME trust' # "no" PROVE Current' /\ Agrees' /\ Resyncs'
  <2>1. Current /\ Agrees /\ \A k \in Jobs : k # c => ~Conflict(op, p, k)
    BY Zenon, <1>1, <1>8, <1>17
  <2>2. ASSUME NEW k \in Jobs, k # c, job[k] # Rest
        PROVE  k \in Calls /\ Sends(job[k]) /\ job[k].path # p /\ op = "set"
    <3>1. CASE k \in Calls
      <4>1. CallShape(job[k])
        BY Zenon, <1>1, <2>2, <3>1 DEF Shapes
      <4>2. job[k].pc # "idle" /\ IsCall(k)
        BY <4>1, ZenonT(30) DEF CallShape, Sends, Lists, IsCall
      <4>3. job[k].path # p /\ op # "unset" /\ job[k].op # "unset"
        BY Zenon, <2>1, <2>2, <4>2 DEF Conflict, Idle
      <4>4. QED
        BY Zenon, <3>1, <4>1, <4>3 DEF CallShape
    <3>2. CASE k = Greeting
      <4>1. GreetingShape(job[k])
        BY Zenon, <1>1, <2>2, <3>2 DEF Shapes
      <4>2. QED
        BY Zenon, <2>1, <2>2, <4>1 DEF GreetingShape, Lists, Conflict, IsCall, Idle
    <3>3. CASE k = Shard
      <4>1. ShardShape(job[k])
        BY Zenon, <1>1, <2>2, <3>3 DEF Shapes
      <4>2. QED
        BY Zenon, <2>1, <2>2, <4>1 DEF ShardShape, Lists, Resends, Conflict, IsCall, Idle
    <3>4. QED
      BY Zenon, <3>1, <3>2, <3>3 DEF Jobs
  <2>3. Current'
    <3>1. SUFFICES ASSUME NEW k \in Jobs, NEW i \in DOMAIN job'[k].todo
                   PROVE  IsCurrent(job[k].todo[i])'
      BY Zenon DEF Current
    <3>2. CASE k = c
      <4>1. job'[k].todo[i] = Value(p, v, TRUE)
        BY <1>7, <1>10, <3>1, <3>2, Single, ZenonT(30) DEF todo
      <4>2. QED
        BY <4>1, <1>11, SMTT(30) DEF IsCurrent, Value
    <3>3. CASE k # c
      <4>1. job'[k] = job[k] /\ job[k] # Rest
        BY Zenon, <1>6, <3>1, <3>3, RestIsJob, EmptySeq
      <4>2. Sends(job[k]) /\ job[k].path # p /\ k \in Calls
        BY Zenon, <2>2, <3>3, <4>1
      <4>3. PICK w \in Vals : job[k].todo = <<Value(job[k].path, w, TRUE)>>
        BY <4>2, ZenonT(30) DEF Sends
      <4>4. job[k].todo[i] = Value(job[k].path, w, TRUE)
        BY <3>1, <4>1, <4>3, Single, ZenonT(30)
      <4>5. job[k].path \in Paths
        BY Zenon, <1>1, <4>1, <4>2 DEF Shapes, CallShape
      <4>6. IsCurrent(job[k].todo[i])
        BY Zenon, <2>1, <3>1, <4>1 DEF Current
      <4>7. QED
        BY <1>11, <4>1, <4>2, <4>4, <4>5, <4>6 DEF IsCurrent, Value
    <3>4. QED
      BY Zenon, <3>2, <3>3
  <2>4. Agrees'
    <3>1. SUFFICES ASSUME session', uplink' = <<>>, NEW q \in Paths
                   PROVE  Due(q)' = rows'[q] \/ \E d \in Calls : Sends(job'[d]) /\ job'[d].path = q
      BY Zenon DEF Agrees
    <3>2. CASE q = p
      BY Zenon, <1>7, <1>10, <1>12, <3>2
    <3>3. CASE q # p
      <4>1. Due(q)' = Due(q) /\ rows'[q] = rows[q]
        BY Zenon, <1>11, <3>3 DEF Due
      <4>2. Due(q) = rows[q] \/ \E d \in Calls : Sends(job[d]) /\ job[d].path = q
        BY Zenon, <1>11, <2>1, <3>1 DEF Agrees
      <4>3. \A d \in Calls : Sends(job[d]) => job'[d] = job[d]
        BY Zenon, <1>6, RestIsJob, JobNames
      <4>4. QED
        BY Zenon, <4>1, <4>2, <4>3
    <3>4. QED
      BY Zenon, <3>2, <3>3
  <2>5. Resyncs'
    <3>1. job[Shard] = Rest
      BY Zenon, <1>2, <2>2, CallsAreRequests, JobNames
    <3>2. QED
      BY Zenon, <1>15, <3>1, RestIsJob DEF Resyncs, Idle
  <2>6. QED
    BY Zenon, <2>3, <2>4, <2>5
<1>18. QED
  BY Zenon, <1>9, <1>13, <1>14, <1>16, <1>17 DEF IInv

-----------------------------------------------------------------------------
(* The theorems *)

LEMMA InitIInv == Init => IInv
<1>1. SUFFICES ASSUME Init PROVE IInv
  OBVIOUS
<1>2. \A j \in Jobs : job[j] = Rest
  BY Zenon, <1>1 DEF Init
<1>3. Types
  <2>1. rows \in [Paths -> Vals] /\ retained \in [Paths -> Vals] /\ held \in [Paths -> Vals]
    BY Zenon, <1>1 DEF Init, Vals
  <2>2. queue \in [Paths -> Vals \cup {Keep}]
    BY Zenon, <1>1 DEF Init, Nothing
  <2>3. job \in [Jobs -> JobRecords]
    BY Zenon, <1>1, RestIsJob DEF Init
  <2>4. QED
    BY <1>1, <2>1, <2>2, <2>3, ZenonT(30) DEF Init, Types, Requests
<1>4. Shapes /\ Asked
  BY Zenon, <1>1, <1>2, JobNames, RestIsJob DEF Init, Shapes, Asked, Idle
<1>5. Compatible /\ Current
  BY Zenon, <1>2, RestIsJob, EmptySeq DEF Compatible, Current, Idle
<1>6. Agrees /\ Resyncs
  BY Zenon, <1>1, <1>2, JobNames, RestIsJob DEF Init, Agrees, Resyncs, Idle
<1>7. QED
  BY Zenon, <1>3, <1>4, <1>5, <1>6 DEF IInv

LEMMA NextIInv == IInv /\ [Next]_vars => IInv'
<1>1. SUFFICES ASSUME IInv, [Next]_vars PROVE IInv'
  OBVIOUS
<1>2. CASE UNCHANGED vars
  <2>1. UNCHANGED <<rows, retained, session, online, offline, queue, uplink, held, job, trust>>
    BY Zenon, <1>2 DEF vars, broker
  <2>2. Types' /\ Asked'
    BY Zenon, <1>1, <2>1 DEF IInv, Types, Asked, Idle
  <2>3. (Agrees => Agrees') /\ (Resyncs => Resyncs')
    BY Zenon, <2>1 DEF Agrees, Resyncs, Due, Idle
  <2>4. QED
    BY Zenon, <1>1, <2>1, <2>2, <2>3, QuietStepKeeps
<1>3. ASSUME NEW c \in Calls, Request(c) PROVE IInv'
  <2>1. PICK p \in Paths : (\E v \in Values : PublishServerValue(c, p, v)) \/ UnsetServerProperty(c, p)
    BY <1>3, ZenonT(30) DEF Request
  <2>2. ASSUME NEW v \in Values, PublishServerValue(c, p, v) PROVE IInv'
    <3>1. Writes(c, "set", p, v) /\ v \in Vals
      BY Zenon, <2>2 DEF PublishServerValue, Writes, broker, Vals
    <3>2. QED
      BY Zenon, <1>1, <3>1, RequestKeeps
  <2>3. ASSUME UnsetServerProperty(c, p) PROVE IInv'
    <3>1. Writes(c, "unset", p, None) /\ None \in Vals
      BY Zenon, <2>3 DEF UnsetServerProperty, Writes, broker, Vals
    <3>2. QED
      BY Zenon, <1>1, <3>1, RequestKeeps
  <2>4. QED
    BY Zenon, <2>1, <2>2, <2>3
<1>4. ASSUME NEW j \in Jobs, Work(j) \/ AttemptFails(j) PROVE IInv'
  BY Zenon, <1>1, <1>4, PublishKeeps, ClaimEntryKeeps, LoadEntryKeeps, SendConsumerPropertiesKeeps,
     AttemptFailsKeeps DEF Work
<1>5. ASSUME Serve PROVE IInv'
  BY Zenon, <1>1, <1>5, HandleIntrospectionKeeps, HandleEmptyCacheKeeps, ResendServerPropertiesKeeps,
     AckEmptyCacheKeeps DEF Serve
<1>6. ASSUME EntryExpires \/ Connect \/ Disconnect \/ Deliver \/ SessionExpires \/ Crash PROVE IInv'
  BY Zenon, <1>1, <1>6, EntryExpiresKeeps, ConnectKeeps, DisconnectKeeps, DeliverKeeps, SessionExpiresKeeps,
     CrashKeeps
<1>7. ASSUME RejectIntrospection \/ RejectEmptyCache PROVE IInv'
  BY Zenon, <1>1, <1>7, HandleIntrospectionKeeps, RejectEmptyCacheKeeps
<1>8. QED
  BY Zenon, <1>1, <1>2, <1>3, <1>4, <1>5, <1>6, <1>7 DEF Next

(* A device with nothing on its way holds the table's content, for any number  *)
(* of paths, values, requests and faults: the PUT and DELETE handlers, the     *)
(* connect goroutine and the emptyCache handler put every path right, and one  *)
(* emptyCache resync free of conflicts repairs what others left behind.        *)
THEOREM DeviceAgrees == Spec => []QuietDeviceAgrees
<1>1. IInv => QuietDeviceAgrees
  <2>1. SUFFICES ASSUME IInv, Quiet, trust = "yes" PROVE held = rows
    BY Zenon DEF QuietDeviceAgrees
  <2>2. Types /\ Shapes /\ Agrees /\ session
    BY Zenon, <2>1 DEF IInv, Quiet, Asked
  <2>3. \A c \in Calls : ~Sends(job[c])
    BY <2>1, JobNames, ZenonT(30) DEF Quiet, Idle, Sends
  <2>4. \A p \in Paths : Due(p) = held[p]
    BY Zenon, <2>1 DEF Quiet, Due, Nothing
  <2>5. \A p \in Paths : held[p] = rows[p]
    BY Zenon, <2>1, <2>2, <2>3, <2>4 DEF Agrees, Quiet
  <2>6. QED
    BY <2>2, <2>5 DEF Types
<1>2. QED
  BY <1>1, InitIInv, NextIInv, PTL DEF Spec

(* Every variable keeps its type. *)
THEOREM ServerTypes == Spec => []TypeOK
<1>1. IInv => TypeOK
  BY DEF IInv, Types, TypeOK, Vals
<1>2. QED
  BY <1>1, InitIInv, NextIInv, PTL DEF Spec

=============================================================================
