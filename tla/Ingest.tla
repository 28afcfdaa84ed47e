----------------------------- MODULE Ingest -----------------------------
(***************************************************************************)
(* What the ingest path promises a device (docs/DESIGN.md 1.4 and 5.3),    *)
(* whatever the shards, batches, retries, splits, crashes and restarts     *)
(* behind it do: messages reach the database in the order they were        *)
(* published, each kind of data in its own order, data never after a       *)
(* control message that was published later, and a PUBACK comes last.      *)
(* (A panic behind a split batch is the exception, see ShardPipeline.)     *)
(***************************************************************************)
EXTENDS Integers

CONSTANTS Devices, Kinds, MaxSeq

VARIABLES next, stored, handled, consumed, acked

vars == <<next, stored, handled, consumed, acked>>

Ids == [dev : Devices, seq : 1..MaxSeq, kind : Kinds]

Published == {x \in Ids : x.seq <= next[x.dev]}

Init ==
  /\ next = [d \in Devices |-> 0]
  /\ stored = {}
  /\ handled = {}
  /\ consumed = {}
  /\ acked = {}

Publish ==
  /\ \E d \in Devices : next' = [next EXCEPT ![d] = @ + 1]
  /\ UNCHANGED <<stored, handled, consumed, acked>>

\* A commit adds data, none older than what the database has of its kind,
\* and none older than a control message that took effect.
Persist ==
  /\ stored' \subseteq Published
  /\ stored \subseteq stored'
  /\ \A x \in stored' \ stored :
       /\ \A y \in stored : y.dev = x.dev /\ y.kind = x.kind => y.seq < x.seq
       /\ \A y \in handled : y.dev = x.dev => y.seq < x.seq
  /\ consumed' \subseteq Published
  /\ consumed \subseteq consumed'
  /\ UNCHANGED <<next, handled, acked>>

\* A control message takes effect.
Control ==
  /\ \E x \in Published : handled' = handled \cup {x}
  /\ UNCHANGED <<next, stored, consumed, acked>>

\* A message is acknowledged without effect.
Consume ==
  /\ \E x \in Published : consumed' = consumed \cup {x}
  /\ UNCHANGED <<next, stored, handled, acked>>

Puback ==
  /\ \E x \in stored \cup handled \cup consumed :
       acked' = acked \cup {[dev |-> x.dev, seq |-> x.seq]}
  /\ UNCHANGED <<next, stored, handled, consumed>>

Next == Publish \/ Persist \/ Control \/ Consume \/ Puback

Spec == Init /\ [][Next]_vars
=============================================================================
