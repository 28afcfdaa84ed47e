----------------------------- MODULE Topics -----------------------------
(***************************************************************************)
(* Topics: which ones the broker lets a device publish on or read, and     *)
(* what the engine takes a publish for.                                    *)
(*                                                                         *)
(* A topic is the sequence of its segments, so a text with nothing in it   *)
(* is <<"">>; base is <<realm, device>>.  An interface name is a sequence  *)
(* too: the engine looks for one at every '/' boundary.  intro maps the    *)
(* declared names to majors, installed <<name, major>> to a definition.    *)
(* The limit on the length of a topic is left out.                         *)
(***************************************************************************)
EXTENDS InterfaceSchema
LOCAL INSTANCE SequencesExt
LOCAL INSTANCE FiniteSetsExt

\* What follows a prefix and a '/'; nothing when the topic does not have both.
CutPrefix(topic, base) ==
  IF IsStrictPrefix(base, topic) THEN {SubSeq(topic, Len(base) + 1, Len(topic))} ELSE {}

-----------------------------------------------------------------------------
(* The broker *)

\* Declared interfaces the realm does not have are skipped.
LoadOwnership(intro, installed) ==
  LET known == {n \in DOMAIN intro : <<n, intro[n]>> \in DOMAIN installed} IN
  [n \in known |-> installed[<<n, intro[n]>>].ownership]

Owned(ownership, iface, by) == iface \in DOMAIN ownership /\ ownership[iface] = by

IsFilter(topic) == \E k \in DOMAIN topic : topic[k] = Unfit

MayPublish(base, topic, ownership) ==
  \/ topic = base
  \/ \E rest \in CutPrefix(topic, base) :
       \/ rest \in {<<"capabilities">>, <<"control", "emptyCache">>, <<"control", "producer", "properties">>}
       \/ Len(rest) > 1 /\ Tail(rest) # <<"">> /\ Owned(ownership, <<rest[1]>>, "device")

\* A filter within the subtree; a delivery on a server-owned interface.
MayRead(base, topic, ownership) ==
  \E rest \in CutPrefix(topic, base) :
    \/ IsFilter(topic)
    \/ rest = <<"control", "consumer", "properties">>
    \/ Owned(ownership, <<rest[1]>>, "server")

CheckACL(base, topic, write, ownership) ==
  IF write THEN MayPublish(base, topic, ownership) ELSE MayRead(base, topic, ownership)

\* Seconds between two reloads of a session's introspection.
introspectionReloadDebounce == 1

RefreshIfStale(sess, intro, installed) ==
  IF sess.age < introspectionReloadDebounce THEN sess
  ELSE [ownership |-> LoadOwnership(intro, installed), age |-> 0]

\* A live session: a name its map does not know reloads the map first.
OnACLCheck(sess, base, topic, write, intro, installed) ==
  LET asked == Len(topic) > Len(base) /\ <<topic[Len(base) + 1]>> \notin DOMAIN sess.ownership
      used == IF asked THEN RefreshIfStale(sess, intro, installed) ELSE sess
  IN CheckACL(base, topic, write, used.ownership)

-----------------------------------------------------------------------------
(* The engine *)

\* The text after the root; the introspection topic has none.
SplitDeviceTopic(topic, base) == IF topic = base THEN {<<"">>} ELSE CutPrefix(topic, base)

Classify(rest) ==
  IF rest = <<"">> THEN "introspection"
  ELSE IF rest = <<"capabilities">> THEN "capabilities"
  ELSE IF rest[1] = "control" THEN "control" ELSE "data"

\* The ends of the declared names that rest begins with.
NameEnds(rest, intro) == {k \in DOMAIN rest : SubSeq(rest, 1, k) \in DOMAIN intro}

\* Every leaf of an object has the same endpoint before it: one answers for all.
ObjectPathOK(def, prefix) ==
  LET first == Segs(def.mappings[1]) IN
  Match(def.mappings, Append(prefix, first[Len(first)].literal)) # {}

PathOK(def, path) ==
  IF def.aggregation = "object" THEN ObjectPathOK(def, path) ELSE Match(def.mappings, path) # {}

Refusal(why) == [is |-> why, name |-> <<>>, path |-> <<>>]

\* Up to the decoding of the payload.
ProcessData(rest, intro, installed) ==
  LET end == Max(NameEnds(rest, intro))
      name == SubSeq(rest, 1, end)
      path == SubSeq(rest, end + 1, Len(rest))
      def == installed[<<name, intro[name]>>]
  IN IF NameEnds(rest, intro) = {} THEN Refusal("interface_not_in_introspection")
     ELSE IF <<name, intro[name]>> \notin DOMAIN installed THEN Refusal("interface_not_installed")
     ELSE IF def.ownership # "device" THEN Refusal("ownership_violation")
     ELSE IF ~PathOK(def, path) THEN Refusal("unexpected_path")
     ELSE [is |-> "data", name |-> name, path |-> path]

\* The handler a message is given to, or the reason it is refused.
Dispatch(topic, base, intro, installed) ==
  LET rests == SplitDeviceTopic(topic, base)
      rest == CHOOSE r \in rests : TRUE
  IN IF rests = {} THEN Refusal("malformed_topic")
     ELSE IF Classify(rest) = "data" THEN ProcessData(rest, intro, installed)
     ELSE [is |-> Classify(rest), name |-> <<>>, path |-> Tail(rest)]
=============================================================================
