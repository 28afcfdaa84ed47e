---------------------------- MODULE MCFlowRouter ----------------------------
(* A flow with two lanes and a key for each. *)
EXTENDS FlowRouter

CONSTANTS k1, k2, l1, l2, p1, x1, s1, s2

MCLaneOf == [k \in Keys |-> IF k = k1 THEN l1 ELSE l2]

MCMaxMsgs == [x \in Submitters |-> IF x \in Sources THEN 2 ELSE 1]
=============================================================================
