-------------------------- MODULE MCFlowLifecycle --------------------------
(* One flow, one API caller and three graphs. *)
EXTENDS FlowLifecycle

CONSTANTS c1, g1, g2, g3
=============================================================================
