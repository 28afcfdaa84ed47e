----------------------- MODULE MCTriggerExecutor -----------------------
(* Instances of TriggerExecutor for TLC. *)
EXTENDS TriggerExecutor

Handler(on, codes, strategy) == [on |-> on, codes |-> codes, strategy |-> strategy]

Trigger(policy, custom) == [policy |-> policy, custom |-> custom]

\* Retries what the server fails with once; events expire.
Retrying ==
  [name |-> "p", cap |-> 1, ttl |-> TRUE,
   def |-> [times |-> 1, handlers |-> <<Handler("explicit", {400, 404}, "discard"),
                                        Handler("server_error", {}, "retry")>>]]

\* A webhook under a policy, one without, and a custom action.
MCTriggers == {Trigger(Retrying, FALSE), Trigger(NoPolicy, FALSE), Trigger(Retrying, TRUE)}
=============================================================================
