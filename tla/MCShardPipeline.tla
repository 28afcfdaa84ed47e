------------------------ MODULE MCShardPipeline ------------------------
(* Instances of ShardPipeline for TLC. *)
EXTENDS ShardPipeline

CONSTANTS d1, s1

MCOneDevice == {d1}
MCOneShard == {s1}
MCAlone == [d \in MCOneDevice |-> s1]

MCNone == {}
MCStraggler == {<<d1, 2>>}

P(q, k) == [qos |-> q, kind |-> k]
MCStreams == {P(0, "stream"), P(1, "stream")}
MCLively == {P(0, "prop"), P(1, "prop"), P(1, "control")}
MCMixed == {P(0, "prop"), P(1, "prop"), P(0, "stream"), P(1, "control")}
=============================================================================
