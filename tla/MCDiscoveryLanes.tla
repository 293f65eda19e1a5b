-------------------------- MODULE MCDiscoveryLanes --------------------------
(* Small instances of DiscoveryLanes for TLC. *)
EXTENDS DiscoveryLanes, TLC

CONSTANTS worker, api, w1, w2, a1

TwoProcs == {worker, api}
ThreeRunners == {w1, w2, a1}
Threads == [r \in Runners |-> IF r = a1 THEN api ELSE worker]
Pools == [p \in Procs |-> IF p = worker THEN <<"wc1", "wc2">> ELSE <<"ac1">>]
OneLane == {"mid"}

=============================================================================
