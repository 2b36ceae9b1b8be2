----------------------------- MODULE MCNodeWatch -----------------------------
(***************************************************************************)
(* A build that is tried twice and a pod, whose attempts start a goroutine *)
(* each; two nodes, and room in the channel for what may be sent while Run *)
(* waits for the mutex.                                                    *)
(***************************************************************************)
EXTENDS NodeWatch

CONSTANTS build, test, n1, n2, g1, g2, g3

Workloads == {build, test}

Nodes == {n1, n2}

Goroutines == {g1, g2, g3}

SpawnedBy == [w \in Workloads |-> IF w = build THEN <<{g1}, {g2}>> ELSE <<{g3}>>]

=============================================================================
