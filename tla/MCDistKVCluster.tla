-------------------------- MODULE MCDistKVCluster ---------------------------
(* Small instances of the cluster for TLC: e1 shares its process with w1,  *)
(* e2 has no worker of its own.                                            *)
EXTENDS DistKVCluster, TLC

CONSTANTS e1, e2, w1

Colocated == (e1 :> w1) @@ (e2 :> NoWorker)
Capacity2 == [w \in Workers |-> 2]
=============================================================================
