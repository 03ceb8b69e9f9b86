-------------------------- MODULE MCClusterPrimary --------------------------
(* ClusterPrimary with two nodes, the first of which may have two sockets, *)
(* and a request to the first from the other and one from the primary.     *)
EXTENDS ClusterPrimary, TLC
CONSTANTS n1, n2, k1, k2
MCOrigin == (k1 :> n2) @@ (k2 :> Primary)
MCTarget == (k1 :> n1) @@ (k2 :> n1)
MCMaxConns == (n1 :> 2) @@ (n2 :> 1)
MCMaxSockets == (n1 :> 2) @@ (n2 :> 1)
=============================================================================
