------------------------- MODULE MCClusterSecondary -------------------------
(* ClusterSecondary with two sockets.                                      *)
EXTENDS ClusterSecondary
=============================================================================
