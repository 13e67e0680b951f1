------------------------- MODULE MCClusterElection ---------------------------
(* Two nodes: the lowest one falls and comes back, whichever it is. *)
EXTENDS ClusterElection
=============================================================================
