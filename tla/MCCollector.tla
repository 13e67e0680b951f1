---------------------------- MODULE MCCollector ------------------------------
(* Two instances, a group for both and one that accepts only a, one         *)
(* connection to each database.                                            *)
EXTENDS Collector

MCAccepts(p, i) == p = "all" \/ i = "a"
=============================================================================
