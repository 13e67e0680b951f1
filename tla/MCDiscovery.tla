---------------------------- MODULE MCDiscovery -----------------------------
(* Two SIDs and up to three pids: a pid is replaced while the other SID     *)
(* keeps its own, and a freed pid is taken again, by either SID.            *)
EXTENDS Discovery, TLC

Pids == Permutations(Pid)
Hosts == Permutations(Sid) \cup Pids

(* No step reads dropped. *)
Seen == <<proc, OraInstances, pc, round, todo, inst, errors, held, sent, alive>>
=============================================================================
