----------------------------- MODULE Lifecycle ------------------------------
(***************************************************************************)
(* What a user of the oracle_status measurement may rely on.               *)
(*                                                                         *)
(* A SID is out of the monitored set until discovery registers it; it is   *)
(* then reported up, once per round, until it leaves the monitored set;    *)
(* it is reported down exactly once, after it left and before it can join  *)
(* again.  A crash of the collector forgets the monitored set, and only    *)
(* then may a SID stay reported up although nobody monitors it.            *)
(***************************************************************************)
EXTENDS Naturals

CONSTANT Sid

VARIABLES phase,  \* phase[s]: where s is in the monitored set's life cycle
          view    \* view[s]: proc_ok of the last oracle_status metric of s

vars == <<phase, view>>

Phases == {"out", "joined", "monitored", "leaving"}

Init == /\ phase = [s \in Sid |-> "out"]
        /\ view = [s \in Sid |-> "none"]

(* Instances join and leave one at a time. *)
Settled == \A s \in Sid : phase[s] \in {"out", "monitored"}

Join(s) == /\ Settled
           /\ phase[s] = "out"
           /\ phase' = [phase EXCEPT ![s] = "joined"]
           /\ UNCHANGED view

ReportUp(s) == /\ phase[s] \in {"joined", "monitored"}
               /\ phase' = [phase EXCEPT ![s] = "monitored"]
               /\ view' = [view EXCEPT ![s] = "up"]

Leave(s) == /\ Settled
            /\ phase[s] = "monitored" /\ view[s] = "up"
            /\ phase' = [phase EXCEPT ![s] = "leaving"]
            /\ UNCHANGED view

ReportDown(s) == /\ phase[s] = "leaving" /\ view[s] = "up"
                 /\ phase' = [phase EXCEPT ![s] = "out"]
                 /\ view' = [view EXCEPT ![s] = "down"]

Crash == /\ phase' = [s \in Sid |-> "out"]
         /\ UNCHANGED view

Next == \/ \E s \in Sid : Join(s) \/ ReportUp(s) \/ Leave(s) \/ ReportDown(s)
        \/ Crash

Spec == Init /\ [][Next]_vars
=============================================================================
