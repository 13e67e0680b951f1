------------------------------ MODULE Registry ------------------------------
(***************************************************************************)
(* What the shared instance list promises to the goroutines that use it.   *)
(*                                                                         *)
(* One writer (the discovery goroutine) adds and deletes instances; each   *)
(* reader (a metric group processor) walks the list once per query period. *)
(* The walk is only weakly consistent: every instance it visits was        *)
(* registered at some moment since the walk began, and nothing more is     *)
(* promised to a walk that a deletion overtakes.                           *)
(***************************************************************************)
EXTENDS Naturals, Sequences, SequencesExt

CONSTANTS Inst,         \* the *OracleInstance objects
          Readers,      \* the metric group processors
          SidOf(_),     \* DiscoveredSid of an instance
          Matches(_, _) \* Matches(r, i): the instance filter of r accepts i

VARIABLES list,   \* the registered instances, oldest first
          walk,   \* the readers in the middle of a walk
          since,  \* since[r]: instances registered at some moment of r's walk
          seen    \* seen[r]: what r's walk has visited so far

vars == <<list, walk, since, seen>>

Registered == ToSet(list)

Init == /\ list = <<>>
        /\ walk = {}
        /\ since = [r \in Readers |-> {}]
        /\ seen = [r \in Readers |-> <<>>]

\* A registered SID is never registered a second time.
Add(i) == /\ \A j \in Registered : SidOf(j) # SidOf(i)
          /\ list' = Append(list, i)
          /\ since' = [r \in Readers |-> IF r \in walk THEN since[r] \cup {i}
                                                       ELSE since[r]]
          /\ UNCHANGED <<walk, seen>>

\* Only the deleted instance leaves, and the others keep their order.
Delete(i) == /\ \E k \in DOMAIN list : list[k] = i /\ list' = RemoveAt(list, k)
             /\ UNCHANGED <<walk, since, seen>>

Begin(r) == /\ r \notin walk
            /\ walk' = walk \cup {r}
            /\ since' = [since EXCEPT ![r] = Registered]
            /\ seen' = [seen EXCEPT ![r] = <<>>]
            /\ UNCHANGED list

Visit(r) == /\ r \in walk
            /\ \E i \in since[r] : /\ Matches(r, i)
                                   /\ seen' = [seen EXCEPT ![r] = Append(@, i)]
            /\ UNCHANGED <<list, walk, since>>

Finish(r) == /\ r \in walk
             /\ walk' = walk \ {r}
             /\ since' = [since EXCEPT ![r] = {}]
             /\ seen' = [seen EXCEPT ![r] = <<>>]
             /\ UNCHANGED list

Next == \/ \E i \in Inst : Add(i) \/ Delete(i)
        \/ \E r \in Readers : Begin(r) \/ Visit(r) \/ Finish(r)

Spec == Init /\ [][Next]_vars
=============================================================================
