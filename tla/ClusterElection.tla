-------------------------- MODULE ClusterElection ----------------------------
(***************************************************************************)
(* Which instance of a cluster database runs the queries of the database     *)
(* level, with oracle_clusterware_enabled.                                  *)
(*                                                                         *)
(* Every node has a collector of its own, and they never talk to each other: *)
(* in each refresh (UpdateInfo, oracle-instance.go:305-410) a collector      *)
(* resets IsValidForDBQuery of its instance, asks GV$INSTANCE for the lowest *)
(* number, and sets it if that is its own. Members of the cluster come and   *)
(* go in between. The mutex hides what a refresh does until it is over.      *)
(*                                                                         *)
(* A node is its INSTANCE_NUMBER. The names of the specification have a      *)
(* prefix, so that a module can extend it beside Collector.                 *)
(***************************************************************************)
EXTENDS Naturals, FiniteSets, FiniteSetsExt

CONSTANTS Node,   \* the nodes of the cluster
          Flaky   \* the nodes whose queries may fail

ASSUME ClusterAssumption == Node \subseteq Nat /\ Node # {} /\ Flaky \subseteq Node

VARIABLES
  member,   \* the instances in GV$INSTANCE
  started,  \* those of them that are not mounted yet
  reg,      \* reg[n]: the collector of n knows the instance: "no", "init", "yes"
  upc,      \* upc[n]: where its UpdateInfo is: "idle", "instance", "database", "min", "set"
  valid,    \* valid[n]: IsValidForDBQuery
  min,      \* min[n]: what the query of GV$INSTANCE returned
  asked     \* history: nodes whose refresh came past the reset of valid, or
            \* read min, since the members last changed

cluster == <<member, started>>
clusterVars == <<member, started, reg, upc, valid, min, asked>>

ClusterInit ==
  /\ member = {} /\ started = {}
  /\ reg = [n \in Node |-> "no"] /\ upc = [n \in Node |-> "idle"]
  /\ valid = [n \in Node |-> FALSE] /\ min = [n \in Node |-> 0]
  /\ asked = {}

-----------------------------------------------------------------------------
(* The cluster *)

Join(n) == /\ n \notin member
           /\ member' = member \cup {n} /\ started' = started \cup {n}
           /\ asked' = {}
           /\ UNCHANGED <<reg, upc, valid, min>>

Open(n) == /\ n \in started
           /\ started' = started \ {n}
           /\ UNCHANGED <<member, reg, upc, valid, min, asked>>

Fall(n) == /\ n \in member
           /\ member' = member \ {n} /\ started' = started \ {n}
           /\ asked' = {}
           /\ UNCHANGED <<reg, upc, valid, min>>

-----------------------------------------------------------------------------
(* The collector of node n *)

Step(n, from, to) == /\ upc[n] = from
                     /\ upc' = [upc EXCEPT ![n] = to]
                     /\ UNCHANGED cluster

Registers(n) == reg' = [reg EXCEPT ![n] = "yes"]

(* A round finds the process of a new instance, *)
Discovered(n) == /\ reg[n] = "no" /\ n \in member
                 /\ Step(n, "idle", "instance")
                 /\ reg' = [reg EXCEPT ![n] = "init"]
                 /\ valid' = [valid EXCEPT ![n] = FALSE]
                 /\ UNCHANGED <<min, asked>>

(* or refreshes one it knows, possibly restarted between two scans, *)
BeginRefresh(n) == /\ reg[n] = "yes" /\ n \in member
                   /\ Step(n, "idle", "instance")
                   /\ UNCHANGED <<reg, valid, min, asked>>

(* or finds that the process is gone. *)
Lost(n) == /\ reg[n] = "yes" /\ n \notin member
           /\ Step(n, "idle", "idle")
           /\ reg' = [reg EXCEPT ![n] = "no"]
           /\ UNCHANGED <<valid, min, asked>>

(* An instance without a database keeps the validity it had. *)
Instance(n) == /\ n \in member
               /\ \/ n \in started /\ Step(n, "instance", "idle") /\ Registers(n)
                  \/ n \notin started /\ Step(n, "instance", "database") /\ UNCHANGED reg
               /\ UNCHANGED <<valid, min, asked>>

(* A slip: the validity of the last refresh is not reset. *)
DatabaseNoReset(n) == /\ n \in member \ started
                      /\ Step(n, "database", "min")
                      /\ asked' = asked \cup {n}
                      /\ UNCHANGED <<reg, valid, min>>

Database(n) == /\ n \in member \ started
               /\ Step(n, "database", "min")
               /\ valid' = [valid EXCEPT ![n] = FALSE]
               /\ asked' = asked \cup {n}
               /\ UNCHANGED <<reg, min>>

(* A slip: the lowest number is asked for once and kept. *)
MinKept(n) == /\ n \in member
              /\ Step(n, "min", "set")
              /\ min' = [min EXCEPT ![n] = IF @ = 0 THEN Min(member) ELSE @]
              /\ asked' = asked \cup {n}
              /\ UNCHANGED <<reg, valid>>

SelectMin(n) == /\ n \in member
                /\ Step(n, "min", "set")
                /\ min' = [min EXCEPT ![n] = Min(member)]
                /\ asked' = asked \cup {n}
                /\ UNCHANGED <<reg, valid>>

(* The rest of the refresh (the PDBs, the labels) is left out. *)
SetValid(n) == /\ Step(n, "set", "idle")
               /\ valid' = [valid EXCEPT ![n] = @ \/ n = min[n]]
               /\ Registers(n)
               /\ UNCHANGED <<min, asked>>

(* A query fails (at "set" one of the PDBs), and the refresh leaves what it  *)
(* has assigned: before the reset the validity of an earlier round. A failed *)
(* Init drops the object.                                                  *)
RefreshError(n) == /\ n \in Flaky \/ n \notin member
                   /\ upc[n] # "idle"
                   /\ upc' = [upc EXCEPT ![n] = "idle"]
                   /\ reg' = [reg EXCEPT ![n] = IF @ = "init" THEN "no" ELSE @]
                   /\ valid' = [valid EXCEPT ![n] = @ \/ (upc[n] = "set" /\ n = min[n])]
                   /\ UNCHANGED cluster /\ UNCHANGED <<min, asked>>

-----------------------------------------------------------------------------
Refresh(n) == \/ Discovered(n) \/ BeginRefresh(n) \/ Lost(n)
              \/ Instance(n) \/ Database(n) \/ SelectMin(n) \/ SetValid(n)
              \/ RefreshError(n)

ClusterNext == \E n \in Node : Join(n) \/ Open(n) \/ Fall(n) \/ Refresh(n)

(* The rounds of discovery go on, and a query that is tried again and again  *)
(* does not fail each time.                                                *)
ClusterSpec ==
  /\ ClusterInit /\ [][ClusterNext]_clusterVars
  /\ \A n \in Node : WF_clusterVars(Refresh(n))
  /\ \A n \in Flaky : /\ SF_clusterVars(Instance(n)) /\ SF_clusterVars(Database(n))
                      /\ SF_clusterVars(SelectMin(n)) /\ SF_clusterVars(SetValid(n))

-----------------------------------------------------------------------------
(* Properties *)

(* What a processor sees of an instance: it is queried at database level.   *)
Queried(n) == reg[n] = "yes" /\ upc[n] = "idle" /\ valid[n]

(* Once a refresh has come to the reset of the validity after the members    *)
(* last changed (oracle-instance.go:390), its instance is queried at         *)
(* database level only if it is the lowest, whether this refresh and those   *)
(* after it end or fail, and also if they began before the change.  A node    *)
(* whose refreshes fail before the reset keeps the validity it had.          *)
OneCollector == \A n \in asked : Queried(n) => n = Min(member)

(* If the members stay, opened, the lowest one is queried at database level   *)
(* again and again, and none of the others is from some moment on.          *)
ElectsOne ==
  \A m \in SUBSET Node \ {{}} :
    <>[](member = m /\ started = {}) =>
      /\ []<>Queried(Min(m))
      /\ \A n \in m \ {Min(m)} : <>[]~Queried(n)
=============================================================================
