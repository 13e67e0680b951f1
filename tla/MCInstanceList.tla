--------------------------- MODULE MCInstanceList ---------------------------
(* Four instance objects over three SIDs: the list grows through capacities *)
(* 1, 2 and 4 and refills a vacated slot with the second object of SID a.   *)
EXTENDS InstanceList

MCInst == {"a1", "a2", "b1", "c1"}

MCSidOf(i) == IF i \in {"a1", "a2"} THEN "a" ELSE i

\* The filtered reader accepts the SIDs a and c1.
MCMatches(r, i) == r = "all" \/ MCSidOf(i) \in {"a", "c1"}

\* Bound: one processor at a time is in its loop; loops do not touch each other.
OneLoop == Cardinality({r \in Readers : Walking(r)}) <= 1
=============================================================================
