------------------------------- MODULE Slices --------------------------------
(***************************************************************************)
(* What the loops of the collector make of a slice they filter.             *)
(***************************************************************************)
EXTENDS Naturals, Sequences, FiniteSets

(* The elements of s that are in `wanted`, in the order of s: a loop over s  *)
(* appends each of them to the slice it returns (SelectSeq, without          *)
(* recursion).                                                             *)
Filter(s, wanted) ==
  LET accepted == {k \in DOMAIN s : s[k] \in wanted}
      Rank(k) == Cardinality({j \in accepted : j <= k})
  IN  [n \in 1..Cardinality(accepted) |-> s[CHOOSE k \in accepted : Rank(k) = n]]
=============================================================================
