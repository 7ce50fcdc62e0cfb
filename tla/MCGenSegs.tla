------------------------------ MODULE MCGenSegs -------------------------------
(***************************************************************************)
(* GenSegs for TLC: one dimension, and every multiset of up to MaxRules    *)
(* ranges of it, written as a list in the order of _range_compare (the     *)
(* order of the rules is lost in qsort).                                   *)
(***************************************************************************)
EXTENDS GenSegs

CONSTANT MaxRules

MCDims == {1}

Ordered(b) == \A k \in 1..Len(b) - 1 : ~Before(b[k + 1][1], b[k][1])

MCLists == UNION {{b \in [1..n -> Box] : Ordered(b)} : n \in 1..MaxRules}
=============================================================================
