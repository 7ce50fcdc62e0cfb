---------------------------- MODULE MCAclSystem -------------------------------
(***************************************************************************)
(* AclSystem for TLC: rules in one dimension, two of them of one priority. *)
(* A table made for one rule grows to hold two and grows again for the     *)
(* third.  The delete asked for names no priority and may have two hits.   *)
(***************************************************************************)
EXTENDS AclSystem, TLC

MCDims == {0}

R(p, lo, hi) == [pri |-> p, range |-> [d \in MCDims |-> <<lo, hi>>]]

MCRules == {R(0, 0, 1), R(1, 0, 1), R(1, 1, 3)}

MCAsks == {R(2, 0, 1)}

(* No address is different from another.                                   *)
MCSymmetry == Permutations(Addresses)
=============================================================================
