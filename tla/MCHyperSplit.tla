---------------------------- MODULE MCHyperSplit ------------------------------
(***************************************************************************)
(* HyperSplit for TLC.  Two dimensions of values 0..MaxVal and all keys;   *)
(* rule sets are lists of boxes out of a small assortment that has         *)
(* nested, overlapping, touching, disjoint, full and point boxes, the rule *)
(* at position k having priority k - 1.                                    *)
(***************************************************************************)
EXTENDS HyperSplit

CONSTANT MaxRules  \* length of the longest rule set

MCDims == 0..1

Rect(iv0, iv1) == [d \in MCDims |-> IF d = 0 THEN iv0 ELSE iv1]

(* Boxes of every shape the splits tell apart, and one whose first range   *)
(* goes from high to low, as the reader takes it from a file.              *)
MCBoxes ==
  {Rect(<<0, 3>>, <<0, 3>>), Rect(<<0, 1>>, <<0, 3>>), Rect(<<2, 3>>, <<0, 3>>),
   Rect(<<0, 3>>, <<1, 2>>), Rect(<<1, 2>>, <<1, 2>>), Rect(<<0, 2>>, <<0, 2>>),
   Rect(<<2, 2>>, <<2, 3>>), Rect(<<1, 3>>, <<2, 3>>), Rect(<<3, 3>>, <<0, 0>>),
   Rect(<<0, 0>>, <<3, 3>>), Rect(<<1, 1>>, <<0, 3>>), Rect(<<3, 1>>, <<0, 3>>)}

Ranked(b) == [k \in DOMAIN b |-> [pri |-> k - 1, range |-> b[k]]]

MCAcls == UNION {{Ranked(b) : b \in [1..n -> MCBoxes]} : n \in 0..MaxRules}
=============================================================================
