----------------------------- MODULE MCRuleTable ------------------------------
(***************************************************************************)
(* RuleTable for TLC: two boxes of two dimensions, which differ only in    *)
(* the second dimension, and priorities 0..2 with 2 the wildcard.          *)
(***************************************************************************)
EXTENDS RuleTable

MCDims == 1..2

MCBoxes == {<< <<0, 0>>, <<0, 1>> >>, << <<0, 0>>, <<1, 1>> >>}

MCRules == [pri : Pri, range : MCBoxes]
=============================================================================
