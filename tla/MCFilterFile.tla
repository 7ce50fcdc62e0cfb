---------------------------- MODULE MCFilterFile ------------------------------
(***************************************************************************)
(* FilterFile for TLC: all files of up to FileLength items whose rules have*)
(* one prefix, and all files that are one rule, of any prefix.             *)
(***************************************************************************)
EXTENDS FilterFile

CONSTANT FileLength

Other(kind)      == [kind |-> kind, prefix |-> <<>>]
RuleItem(a, len) == [kind |-> "rule", prefix |-> <<a, len>>]

SomeItems == {Other("bad"), Other("char"), RuleItem([d \in 0..3 |-> d % Base], Bits + 1)}

MCFiles == UNION {[1..n -> SomeItems] : n \in 0..FileLength}
             \union {<<RuleItem(a, len)>> : a \in Digits, len \in Lengths}
=============================================================================
