------------------------------- MODULE AclRules -------------------------------
(***************************************************************************)
(* The vocabulary shared by every module: rules as rule.h declares them,   *)
(* and the pure predicates on rules that rule.c, utils.c and hs.h build    *)
(* everything else from.                                                   *)
(*                                                                         *)
(* A rule is a priority and one closed interval per dimension.  An interval*)
(* may be empty: no call refuses a low above its high.  The three numeric  *)
(* widths of the code (32-bit fields, 5 or 6 dimensions, UINT32_MAX as "no *)
(* priority") are parameters: Dims is the set of dimension numbers, MaxVal *)
(* the largest field value and UINT32_MAX the largest priority.  The       *)
(* "entry" pointer of rule_base_t is the user's and never read by the      *)
(* library, so it is left out.                                             *)
(***************************************************************************)
EXTENDS Integers

CONSTANTS Dims,        \* the dimensions, 1..RULE_DIM(is_v6)
          MaxVal,      \* largest value of a field
          UINT32_MAX   \* largest priority, also the "any priority" wildcard

ASSUME DimsAssumption == Dims # {} /\ Dims \subseteq Nat
ASSUME MaxValAssumption == MaxVal \in Nat
ASSUME PriAssumption == UINT32_MAX \in Nat \ {0}

Value    == 0..MaxVal
Pri      == 0..UINT32_MAX
Interval == Value \X Value
Box      == [Dims -> Interval]
Rule     == [pri : Pri, range : Box]
Key      == [Dims -> Value]

-----------------------------------------------------------------------------
(* Mutants (see PROJECT.json): slips the runs must notice.                 *)
RuleIsEqual_FirstDimOnly(r1, r2) ==
  LET first == CHOOSE d \in Dims : \A e \in Dims : d <= e
  IN  /\ r1.pri = UINT32_MAX \/ r2.pri = UINT32_MAX \/ r1.pri = r2.pri
      /\ r1.range[first] = r2.range[first]
RuleIsEqual_NoWildcard(r1, r2) == r1.pri = r2.pri /\ r1.range = r2.range

-----------------------------------------------------------------------------
(* rule_is_equal: a priority of UINT32_MAX on either side is a wildcard.   *)
RuleIsEqual(r1, r2) ==
  /\ r1.pri = UINT32_MAX \/ r2.pri = UINT32_MAX \/ r1.pri = r2.pri
  /\ r1.range = r2.range
=============================================================================
