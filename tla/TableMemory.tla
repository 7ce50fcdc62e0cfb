----------------------------- MODULE TableMemory ------------------------------
(***************************************************************************)
(* The sizes a rule table computes with, at the widths the code gives      *)
(* them: an unsigned cap that doubles, an int number of slots times an int *)
(* rule size, a size_t for the allocator.  Only how many rules there are   *)
(* matters here; RuleTable, whose numbers are unbounded, says which.       *)
(*                                                                         *)
(* Tables of size 0 and tables whose first array is too large for an int   *)
(* are among the initial sizes: what holds is stated for the others.       *)
(***************************************************************************)
EXTENDS Integers

CONSTANTS HalfRange,  \* INT_MAX + 1; a size_t has twice the bits of an int
          RuleSizes,  \* sizeof(rule_t) and sizeof(rule6_t)
          Sizes,      \* sizes given to hs_acl_ctx_init, a size_t
          MemoryLimit \* the most bytes the allocator ever grants

ASSUME WidthAssumption ==
  HalfRange \in Nat \ {0, 1} /\ MemoryLimit \in 1..2 * HalfRange * HalfRange
ASSUME RuleSizesAssumption == RuleSizes \subseteq 2..HalfRange - 1
ASSUME TableSizesAssumption == Sizes \subseteq Nat

NULL     == -1
Dangling == -2

VARIABLES cap, len,  \* rs_slice.cap and rs_slice.len
          rule_size, \* RULE_SIZE: fixed by is_v6 of the last init
          bytes,     \* the length of the block at ruleList, NULL or Dangling
          made,      \* auxiliary: the size of the last init, 0 if it failed or was freed
          wraps,     \* what this build makes of an int product that overflows
          fault      \* undefined behaviour met: "none", "overrun", "badfree"

vars == <<cap, len, rule_size, bytes, made, wraps, fault>>

Unsigned(n) == n % (2 * HalfRange)
Signed(n)   == ((n + HalfRange) % (2 * HalfRange)) - HalfRange
SizeT(n)    == n % (4 * HalfRange * HalfRange)

-----------------------------------------------------------------------------
(* Mutants (see PROJECT.json): slips the runs must notice.                 *)
Doubled_ByFour == Signed(Unsigned(cap * 4))
Request_Unsigned ==
  SizeT(IF wraps THEN Unsigned(2 * cap * rule_size) ELSE 2 * cap * rule_size)

-----------------------------------------------------------------------------
Init == /\ cap = 0 /\ len = 0 /\ rule_size \in RuleSizes /\ bytes = NULL
        /\ made = 0 /\ wraps \in BOOLEAN /\ fault = "none"

Granted(n) == n <= MemoryLimit

(* calloc multiplies without overflow.                                     *)
CtxInit(size, rs) ==
  /\ cap = 0
  /\ len' = 0 /\ rule_size' = rs
  /\ \/ /\ Granted(size * rs)
        /\ bytes' = size * rs /\ cap' = Unsigned(size) /\ made' = size
     \/ bytes' = NULL /\ made' = 0 /\ UNCHANGED cap
  /\ UNCHANGED fault

(* A table whose cap is 0 keeps its array.                                 *)
CtxFree ==
  /\ cap # 0
  /\ cap' = 0 /\ len' = 0 /\ bytes' = NULL /\ made' = 0
  /\ UNCHANGED <<rule_size, fault>>

(* The argument of hs_acl_ctx_realloc, an int.                             *)
Doubled == Signed(Unsigned(cap * 2))

(* size * rule_size may overflow an int.  The product then wraps, or is    *)
(* kept whole by a compiler that widens what it may take not to overflow.  *)
Request == SizeT(IF wraps THEN Signed(Doubled * rule_size) ELSE Doubled * rule_size)

(* realloc(ruleList, 0) frees the array and returns NULL, or a new block of*)
(* no bytes.                                                               *)
Realloc(n) ==
  \/ n = 0 /\ bytes # NULL /\ bytes' = Dangling /\ UNCHANGED <<cap, len, fault>>
  \/ UNCHANGED <<bytes, cap, len, fault>>
  \/ /\ Granted(n)
     /\ bytes' = n /\ cap' = Unsigned(Doubled)
     /\ len' = len + 1
     /\ fault' = IF (len + 1) * rule_size > n THEN "overrun" ELSE fault

(* hs_rule_add of a new rule.                                              *)
Add ==
  /\ len = cap
  /\ IF bytes = Dangling THEN fault' = "badfree" /\ UNCHANGED <<bytes, cap, len>>
                         ELSE Realloc(Request)
  /\ UNCHANGED <<rule_size, made>>

AddWithRoom ==
  /\ len # cap
  /\ len' = len + 1
  /\ fault' = IF (len + 1) * rule_size > bytes THEN "overrun" ELSE fault
  /\ UNCHANGED <<cap, rule_size, bytes, made>>

DelWithIdx ==
  /\ len > 0
  /\ len' = len - 1
  /\ UNCHANGED <<cap, rule_size, bytes, made, fault>>

(* Nothing is said of the program after undefined behaviour.               *)
Next ==
  /\ fault = "none" /\ UNCHANGED wraps
  /\ \/ \E size \in Sizes, rs \in RuleSizes : CtxInit(size, rs)
     \/ CtxFree \/ Add \/ AddWithRoom \/ DelWithIdx

Spec == Init /\ [][Next]_vars

-----------------------------------------------------------------------------
(* What the caller has to see to, and what the code does not check: a size *)
(* above 0, and a first array that an int can measure.                     *)
WellMade == made > 0 /\ made * rule_size < HalfRange

(* The table of such a caller has the capacity it believes to have.  No    *)
(* check in hs_acl_ctx_realloc sees to it: where the array in use can be   *)
(* measured by an int, the doubled one is below twice that, so a product   *)
(* too large wraps to a negative number, a size_t no allocator grants, and *)
(* a failed add leaves the table where it can only fail again.  Of size 0, *)
(* whose first add writes into no bytes, and of a larger first array, whose*)
(* product can come out small, nothing is said.                            *)
CapacityIsBacked == WellMade => cap >= len /\ cap * rule_size <= bytes

(* It never writes past its array or hands a freed one to the allocator.   *)
NoFault == WellMade => fault = "none"
=============================================================================
