-------------------------- MODULE TableMemoryProofs ---------------------------
(***************************************************************************)
(* Proofs about TableMemory for all widths, sizes and memory limits: a     *)
(* table made with a size its first array can be measured with never       *)
(* believes in more slots than it has, whatever the compiler does with an  *)
(* int product that overflows.                                             *)
(***************************************************************************)
EXTENDS TableMemory, TLAPS

Counters ==
  /\ cap \in Nat /\ len \in Nat /\ made \in Nat
  /\ rule_size \in RuleSizes /\ wraps \in BOOLEAN

(* The product may pass INT_MAX only in a build that keeps it whole.       *)
Backed ==
  WellMade =>
    /\ cap \in 1..HalfRange - 1 /\ len \in 0..cap /\ bytes = cap * rule_size
    /\ wraps => cap * rule_size < HalfRange
    /\ fault = "none"

IInv == Counters /\ Backed

-----------------------------------------------------------------------------
LEMMA Widths ==
  /\ HalfRange \in Nat /\ HalfRange >= 2
  /\ \A s \in RuleSizes : s \in Nat /\ 2 <= s /\ s < HalfRange
  BY WidthAssumption, RuleSizesAssumption

(* % in the two ranges the code gets to.                                   *)
LEMMA ModSmall == ASSUME NEW m \in Nat \ {0}, NEW x \in 0..m - 1 PROVE x % m = x
  OBVIOUS

LEMMA ModBelow == ASSUME NEW m \in Nat \ {0}, NEW x \in 0..m - 1 PROVE (x - m) % m = x
  OBVIOUS

LEMMA ModAbove == ASSUME NEW m \in Nat \ {0}, NEW x \in 0..m - 1 PROVE (x + m) % m = x
  OBVIOUS

LEMMA ModRange == ASSUME NEW m \in Nat \ {0}, NEW x \in Int PROVE x % m \in 0..m - 1
  OBVIOUS
LEMMA UnsignedIs ==
  /\ \A x \in 0..2 * HalfRange - 1 : Unsigned(x) = x
  /\ \A x \in Int : Unsigned(x) \in 0..2 * HalfRange - 1
<1>1. 2 * HalfRange \in Nat \ {0}
  BY Widths
<1> QED
  BY <1>1, ModSmall, ModRange DEF Unsigned

LEMMA SignedIs ==
  /\ \A x \in -HalfRange..HalfRange - 1 : Signed(x) = x
  /\ \A x \in HalfRange..2 * HalfRange - 1 : Signed(x) = x - 2 * HalfRange
  /\ \A x \in Int : Signed(x) \in -HalfRange..HalfRange - 1
<1> DEFINE m == 2 * HalfRange
<1>1. HalfRange \in Nat /\ m \in Nat \ {0} /\ m = HalfRange + HalfRange
  BY Widths
<1>2. ASSUME NEW x \in -HalfRange..HalfRange - 1 PROVE Signed(x) = x
  <2>1. x + HalfRange \in 0..m - 1
    BY <1>1, <1>2
  <2>2. (x + HalfRange) % m = x + HalfRange
    BY <1>1, <2>1, ModSmall
  <2> QED
    BY <1>1, <2>2 DEF Signed
<1>3. ASSUME NEW x \in HalfRange..m - 1 PROVE Signed(x) = x - m
  <2> DEFINE y == x - HalfRange
  <2>1. y \in 0..m - 1 /\ x + HalfRange = y + m
    BY <1>1, <1>3
  <2>2. (y + m) % m = y
    <3> HIDE DEF y, m
    <3> QED
      BY <1>1, <2>1, ModAbove
  <2> QED
    BY <1>1, <2>1, <2>2 DEF Signed
<1>4. ASSUME NEW x \in Int PROVE Signed(x) \in -HalfRange..HalfRange - 1
  <2>1. (x + HalfRange) % m \in 0..m - 1
    <3> HIDE DEF m
    <3> QED
      BY <1>1, ModRange
  <2> QED
    BY <1>1, <2>1 DEF Signed
<1> QED
  BY <1>2, <1>3, <1>4

(* A negative product is a size_t beyond what an allocator grants.         *)
LEMMA SizeTIs ==
  ASSUME NEW q, q = HalfRange * HalfRange
  PROVE  /\ q \in Nat /\ q >= 2 * HalfRange
         /\ \A x \in 0..q : SizeT(x) = x
         /\ \A x \in 1..q : SizeT(-x) = 4 * q - x /\ ~Granted(SizeT(-x))
<1>1. q \in Nat /\ q >= 2 * HalfRange /\ q > 0
  BY Widths
<1>2. 4 * HalfRange * HalfRange = 4 * q /\ 2 * HalfRange * HalfRange = 2 * q
  BY Widths
<1>3. 4 * q \in Nat \ {0} /\ MemoryLimit <= 2 * q /\ MemoryLimit \in Nat
  BY <1>1, <1>2, WidthAssumption
<1>4. ASSUME NEW x \in 0..q PROVE SizeT(x) = x
  <2>1. x \in 0..4 * q - 1
    BY <1>1
  <2>2. x % (4 * q) = x
    BY <1>3, <2>1, ModSmall
  <2> QED
    BY <1>2, <2>2 DEF SizeT
<1>5. ASSUME NEW x \in 1..q PROVE SizeT(-x) = 4 * q - x
  <2> DEFINE m == 4 * q
             y == m - x
  <2>1. y \in 0..m - 1 /\ -x = y - m
    BY <1>1
  <2>2. (y - m) % m = y
    <3> HIDE DEF y, m
    <3> QED
      BY <1>3, <2>1, ModBelow DEF m
  <2> QED
    BY <1>2, <2>1, <2>2 DEF SizeT
<1> QED
  BY <1>1, <1>3, <1>4, <1>5 DEF Granted

(* What a sound table asks the allocator for when it is full: twice the    *)
(* bytes it has, or more than there are.                                   *)
LEMMA GrowIs ==
  ASSUME Counters, cap \in 1..HalfRange - 1, wraps => cap * rule_size < HalfRange
  PROVE  \/ /\ 2 * cap < HalfRange /\ Doubled = 2 * cap
            /\ Request = Doubled * rule_size
            /\ wraps => Request < HalfRange
            /\ Request > cap * rule_size
         \/ Request # 0 /\ ~Granted(Request)
<1> DEFINE p == cap * rule_size
           q == HalfRange * HalfRange
<1>1. /\ HalfRange \in Nat /\ HalfRange >= 2 /\ cap \in Nat /\ cap >= 1 /\ cap < HalfRange
      /\ rule_size \in Nat /\ 2 <= rule_size /\ rule_size < HalfRange /\ wraps \in BOOLEAN
  BY Widths DEF Counters
<1>2. p \in Nat /\ p >= 2 * cap /\ (2 * cap) * rule_size = 2 * p
  BY <1>1
<1>3. /\ q \in Nat /\ q >= 2 * HalfRange
      /\ \A x \in 0..q : SizeT(x) = x
      /\ \A x \in 1..q : SizeT(-x) = 4 * q - x /\ ~Granted(SizeT(-x))
  BY SizeTIs
<1>4. Doubled = Signed(2 * cap)
  <2>1. cap * 2 = 2 * cap /\ 2 * cap \in 0..2 * HalfRange - 1
    BY <1>1
  <2>2. Unsigned(cap * 2) = 2 * cap
    BY <2>1, UnsignedIs
  <2> QED
    BY <2>2 DEF Doubled
<1>5. CASE 2 * cap < HalfRange
  <2>1. Doubled = 2 * cap
    <3>1. 2 * cap \in -HalfRange..HalfRange - 1
      BY <1>1, <1>5
    <3> QED
      BY <3>1, <1>4, SignedIs
  <2>2. Doubled * rule_size = 2 * p
    BY <1>2, <2>1
  <2>3. 2 * p \in 0..q
    BY <1>1, <1>2, <1>5
  <2> HIDE DEF p, q
  <2>4. CASE ~wraps
    <3>1. Request = 2 * p
      BY <1>3, <2>2, <2>3, <2>4 DEF Request
    <3> QED
      BY <1>1, <1>2, <1>5, <2>1, <2>2, <2>4, <3>1 DEF p
  <2>5. CASE wraps /\ 2 * p < HalfRange
    <3>1. Signed(2 * p) = 2 * p
      BY <1>1, <1>2, <2>5, SignedIs
    <3>2. Request = 2 * p
      BY <1>3, <2>2, <2>3, <2>5, <3>1 DEF Request
    <3> QED
      BY <1>1, <1>2, <1>5, <2>1, <2>2, <2>5, <3>2 DEF p
  <2>6. CASE wraps /\ 2 * p >= HalfRange
    <3>1. p < HalfRange
      BY <2>6 DEF p
    <3>2. 2 * p \in HalfRange..2 * HalfRange - 1
      BY <1>1, <1>2, <2>6, <3>1
    <3>3. Signed(2 * p) = 2 * p - 2 * HalfRange
      BY <3>2, SignedIs
    <3> DEFINE x == 2 * HalfRange - 2 * p
    <3>4. x \in 1..q /\ Signed(2 * p) = -x
      BY <1>1, <1>2, <1>3, <3>1, <3>2, <3>3
    <3>5. Request = SizeT(-x)
      BY <2>2, <2>6, <3>4 DEF Request
    <3> HIDE DEF x
    <3> QED
      BY <1>3, <3>4, <3>5
  <2> QED
    BY <1>1, <1>2, <2>4, <2>5, <2>6
<1>6. CASE 2 * cap >= HalfRange
  <2>1. ~wraps
    BY <1>1, <1>2, <1>6
  <2> DEFINE d == 2 * HalfRange - 2 * cap
  <2>2. 2 * cap \in HalfRange..2 * HalfRange - 1 /\ d \in 1..HalfRange
    BY <1>1, <1>6
  <2>3. Doubled = -d
    BY <1>1, <1>4, <2>2, SignedIs
  <2> HIDE DEF d
  <2>4. d * rule_size \in 1..q /\ (-d) * rule_size = -(d * rule_size)
    BY <1>1, <2>2
  <2>5. Request = SizeT(-(d * rule_size))
    BY <2>1, <2>3, <2>4 DEF Request
  <2> HIDE DEF q
  <2> QED
    BY <1>3, <2>4, <2>5
<1> QED
  BY <1>1, <1>5, <1>6
-----------------------------------------------------------------------------
LEMMA InitInv == Init => IInv
  BY DEF Init, IInv, Counters, Backed, WellMade

(* The array of hs_acl_ctx_init: size * rule_size is below HalfRange for   *)
(* the caller the theorem is about, and so is size.                        *)
LEMMA CtxInitInv ==
  ASSUME IInv, fault = "none", UNCHANGED wraps, NEW size \in Sizes, NEW rs \in RuleSizes,
         CtxInit(size, rs)
  PROVE  IInv'
<1>1. /\ size \in Nat /\ HalfRange \in Nat /\ HalfRange >= 2 /\ rs \in Nat /\ rs >= 2
      /\ cap = 0 /\ len' = 0 /\ rule_size' = rs /\ fault' = "none" /\ wraps' \in BOOLEAN
  BY Widths, TableSizesAssumption DEF CtxInit, IInv, Counters
<1>2. CASE bytes' = size * rs /\ cap' = Unsigned(size) /\ made' = size
  <2>1. Unsigned(size) \in 0..2 * HalfRange - 1 /\ (size < 2 * HalfRange => Unsigned(size) = size)
    BY <1>1, UnsignedIs
  <2>2. size * rs < HalfRange => size < HalfRange
    BY <1>1
  <2> QED
    BY <1>1, <1>2, <2>1, <2>2 DEF IInv, Counters, Backed, WellMade
<1>3. CASE made' = 0 /\ UNCHANGED cap
  BY <1>1, <1>3 DEF IInv, Counters, Backed, WellMade
<1> QED
  BY <1>2, <1>3 DEF CtxInit

LEMMA CtxFreeInv == ASSUME IInv, UNCHANGED wraps, CtxFree PROVE IInv'
  BY DEF IInv, Counters, Backed, WellMade, CtxFree

(* An add to a full array that is granted doubles what there is.           *)
LEMMA AddInv == ASSUME IInv, fault = "none", UNCHANGED wraps, Add PROVE IInv'
<1>1. /\ HalfRange \in Nat /\ HalfRange >= 2 /\ rule_size \in Nat /\ rule_size >= 2
      /\ len = cap /\ Counters /\ UNCHANGED <<made, rule_size, wraps>> /\ WellMade' = WellMade
  BY Widths DEF Add, IInv, Counters, WellMade
<1>2. ASSUME WellMade
      PROVE  /\ cap \in 1..HalfRange - 1 /\ bytes = cap * rule_size /\ bytes # Dangling
             /\ \/ Request # 0 /\ ~Granted(Request)
                \/ /\ 2 * cap < HalfRange /\ Doubled = 2 * cap /\ Request # 0
                   /\ Request = Doubled * rule_size /\ (wraps => Request < HalfRange)
  <2>1. /\ cap \in 1..HalfRange - 1 /\ bytes = cap * rule_size
        /\ wraps => cap * rule_size < HalfRange
    BY <1>2 DEF IInv, Backed
  <2>2. cap * rule_size \in Nat
    BY <1>1, <2>1
  <2> QED
    BY <1>1, <2>1, <2>2, GrowIs DEF Dangling
<1>3. CASE UNCHANGED <<cap, len>>
  <2>1. CASE UNCHANGED <<bytes, fault>>
    BY <1>1, <1>3, <2>1 DEF IInv, Counters, Backed
  <2>2. CASE ~UNCHANGED <<bytes, fault>>
    <3>1. \/ bytes = Dangling /\ fault' = "badfree"
          \/ Request = 0 /\ fault' = fault
          \/ len' = len + 1
      BY <2>2 DEF Add, Realloc
    <3>2. ~WellMade /\ (fault' = fault \/ fault' = "badfree")
      BY <1>1, <1>2, <1>3, <3>1 DEF Counters
    <3> QED
      BY <1>1, <1>3, <3>2 DEF IInv, Counters, Backed
  <2> QED
    BY <2>1, <2>2
<1>4. CASE /\ Granted(Request) /\ bytes' = Request /\ cap' = Unsigned(Doubled)
           /\ len' = len + 1
           /\ fault' = IF (len + 1) * rule_size > Request THEN "overrun" ELSE fault
  <2>1. Doubled \in -HalfRange..HalfRange - 1 /\ cap' \in 0..2 * HalfRange - 1
    <3>1. Unsigned(cap * 2) \in Int
      BY UnsignedIs DEF IInv, Counters
    <3>2. Doubled \in Int /\ Doubled \in -HalfRange..HalfRange - 1
      BY <1>1, <3>1, SignedIs DEF Doubled
    <3> QED
      BY <1>4, <3>2, UnsignedIs
  <2>2. Counters'
    BY <1>1, <1>4, <2>1 DEF Counters
  <2>3. ASSUME cap' = 0 PROVE fault' # "none"
    <3>1. Doubled = 0
      <4>1. Doubled < 0 => Unsigned(Doubled) = Doubled + 2 * HalfRange
        <5> DEFINE m == 2 * HalfRange
                   y == Doubled + m
        <5>1. m \in Nat \ {0} /\ (Doubled < 0 => y \in 0..m - 1) /\ y - m = Doubled
          BY <1>1, <2>1
        <5>2. Doubled < 0 => (y - m) % m = y
          <6> HIDE DEF y, m
          <6> QED
            BY <5>1, ModBelow
        <5> QED
          BY <5>1, <5>2 DEF Unsigned
      <4>2. Doubled >= 0 => Unsigned(Doubled) = Doubled
        BY <1>1, <2>1, UnsignedIs
      <4> QED
        BY <1>1, <1>4, <2>1, <2>3, <4>1, <4>2
    <3>2. 0 * rule_size = 0 /\ 0 \in 0..HalfRange * HalfRange /\ 0 \in -HalfRange..HalfRange - 1
      BY <1>1
    <3>3. Request = 0
      BY <3>1, <3>2, SignedIs, SizeTIs DEF Request
    <3>4. (len + 1) * rule_size > 0
      BY <1>1 DEF Counters
    <3> QED
      BY <1>4, <3>3, <3>4
  <2>4. ASSUME WellMade PROVE Backed'
    <3>1. /\ 2 * cap < HalfRange /\ Doubled = 2 * cap /\ cap \in Nat /\ cap >= 1
          /\ Request = Doubled * rule_size /\ (wraps => Request < HalfRange)
      BY <1>1, <1>2, <1>4, <2>4
    <3>2. cap' = 2 * cap
      BY <1>1, <1>4, <3>1, UnsignedIs
    <3>3. (cap + 1) * rule_size <= (2 * cap) * rule_size
      BY <1>1, <3>1
    <3>4. fault' = "none"
      BY <1>1, <1>4, <3>1, <3>3
    <3> QED
      BY <1>1, <1>4, <3>1, <3>2, <3>4 DEF Backed
  <2> QED
    BY <1>1, <2>2, <2>3, <2>4 DEF IInv, Backed
<1> QED
  BY <1>3, <1>4 DEF Add, Realloc

LEMMA RoomInv ==
  ASSUME IInv, fault = "none", UNCHANGED wraps, AddWithRoom \/ DelWithIdx
  PROVE  IInv'
<1>1. /\ Counters /\ UNCHANGED <<cap, bytes, made, rule_size, wraps>> /\ WellMade' = WellMade
      /\ rule_size \in Nat /\ len' \in Nat
  BY Widths DEF AddWithRoom, DelWithIdx, IInv, Counters, WellMade
<1>2. ASSUME WellMade PROVE len' \in 0..cap /\ fault' = "none"
  <2>1. cap \in Nat /\ len \in 0..cap /\ bytes = cap * rule_size
    BY <1>1, <1>2 DEF IInv, Backed, Counters
  <2>2. CASE DelWithIdx
    BY <2>1, <2>2 DEF DelWithIdx
  <2>3. CASE AddWithRoom
    <3>1. len + 1 <= cap
      BY <2>1, <2>3 DEF AddWithRoom
    <3>2. (len + 1) * rule_size <= cap * rule_size
      BY <1>1, <2>1, <3>1
    <3> QED
      BY <1>1, <2>1, <2>3, <3>1, <3>2 DEF AddWithRoom
  <2> QED
    BY <2>2, <2>3
<1> QED
  BY <1>1, <1>2 DEF IInv, Counters, Backed

LEMMA StepInv == IInv /\ [Next]_vars => IInv'
<1> SUFFICES ASSUME IInv, [Next]_vars PROVE IInv'
  OBVIOUS
<1>1. CASE UNCHANGED vars
  BY <1>1 DEF vars, IInv, Counters, Backed, WellMade
<1>2. CASE Next
  BY <1>2, CtxInitInv, CtxFreeInv, AddInv, RoomInv DEF Next
<1> QED
  BY <1>1, <1>2

LEMMA MemoryInvariant == Spec => []IInv
  BY InitInv, StepInv, PTL DEF Spec

(* At any widths, a table whose first array an int can measure has the     *)
(* memory its cap says, although hs_acl_ctx_realloc checks no overflow.    *)
THEOREM AlwaysBacked == Spec => []CapacityIsBacked
<1>1. IInv => CapacityIsBacked
  <2> SUFFICES ASSUME IInv, WellMade PROVE cap >= len /\ cap * rule_size <= bytes
    BY DEF CapacityIsBacked
  <2>1. cap \in Nat /\ len \in 0..cap /\ bytes = cap * rule_size /\ rule_size \in Nat
    BY Widths DEF IInv, Backed, Counters
  <2> QED
    BY <2>1
<1> QED
  BY <1>1, MemoryInvariant, PTL

(* Nor does such a table write past its array or hand a freed one to the   *)
(* allocator, in rs_add and hs_acl_ctx_realloc.                            *)
THEOREM NeverOverruns == Spec => []NoFault
<1>1. IInv => NoFault
  BY DEF IInv, Backed, NoFault
<1> QED
  BY <1>1, MemoryInvariant, PTL
=============================================================================
