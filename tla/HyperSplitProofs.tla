--------------------------- MODULE HyperSplitProofs ---------------------------
(***************************************************************************)
(* Proofs about HyperSplit for any rule sets, dimensions, values, bucket   *)
(* sizes and vector sizes, and any outcome of the allocations: the tree    *)
(* answers what linear_search does if no rule has the lowest priority, and *)
(* in any case its recursion is sound, every node but the root has one     *)
(* parent, no memory is lost, and its counters are those of the tree.      *)
(***************************************************************************)
EXTENDS HyperSplit, SequenceTheorems, WellFoundedInduction, FiniteSetTheorems, TLAPS

USE MaxValAssumption

-----------------------------------------------------------------------------
(* What hs_build's computations on a rule list guarantee, for any lists:   *)
(* a child's list, trimmed and cleaned, answers every key of the child's   *)
(* part of the space as its parent's list does, the split point lies       *)
(* inside, and neither half is without rules.                              *)

(* A list of rules as hs_build gets it: ranks, and a box for each.         *)
IsList(l) == DOMAIN l \subseteq Nat \ {0} /\ l \in [DOMAIN l -> Box]

(* No range goes from high to low.                                         *)
Proper(l) == \A k \in DOMAIN l, d \in Dims : l[k][d][1] <= l[k][d][2]

-----------------------------------------------------------------------------
LEMMA Least ==
  ASSUME NEW S \in SUBSET Nat, S # {}
  PROVE  \E n \in S : \A m \in S : n <= m
<1> DEFINE T == {0..n : n \in S}
           R == StrictSubsetOrdering(Nat)
<1>1. \A n \in S : 0..n \in FiniteSubsetsOf(Nat)
  BY FS_Interval DEF FiniteSubsetsOf
<1>2. T \subseteq FiniteSubsetsOf(Nat) /\ T # {}
  BY <1>1
<1>3. PICK x \in T : \A y \in T : ~ (<<y, x>> \in R)
  <2> HIDE DEF T
  <2> QED
    BY <1>2, FS_StrictSubsetOrderingWellFounded, WFMin
<1>4. PICK n \in S : x = 0..n
  OBVIOUS
<1>5. ASSUME NEW m \in S, m < n PROVE FALSE
  <2>1. 0..m \in T /\ 0..m \subseteq 0..n /\ n \in 0..n /\ n \notin 0..m
    BY <1>5
  <2>2. <<0..m, x>> \in R
    BY <2>1, <1>4 DEF StrictSubsetOrdering
  <2> QED
    BY <2>1, <2>2, <1>3
<1> QED
  BY <1>5

LEMMA MinIs ==
  ASSUME NEW S \in SUBSET Nat, S # {}
  PROVE  Min(S) \in S /\ \A x \in S : Min(S) <= x
  BY Least DEF Min

LEMMA MaxIs ==
  ASSUME NEW m \in Nat, NEW S \in SUBSET (0..m), S # {}
  PROVE  Max(S) \in S /\ \A x \in S : x <= Max(S)
<1> DEFINE T == {m - x : x \in S}
<1>1. \A x \in S : x \in Nat /\ x <= m /\ m - x \in Nat
  OBVIOUS
<1>2. PICK n \in T : \A y \in T : n <= y
  <2>1. T \in SUBSET Nat /\ T # {}
    BY <1>1
  <2> HIDE DEF T
  <2> QED
    BY <2>1, Least
<1>3. PICK x \in S : n = m - x
  OBVIOUS
<1>4. \A y \in S : y <= x
  <2> SUFFICES ASSUME NEW y \in S PROVE y <= x
    OBVIOUS
  <2>1. m - x <= m - y
    BY <1>2, <1>3
  <2> QED
    BY <1>1, <2>1
<1>5. \A y \in S : x >= y
  BY <1>1, <1>4
<1>6. Max(S) \in S /\ \A y \in S : Max(S) >= y
  BY <1>5 DEF Max
<1> QED
  BY <1>1, <1>6

LEMMA BoxIs ==
  ASSUME NEW l, IsList(l), NEW k \in DOMAIN l, NEW d \in Dims
  PROVE  /\ k \in Nat \ {0} /\ l[k] \in [Dims -> Interval]
         /\ l[k][d] = <<l[k][d][1], l[k][d][2]>>
         /\ l[k][d][1] \in 0..MaxVal /\ l[k][d][2] \in 0..MaxVal
  BY DEF IsList, Box, Interval, Value

-----------------------------------------------------------------------------
LEMMA HitsAreRanks == ASSUME NEW l, IsList(l), NEW key PROVE Hits(l, key) \in SUBSET Nat
  BY DEF IsList, Hits

LEMMA SameFirst ==
  ASSUME NEW l, NEW m, NEW key, IsList(l), Hits(m, key) \subseteq Hits(l, key),
         Hits(l, key) # {} => Min(Hits(l, key)) \in Hits(m, key)
  PROVE  LinearSearch(m, key) = LinearSearch(l, key)
<1>1. Hits(l, key) \in SUBSET Nat /\ Hits(m, key) \in SUBSET Nat
  BY HitsAreRanks
<1>2. CASE Hits(l, key) = {}
  BY <1>2 DEF LinearSearch
<1>3. CASE Hits(l, key) # {}
  <2>1. Hits(m, key) # {}
    BY <1>3
  <2>2. /\ Min(Hits(l, key)) \in Hits(l, key) /\ \A x \in Hits(l, key) : Min(Hits(l, key)) <= x
        /\ Min(Hits(m, key)) \in Hits(m, key) /\ \A x \in Hits(m, key) : Min(Hits(m, key)) <= x
    BY <1>1, <1>3, <2>1, MinIs
  <2>3. Min(Hits(m, key)) = Min(Hits(l, key))
    <3>1. Min(Hits(m, key)) <= Min(Hits(l, key)) /\ Min(Hits(l, key)) <= Min(Hits(m, key))
      BY <1>3, <2>2
    <3>2. Min(Hits(m, key)) \in Nat /\ Min(Hits(l, key)) \in Nat
      BY <1>1, <2>2
    <3> QED
      BY <3>1, <3>2
  <2> QED
    BY <1>3, <2>1, <2>3 DEF LinearSearch
<1> QED
  BY <1>2, <1>3

(* Trimming keeps a rule in just the part of the space it is trimmed to.   *)
LEMMA ClipIs ==
  ASSUME NEW a \in Int, NEW b \in Int, NEW lo \in Int, NEW hi \in Int, NEW x \in Int
  PROVE  (Clip(<<a, b>>, lo, hi)[1] <= x /\ x <= Clip(<<a, b>>, lo, hi)[2]) <=>
           (a <= x /\ x <= b /\ lo <= x /\ x <= hi)
  BY DEF Clip

LEMMA TrimmedIs ==
  ASSUME NEW l, IsList(l), NEW d \in Dims, NEW lo \in Value, NEW hi \in Value
  PROVE  /\ IsList(Trimmed(l, d, lo, hi))
         /\ \A k : k \in DOMAIN Trimmed(l, d, lo, hi) <=>
                     k \in DOMAIN l /\ Overlaps(l[k][d], lo, hi)
         /\ \A k \in DOMAIN Trimmed(l, d, lo, hi) :
              /\ Trimmed(l, d, lo, hi)[k][d] = Clip(l[k][d], lo, hi)
              /\ \A e \in Dims \ {d} : Trimmed(l, d, lo, hi)[k][e] = l[k][e]
<1> DEFINE m == Trimmed(l, d, lo, hi)
<1>1. /\ DOMAIN m = {k \in DOMAIN l : Overlaps(l[k][d], lo, hi)}
      /\ \A k \in DOMAIN m : m[k] = [l[k] EXCEPT ![d] = Clip(l[k][d], lo, hi)]
  BY DEF Trimmed
<1>2. m = [k \in DOMAIN m |-> m[k]]
  BY DEF Trimmed
<1> HIDE DEF m
<1>3. ASSUME NEW k \in DOMAIN m
      PROVE  /\ m[k] \in Box /\ m[k][d] = Clip(l[k][d], lo, hi)
             /\ \A e \in Dims \ {d} : m[k][e] = l[k][e]
  <2>1. /\ k \in DOMAIN l /\ l[k] \in [Dims -> Interval]
        /\ l[k][d][1] \in 0..MaxVal /\ l[k][d][2] \in 0..MaxVal
    BY <1>1, <1>3, BoxIs
  <2>2. Clip(l[k][d], lo, hi) \in Interval
    BY <2>1 DEF Clip, Interval, Value
  <2> QED
    BY <1>1, <1>3, <2>1, <2>2 DEF Box
<1>4. IsList(m)
  BY <1>1, <1>2, <1>3 DEF IsList
<1> QED
  BY <1>1, <1>3, <1>4 DEF m

LEMMA TrimmedHits ==
  ASSUME NEW l, IsList(l), NEW d \in Dims, NEW lo \in Value, NEW hi \in Value, NEW key \in Key,
         \A k \in Hits(l, key) : lo <= key[d] /\ key[d] <= hi
  PROVE  Hits(Trimmed(l, d, lo, hi), key) = Hits(l, key)
<1> DEFINE m == Trimmed(l, d, lo, hi)
<1>1. /\ IsList(m) /\ \A k : k \in DOMAIN m <=> k \in DOMAIN l /\ Overlaps(l[k][d], lo, hi)
      /\ \A k \in DOMAIN m : /\ m[k][d] = Clip(l[k][d], lo, hi)
                             /\ \A e \in Dims \ {d} : m[k][e] = l[k][e]
  BY TrimmedIs
<1>2. lo \in Int /\ hi \in Int /\ key[d] \in Int
  BY DEF Key, Value
<1> HIDE DEF m
<1>3. ASSUME NEW k \in DOMAIN l
      PROVE  k \in Hits(m, key) <=> k \in Hits(l, key)
  <2>1. /\ l[k][d] = <<l[k][d][1], l[k][d][2]>> /\ l[k][d][1] \in Int /\ l[k][d][2] \in Int
    BY BoxIs
  <2> DEFINE a == l[k][d][1]
             b == l[k][d][2]
  <2>2. k \in DOMAIN m =>
          (Matches(m[k], key) <=> Matches(l[k], key) /\ lo <= key[d] /\ key[d] <= hi)
    <3> SUFFICES ASSUME k \in DOMAIN m
                 PROVE  Matches(m[k], key) <=> Matches(l[k], key) /\ lo <= key[d] /\ key[d] <= hi
      OBVIOUS
    <3>1. (m[k][d][1] <= key[d] /\ key[d] <= m[k][d][2]) <=>
            (a <= key[d] /\ key[d] <= b /\ lo <= key[d] /\ key[d] <= hi)
      <4>1. m[k][d] = Clip(<<a, b>>, lo, hi)
        BY <1>1, <2>1
      <4> HIDE DEF a, b
      <4> QED
        BY <1>2, <2>1, <4>1, ClipIs DEF a, b
    <3> QED
      BY <1>1, <3>1 DEF Matches
  <2>3. Matches(l[k], key) /\ lo <= key[d] /\ key[d] <= hi => k \in DOMAIN m
    <3>1. Matches(l[k], key) => a <= key[d] /\ key[d] <= b
      BY DEF Matches
    <3> QED
      BY <1>1, <1>2, <2>1, <3>1 DEF Overlaps
  <2> QED
    BY <2>2, <2>3 DEF Hits
<1>4. Hits(m, key) \subseteq DOMAIN l /\ Hits(l, key) \subseteq DOMAIN l
  BY <1>1 DEF Hits
<1> QED
  BY <1>3, <1>4 DEF m
-----------------------------------------------------------------------------
LEMMA RedundIs ==
  ASSUME NEW l, IsList(l), NEW pri
  PROVE  /\ IsList(RemoveRedund(l, pri)) /\ DOMAIN RemoveRedund(l, pri) = Kept(l, pri)
         /\ Kept(l, pri) \subseteq DOMAIN l
         /\ \A k \in Kept(l, pri) : RemoveRedund(l, pri)[k] = l[k]
  BY DEF IsList, RemoveRedund, Kept

LEMMA ContainedMatches ==
  ASSUME NEW a \in Box, NEW b \in Box, NEW key \in Key, Contained(a, b), Matches(b, key)
  PROVE  Matches(a, key)
<1> SUFFICES ASSUME NEW d \in Dims PROVE a[d][1] <= key[d] /\ key[d] <= a[d][2]
  BY DEF Matches
<1>1. /\ a[d][1] \in Int /\ a[d][2] \in Int /\ b[d][1] \in Int /\ b[d][2] \in Int
      /\ key[d] \in Int
  BY DEF Box, Interval, Value, Key
<1>2. a[d][1] <= b[d][1] /\ a[d][2] >= b[d][2] /\ b[d][1] <= key[d] /\ key[d] <= b[d][2]
  BY DEF Contained, Matches
<1> QED
  BY <1>1, <1>2

(* remove_redund never drops the first rule that matches: an earlier one   *)
(* that contains it would match as well.                                   *)
LEMMA RedundAnswers ==
  ASSUME NEW l, IsList(l), NEW pri, \A k \in DOMAIN l : pri[k] # UINT32_MAX, NEW key \in Key
  PROVE  LinearSearch(RemoveRedund(l, pri), key) = LinearSearch(l, key)
<1> DEFINE m == RemoveRedund(l, pri)
<1>1. /\ DOMAIN m \subseteq DOMAIN l /\ DOMAIN m = Kept(l, pri)
      /\ \A k \in DOMAIN m : m[k] = l[k]
  BY RedundIs
<1> HIDE DEF m
<1>2. Hits(m, key) \subseteq Hits(l, key)
  BY <1>1 DEF Hits
<1>3. ASSUME Hits(l, key) # {} PROVE Min(Hits(l, key)) \in Hits(m, key)
  <2>1. PICK k \in Hits(l, key) : k = Min(Hits(l, key)) /\ \A x \in Hits(l, key) : k <= x
    BY <1>3, HitsAreRanks, MinIs
  <2>2. k \in DOMAIN l /\ Matches(l[k], key) /\ DOMAIN l \subseteq Nat
    BY DEF Hits, IsList
  <2>3. ASSUME NEW j \in DOMAIN l, j < k PROVE ~Contained(l[j], l[k])
    <3>1. Contained(l[j], l[k]) => j \in Hits(l, key)
      BY <2>2, ContainedMatches DEF Hits, IsList
    <3> QED
      BY <3>1, <2>1, <2>2, <2>3
  <2>4. k \in Kept(l, pri)
    BY <2>2, <2>3 DEF Kept
  <2> QED
    BY <1>1, <2>1, <2>2, <2>4 DEF Hits
<1> QED
  BY <1>2, <1>3, SameFirst DEF m

-----------------------------------------------------------------------------
LEMMA LowsAre ==
  ASSUME NEW l, IsList(l), DOMAIN l # {}, NEW d \in Dims
  PROVE  /\ Lows(l, d) \in SUBSET (0..MaxVal) /\ Min(Lows(l, d)) \in Lows(l, d)
         /\ Min(Lows(l, d)) \in 0..MaxVal
         /\ \A k \in DOMAIN l : Min(Lows(l, d)) <= l[k][d][1]
<1>1. Lows(l, d) \in SUBSET (0..MaxVal) /\ Lows(l, d) # {}
  BY BoxIs DEF Lows
<1>2. Lows(l, d) \in SUBSET Nat
  BY <1>1
<1>3. Min(Lows(l, d)) \in Lows(l, d) /\ \A x \in Lows(l, d) : Min(Lows(l, d)) <= x
  BY <1>1, <1>2, MinIs
<1> QED
  BY <1>1, <1>3 DEF Lows

LEMMA EndsAre ==
  ASSUME NEW l, IsList(l), DOMAIN l # {}, NEW d \in Dims
  PROVE  /\ Ends(l, d) \in SUBSET (0..MaxVal)
         /\ \A e \in Ends(l, d) : Min(Lows(l, d)) <= e
         /\ \A e \in Ends(l, d) : (\E k \in DOMAIN l : l[k][d][1] = e + 1)
                                   \/ \E k \in DOMAIN l : l[k][d][2] = e
<1>1. /\ Lows(l, d) \in SUBSET (0..MaxVal) /\ Min(Lows(l, d)) \in 0..MaxVal
      /\ \A k \in DOMAIN l : Min(Lows(l, d)) <= l[k][d][1]
  BY LowsAre
<1> SUFFICES ASSUME NEW e \in Ends(l, d)
             PROVE  /\ e \in 0..MaxVal /\ Min(Lows(l, d)) <= e
                    /\ \/ \E k \in DOMAIN l : l[k][d][1] = e + 1
                       \/ \E k \in DOMAIN l : l[k][d][2] = e
  OBVIOUS
<1>2. CASE e \in Highs(l, d)
  <2>1. PICK k \in DOMAIN l : l[k][d][1] <= l[k][d][2] /\ e = l[k][d][2]
    BY <1>2 DEF Highs
  <2>2. l[k][d][1] \in 0..MaxVal /\ l[k][d][2] \in 0..MaxVal
    BY BoxIs
  <2> QED
    BY <1>1, <2>1, <2>2
<1>3. CASE \E x \in CutsBefore(l, d) : e = x - 1
  <2>1. PICK x \in Lows(l, d) : e = x - 1 /\ x > Min(Lows(l, d))
    BY <1>3 DEF CutsBefore
  <2>2. PICK k \in DOMAIN l : x = l[k][d][1]
    BY DEF Lows
  <2>3. x \in 0..MaxVal /\ Min(Lows(l, d)) \in 0..MaxVal
    BY <1>1
  <2>4. e \in 0..MaxVal /\ Min(Lows(l, d)) <= e /\ x = e + 1
    BY <2>1, <2>3
  <2> QED
    BY <2>2, <2>4
<1> QED
  BY <1>2, <1>3 DEF Ends

(* A key that a rule of the list matches lies between the ends of the      *)
(* space the list spans.                                                   *)
LEMMA HitsInside ==
  ASSUME NEW l, IsList(l), NEW d \in Dims, NEW key \in Key, NEW k \in Hits(l, key)
  PROVE  Min(Lows(l, d)) <= key[d] /\ key[d] <= Max(Ends(l, d))
<1>1. k \in DOMAIN l /\ l[k][d][1] <= key[d] /\ key[d] <= l[k][d][2]
  BY DEF Hits, Matches
<1>2. l[k][d][1] \in 0..MaxVal /\ l[k][d][2] \in 0..MaxVal /\ key[d] \in 0..MaxVal
  BY <1>1, BoxIs DEF Key, Value
<1>3. Min(Lows(l, d)) <= l[k][d][1] /\ Min(Lows(l, d)) \in 0..MaxVal
  BY <1>1, LowsAre
<1>4. l[k][d][2] \in Ends(l, d)
  BY <1>1, <1>2 DEF Ends, Highs
<1>5. /\ Ends(l, d) \in SUBSET (0..MaxVal) /\ Max(Ends(l, d)) \in Ends(l, d)
      /\ l[k][d][2] <= Max(Ends(l, d))
  BY <1>1, <1>4, EndsAre, MaxIs
<1> QED
  BY <1>1, <1>2, <1>3, <1>4, <1>5

(* Where there are two segments there is a split point, and either half    *)
(* has room for a value.                                                   *)
LEMMA ThresholdIs ==
  ASSUME NEW l, IsList(l), NEW d \in Splittable(l)
  PROVE  /\ d \in Dims /\ DOMAIN l # {} /\ Ends(l, d) \in SUBSET (0..MaxVal)
         /\ Threshold(l, d) \in Ends(l, d) /\ Max(Ends(l, d)) \in Ends(l, d)
         /\ Min(Lows(l, d)) \in 0..MaxVal /\ Min(Lows(l, d)) <= Threshold(l, d)
         /\ Threshold(l, d) < Max(Ends(l, d))
<1> DEFINE E == Ends(l, d)
           top == Max(E)
           cuts == E \ {top}
<1>1. d \in Dims /\ Cardinality(E) >= 2
  BY DEF Splittable
<1>2. DOMAIN l # {}
  <2> SUFFICES ASSUME DOMAIN l = {} PROVE FALSE
    OBVIOUS
  <2>1. E = {}
    BY DEF Ends, Highs, CutsBefore, Lows
  <2> QED
    BY <1>1, <2>1, FS_EmptySet
<1>3. E \in SUBSET (0..MaxVal) /\ \A e \in E : Min(Lows(l, d)) <= e
  BY <1>1, <1>2, EndsAre
<1>4. Min(Lows(l, d)) \in 0..MaxVal
  BY <1>1, <1>2, LowsAre
<1> HIDE DEF E
<1>5. E # {}
  BY <1>1, FS_EmptySet
<1>6. top \in E /\ \A e \in E : e <= top
  BY <1>3, <1>5, MaxIs
<1>7. cuts # {}
  <2> SUFFICES ASSUME cuts = {} PROVE FALSE
    OBVIOUS
  <2>1. E = {top}
    BY <1>6
  <2> QED
    BY <1>1, <2>1, FS_Singleton
<1>8. cuts \in SUBSET (0..MaxVal) /\ Max(cuts) \in cuts
  BY <1>3, <1>7, MaxIs
<1>9. Threshold(l, d) \in cuts
  <2> DEFINE S == {Max(cuts)} \union {e \in cuts : Heavy(l, d, e)}
  <2>1. S \subseteq cuts /\ S # {} /\ S \in SUBSET Nat
    BY <1>8
  <2>2. Min(S) \in S
    BY <2>1, MinIs
  <2>3. Threshold(l, d) = Min(S)
    BY DEF Threshold, E
  <2> QED
    BY <2>1, <2>2, <2>3
<1>10. Threshold(l, d) < top
  <2>1. Threshold(l, d) \in E /\ Threshold(l, d) # top
    BY <1>9
  <2> HIDE DEF top
  <2>2. \A e \in E : e \in Int
    BY <1>3
  <2>3. Threshold(l, d) <= top
    BY <1>6, <2>1
  <2> QED
    BY <1>6, <2>1, <2>2, <2>3
<1> QED
  BY <1>1, <1>2, <1>3, <1>4, <1>6, <1>9, <1>10 DEF E
(* If no range goes from high to low, both halves have rules, and in them  *)
(* none does either: the rule with the least low reaches into the first    *)
(* half, one that ends the space into the second.                          *)
LEMMA HalvesNotEmpty ==
  ASSUME NEW l, IsList(l), Proper(l), NEW d \in Splittable(l)
  PROVE  /\ DOMAIN Trimmed(l, d, Min(Lows(l, d)), Threshold(l, d)) # {}
         /\ DOMAIN Trimmed(l, d, Threshold(l, d) + 1, Max(Ends(l, d))) # {}
<1> DEFINE lo == Min(Lows(l, d))
           t  == Threshold(l, d)
           hi == Max(Ends(l, d))
<1>1. /\ d \in Dims /\ DOMAIN l # {} /\ Ends(l, d) \in SUBSET (0..MaxVal)
      /\ t \in Ends(l, d) /\ hi \in Ends(l, d) /\ lo \in 0..MaxVal /\ lo <= t /\ t < hi
  BY ThresholdIs
<1>2. t \in 0..MaxVal /\ hi \in 0..MaxVal /\ t + 1 \in 0..MaxVal
  <2>1. t \in 0..MaxVal /\ hi \in 0..MaxVal
    BY <1>1
  <2> HIDE DEF t, hi
  <2> QED
    BY <1>1, <2>1
<1>3. \A e \in Ends(l, d) : e <= hi
  BY <1>1, MaxIs
<1>4. lo \in Lows(l, d)
  BY <1>1, LowsAre
<1>5. /\ (\E k \in DOMAIN l : l[k][d][1] = hi + 1) \/ \E k \in DOMAIN l : l[k][d][2] = hi
  BY <1>1, EndsAre
<1> HIDE DEF lo, t, hi
<1>6. DOMAIN Trimmed(l, d, lo, t) # {}
  <2>1. PICK k \in DOMAIN l : l[k][d][1] = lo
    BY <1>4 DEF Lows
  <2>2. lo <= l[k][d][2] /\ l[k][d][2] \in 0..MaxVal
    BY <1>1, <2>1, BoxIs DEF Proper
  <2>3. Overlaps(l[k][d], lo, t)
    BY <1>1, <1>2, <2>1, <2>2 DEF Overlaps
  <2> QED
    BY <1>1, <1>2, <2>3, TrimmedIs DEF Value
<1>7. DOMAIN Trimmed(l, d, t + 1, hi) # {}
  <2>1. PICK k \in DOMAIN l : l[k][d][1] = hi + 1 \/ l[k][d][2] = hi
    BY <1>5
  <2>2. /\ l[k][d][1] <= l[k][d][2] /\ l[k][d][1] \in 0..MaxVal /\ l[k][d][2] \in 0..MaxVal
        /\ l[k][d][2] <= hi
    <3>1. l[k][d][1] <= l[k][d][2] /\ l[k][d][1] \in 0..MaxVal /\ l[k][d][2] \in 0..MaxVal
      BY <1>1, BoxIs DEF Proper
    <3>2. l[k][d][2] \in Ends(l, d)
      BY <3>1 DEF Ends, Highs
    <3> QED
      BY <3>1, <3>2, <1>3
  <2>3. Overlaps(l[k][d], t + 1, hi)
    BY <1>1, <1>2, <2>1, <2>2 DEF Overlaps
  <2> QED
    BY <1>1, <1>2, <2>3, TrimmedIs DEF Value
<1> QED
  BY <1>6, <1>7 DEF lo, t, hi

LEMMA ChildProper ==
  ASSUME NEW l, IsList(l), Proper(l), NEW d \in Dims, NEW lo \in Value, NEW hi \in Value,
         lo <= hi, NEW pri
  PROVE  Proper(RemoveRedund(Trimmed(l, d, lo, hi), pri))
<1> DEFINE m == Trimmed(l, d, lo, hi)
           r == RemoveRedund(m, pri)
<1>1. /\ IsList(m) /\ \A k : k \in DOMAIN m <=> k \in DOMAIN l /\ Overlaps(l[k][d], lo, hi)
      /\ \A k \in DOMAIN m : /\ m[k][d] = Clip(l[k][d], lo, hi)
                             /\ \A e \in Dims \ {d} : m[k][e] = l[k][e]
  BY TrimmedIs
<1> HIDE DEF m
<1>2. DOMAIN r \subseteq DOMAIN m /\ \A k \in DOMAIN r : r[k] = m[k]
  BY <1>1, RedundIs
<1> HIDE DEF r
<1>3. ASSUME NEW k \in DOMAIN m, NEW e \in Dims PROVE m[k][e][1] <= m[k][e][2]
  <2>1. CASE e = d
    <3>1. /\ l[k][d][1] \in Int /\ l[k][d][2] \in Int /\ l[k][d][1] <= l[k][d][2]
          /\ Overlaps(l[k][d], lo, hi) /\ lo \in Int /\ hi \in Int
      BY <1>1, <1>3, BoxIs DEF Proper, Value
    <3> QED
      BY <1>1, <1>3, <2>1, <3>1 DEF Overlaps, Clip
  <2>2. CASE e # d
    BY <1>1, <1>3, <2>2 DEF Proper
  <2> QED
    BY <2>1, <2>2
<1> QED
  BY <1>2, <1>3 DEF Proper, r, m

-----------------------------------------------------------------------------
(* What a child's list is: a list of some of its parent's ranks, with an   *)
(* answer for every key of the child's part that is the parent's.          *)
THEOREM ChildAnswersAlike ==
  ASSUME NEW l, IsList(l), NEW d \in Dims, NEW lo \in Value, NEW hi \in Value,
         NEW pri, \A k \in DOMAIN Trimmed(l, d, lo, hi) : pri[k] # UINT32_MAX,
         NEW key \in Key, \A k \in Hits(l, key) : lo <= key[d] /\ key[d] <= hi
  PROVE  LinearSearch(RemoveRedund(Trimmed(l, d, lo, hi), pri), key) = LinearSearch(l, key)
<1> DEFINE m == Trimmed(l, d, lo, hi)
<1>1. IsList(m) /\ \A k \in DOMAIN m : pri[k] # UINT32_MAX
  BY TrimmedIs
<1>2. Hits(m, key) = Hits(l, key)
  BY TrimmedHits
<1> HIDE DEF m
<1>3. LinearSearch(RemoveRedund(m, pri), key) = LinearSearch(m, key)
  BY <1>1, RedundAnswers
<1> QED
  BY <1>2, <1>3 DEF LinearSearch, m

-----------------------------------------------------------------------------
(* The tree.                                                               *)

(* No rule of a set has priority UINT32_MAX, which remove_redund takes for *)
(* its own mark.                                                           *)
NoLowest == \A a \in Acls : \A k \in DOMAIN a : a[k].pri # UINT32_MAX

-----------------------------------------------------------------------------
(* The vector of nodes, and which of them have been handed out.            *)

IsNode(nd) == /\ DOMAIN nd = {"d2s", "depth", "thresh", "child", "rules"}
              /\ nd = [i \in DOMAIN nd |-> nd[i]]

VecOK ==
  /\ cap \in Nat \ {0} /\ DOMAIN nodes = 0..cap - 1 /\ nodes = [n \in 0..cap - 1 |-> nodes[n]]
  /\ \A n \in 0..cap - 1 : IsNode(nodes[n])
  /\ len \in 1..cap /\ gen \in Nat

SpaceOK ==
  /\ DOMAIN space \subseteq 0..len - 1 /\ space = [n \in DOMAIN space |-> space[n]]
  /\ \A n \in DOMAIN space : space[n] \subseteq Keys
  /\ 0 \in DOMAIN space /\ space[0] = Keys

(* The list of a node whose turn it is: some of the rules of the set, or   *)
(* the stray rule if a range of the set goes from high to low.             *)
ProperAcl(a) == \A k \in DOMAIN a, d \in Dims : a[k].range[d][1] <= a[k].range[d][2]
ListOf(l, a) ==
  \/ l = Stray /\ ~ProperAcl(a)
  \/ IsList(l) /\ DOMAIN l \subseteq DOMAIN a /\ (ProperAcl(a) => Proper(l))

Alike(l, keys, a) ==
  NoLowest /\ l # Stray =>
    \A key \in keys : LinearSearch(l, key) = LinearSearch(RootRules(a), key)

LeftHalf(keys, d, t)  == {key \in keys : ~(key[d] > t)}
RightHalf(keys, d, t) == {key \in keys : key[d] > t}

-----------------------------------------------------------------------------
(* The activations of hs_build.                                            *)

FrameType == [idx : Nat, at : Int, pc : {"enter", "child1", "child2", "left", "right", "finish"},
              d2s : Nat, thresh : Nat, low : Nat, high : Nat, child : Nat]

(* The split of an activation is that of its node, and of its node's list. *)
Chosen(f, nd) ==
  /\ nd.rules # Stray /\ nd.d2s = f.d2s /\ nd.thresh = f.thresh
  /\ f.d2s \in Splittable(nd.rules) /\ f.thresh = Threshold(nd.rules, f.d2s)
  /\ f.low = Min(Lows(nd.rules, f.d2s)) /\ f.high = Max(Ends(nd.rules, f.d2s))

(* How far it has got with its children: n nodes are handed out, sp says   *)
(* which are built or being built.                                         *)
Children(f, n, sp) ==
  /\ f.pc = "child2" => f.child # 0 /\ f.child = n - 1
  /\ f.pc \in {"left", "right", "finish"} => f.child # 0 /\ f.child + 1 < n
  /\ f.pc \in {"right", "finish"} =>
       f.child \in DOMAIN sp /\ sp[f.child] = LeftHalf(sp[f.idx], f.d2s, f.thresh)
  /\ f.pc = "finish" =>
       f.child + 1 \in DOMAIN sp /\ sp[f.child + 1] = RightHalf(sp[f.idx], f.d2s, f.thresh)

(* The nodes an activation has and has not yet begun to build.             *)
Pending(f, n) == \/ f.pc \in {"child2", "left"} /\ n = f.child
                 \/ f.pc \in {"left", "right"} /\ n = f.child + 1

(* nds, n, sp, a and g stand for nodes, len, space, acl and gen.           *)
FrameOK(f, nds, n, sp, a, g) ==
  /\ f.idx \in DOMAIN sp /\ f.at \in 0..g
  /\ ListOf(nds[f.idx].rules, a) /\ Alike(nds[f.idx].rules, sp[f.idx], a)
  /\ f.pc # "enter" => Chosen(f, nds[f.idx])
  /\ Children(f, n, sp)
  /\ \A m \in DOMAIN sp : ~Pending(f, m)

(* No two activations build the same node, or are going to; and all but the*)
(* innermost wait for a child.                                             *)
Apart(f, g) ==
  /\ f.pc \in {"right", "finish"} /\ f.idx # g.idx
  /\ \A n \in Nat : ~(Pending(f, n) /\ Pending(g, n))

Frames ==
  /\ \A k \in 1..Len(stack) : FrameOK(stack[k], nodes, len, space, acl, gen)
  /\ \A j, k \in 1..Len(stack) : j < k => Apart(stack[j], stack[k])
  /\ PointersFresh

Active(s) == {s[k].idx : k \in 1..Len(s)}

(* A finished node: a leaf that answers for its keys, or an inner node that*)
(* shares them out to its children, and but for the root has no rules.     *)
DoneOK(n, nd, sp, a) ==
  \/ /\ nd.child = LEAF /\ Alike(nd.rules, sp[n], a)
     /\ nd.rules = Stray => ~ProperAcl(a)
  \/ /\ nd.child \in Nat /\ nd.child \in DOMAIN sp /\ nd.child + 1 \in DOMAIN sp
     /\ sp[nd.child] = LeftHalf(sp[n], nd.d2s, nd.thresh)
     /\ sp[nd.child + 1] = RightHalf(sp[n], nd.d2s, nd.thresh)
     /\ nd.rules # Stray /\ (nd.rules # NoRules => Alike(nd.rules, sp[n], a))

Finished == \A n \in DOMAIN space : n \in Active(stack) \/ DoneOK(n, nodes[n], space, acl)

Tree == VecOK /\ SpaceOK /\ Frames /\ Finished

-----------------------------------------------------------------------------
(* What is left of a tree that was given up.                               *)
Wreck ==
  /\ len \in Nat /\ gen \in Nat \union {-1} /\ (gen # -1 => len <= cap)
  /\ \A n \in DOMAIN space : n < len /\ space[n] \subseteq Keys
  /\ (NoLowest => NodesAnswerAlike) /\ ListsNotEmpty

WalkOK ==
  walk # NoWalk =>
    /\ pc = "built"
    /\ walk = [key |-> walk.key, at |-> walk.at, ret |-> walk.ret]
    /\ walk.at \in DOMAIN space /\ walk.key \in space[walk.at]
    /\ NoLowest /\ walk.ret >= 0 => walk.ret = LinearSearch(RootRules(acl), walk.key)

Shape ==
  /\ pc \in {"empty", "building", "failed", "built", "crashed", "overread"}
  /\ stack \in Seq(FrameType) /\ ((pc = "building") <=> (stack # <<>>))
  /\ pc # "empty" => acl \in Acls
  /\ pc = "empty" => len = 0 /\ gen = -1 /\ space = [n \in {} |-> {}]

IInv ==
  /\ Shape
  /\ pc \in {"building", "built"} => Tree
  /\ pc \in {"failed", "crashed", "overread"} => Wreck
  /\ WalkOK

-----------------------------------------------------------------------------
LEMMA NodesEmpty == [n \in {} |-> Zeroed] = <<>>
  OBVIOUS

LEMMA RootList ==
  ASSUME NEW a \in Acls
  PROVE  ListOf(RootRules(a), a) /\ DOMAIN RootRules(a) = DOMAIN a
<1>1. a \in Seq(Rule) /\ DOMAIN a \subseteq Nat \ {0} /\ \A k \in DOMAIN a : a[k].range \in Box
  <2>1. a \in Seq(Rule)
    BY AclsAssumption
  <2>2. DOMAIN a = 1..Len(a) /\ Len(a) \in Nat /\ \A k \in 1..Len(a) : a[k] \in Rule
    BY <2>1
  <2> QED
    BY <2>1, <2>2 DEF Rule
<1> QED
  BY <1>1 DEF ListOf, RootRules, IsList, Proper, ProperAcl

LEMMA StrayIs == Stray # NoRules /\ Stray # Wild /\ \A l : IsList(l) => l # Stray
<1>1. DOMAIN Stray = {-1}
  BY DEF Stray
<1>2. DOMAIN NoRules = {} /\ DOMAIN Wild = {0} /\ -1 # 0 /\ -1 \notin Nat
  BY DEF NoRules, Wild
<1> QED
  BY <1>1, <1>2 DEF IsList

(* A set that is not proper has a range from high to low.                  *)
LEMMA Inverted ==
  ASSUME acl \in Acls, ~ProperAcl(acl)
  PROVE  \E k \in DOMAIN acl, d \in Dims : acl[k].range[d][1] > acl[k].range[d][2]
<1>1. PICK k \in DOMAIN acl, d \in Dims : ~(acl[k].range[d][1] <= acl[k].range[d][2])
  BY DEF ProperAcl
<1>2. acl[k].range[d][1] \in Int /\ acl[k].range[d][2] \in Int
  <2> DEFINE l == [i \in DOMAIN acl |-> acl[i].range]
  <2>1. IsList(l) /\ DOMAIN l = DOMAIN acl /\ l[k] = acl[k].range
    <3>1. acl \in Seq(Rule)
      BY AclsAssumption
    <3>2. DOMAIN acl = 1..Len(acl) /\ Len(acl) \in Nat /\ \A i \in 1..Len(acl) : acl[i] \in Rule
      BY <3>1
    <3>3. \A i \in DOMAIN acl : acl[i].range \in Box
      BY <3>2 DEF Rule
    <3> QED
      BY <3>2, <3>3 DEF IsList
  <2>2. l[k][d][1] \in 0..MaxVal /\ l[k][d][2] \in 0..MaxVal
    <3> HIDE DEF l
    <3> QED
      BY <2>1, BoxIs
  <2> QED
    BY <2>1, <2>2
<1> QED
  BY <1>1, <1>2

LEMMA TopIs ==
  ASSUME Shape, pc = "building"
  PROVE  /\ Len(stack) \in Nat \ {0} /\ Top = stack[Len(stack)] /\ Top \in FrameType
         /\ \A k \in 1..Len(stack) : stack[k] \in FrameType
  BY DEF Shape, Top

LEMMA SetTopIs ==
  ASSUME stack \in Seq(FrameType), stack # <<>>, NEW f \in FrameType, stack' = SetTop(f)
  PROVE  /\ stack' \in Seq(FrameType) /\ stack' # <<>> /\ Len(stack') = Len(stack)
         /\ stack'[Len(stack)] = f
         /\ \A k \in 1..Len(stack) - 1 : stack'[k] = stack[k]
  BY DEF SetTop

LEMMA PushIs ==
  ASSUME stack \in Seq(FrameType), stack # <<>>, NEW f \in FrameType, NEW g \in FrameType,
         stack' = Append(SetTop(f), g)
  PROVE  /\ stack' \in Seq(FrameType) /\ stack' # <<>> /\ Len(stack') = Len(stack) + 1
         /\ stack'[Len(stack)] = f /\ stack'[Len(stack) + 1] = g
         /\ \A k \in 1..Len(stack) - 1 : stack'[k] = stack[k]
<1>1. SetTop(f) \in Seq(FrameType) /\ Len(SetTop(f)) = Len(stack)
      /\ SetTop(f)[Len(stack)] = f /\ \A k \in 1..Len(stack) - 1 : SetTop(f)[k] = stack[k]
  BY DEF SetTop
<1> QED
  BY <1>1, AppendProperties

LEMMA PopIs ==
  ASSUME stack \in Seq(FrameType), Len(stack) > 1, gen' \in Int,
         stack' = [k \in 1..Len(stack) - 1 |->
                     IF k = Len(stack) - 1 THEN Fetch(stack[k]) ELSE stack[k]]
  PROVE  /\ stack' \in Seq(FrameType) /\ stack' # <<>> /\ Len(stack') = Len(stack) - 1
         /\ stack'[Len(stack) - 1].at = gen'
         /\ \A k \in 1..Len(stack) - 1 :
              /\ stack'[k] = [stack[k] EXCEPT !.at = stack'[k].at]
              /\ stack[k] \in FrameType
<1>1. \A k \in 1..Len(stack) - 1 : stack[k] \in FrameType
  OBVIOUS
<1>2. ASSUME NEW k \in 1..Len(stack) - 1
      PROVE  stack'[k] \in FrameType /\ stack'[k] = [stack[k] EXCEPT !.at = stack'[k].at]
  <2>1. stack'[k] = IF k = Len(stack) - 1 THEN [stack[k] EXCEPT !.at = gen'] ELSE stack[k]
    BY DEF Fetch
  <2>2. stack[k] \in FrameType
    BY <1>1
  <2> QED
    BY <2>1, <2>2 DEF FrameType
<1>3. stack' \in Seq(FrameType) /\ Len(stack') = Len(stack) - 1 /\ stack' # <<>>
  <2> DEFINE n == Len(stack) - 1
             e(k) == IF k = n THEN Fetch(stack[k]) ELSE stack[k]
  <2>1. n \in Nat \ {0}
    OBVIOUS
  <2>2. stack' = [k \in 1..n |-> e(k)]
    OBVIOUS
  <2>3. \A k \in 1..n : e(k) \in FrameType
    BY <1>2
  <2> HIDE DEF n, e
  <2>4. stack' \in [1..n -> FrameType]
    BY <2>2, <2>3
  <2>5. stack' \in Seq(FrameType) /\ DOMAIN stack' = 1..n
    BY <2>1, <2>4, SeqDef
  <2>6. Len(stack') = n
    BY <2>1, <2>5, LenProperties
  <2>7. stack' # <<>>
    BY <2>1, <2>6, EmptySeq
  <2> QED
    BY <2>5, <2>6, <2>7 DEF n
<1>4. stack'[Len(stack) - 1].at = gen'
  BY <1>1 DEF Fetch, FrameType
<1> QED
  BY <1>1, <1>2, <1>3, <1>4

-----------------------------------------------------------------------------
(* What the outer activations and the finished nodes rely on is not touched*)
(* by the innermost.                                                       *)
LEMMA FrameKept ==
  ASSUME NEW f \in FrameType, NEW f2 \in FrameType, f2 = [f EXCEPT !.at = f2.at],
         f.pc \in {"right", "finish"},
         NEW nds, NEW n \in Int, NEW sp, NEW a, NEW g \in Int,
         NEW nds2, NEW n2 \in Int, NEW sp2, NEW g2 \in Int,
         FrameOK(f, nds, n, sp, a, g), nds2[f.idx] = nds[f.idx], n <= n2, f2.at \in 0..g2,
         \A m \in DOMAIN sp : m \in DOMAIN sp2 /\ sp2[m] = sp[m],
         \A m \in DOMAIN sp2 : m \in DOMAIN sp \/ ~Pending(f, m)
  PROVE  FrameOK(f2, nds2, n2, sp2, a, g2)
<1>1. /\ f2.idx = f.idx /\ f2.pc = f.pc /\ f2.d2s = f.d2s /\ f2.thresh = f.thresh
      /\ f2.low = f.low /\ f2.high = f.high /\ f2.child = f.child /\ f.child \in Nat
  BY DEF FrameType
<1>2. Children(f2, n2, sp2)
  BY <1>1 DEF FrameOK, Children
<1>3. \A m \in DOMAIN sp2 : ~Pending(f2, m)
  BY <1>1 DEF FrameOK, Pending
<1> QED
  BY <1>1, <1>2, <1>3 DEF FrameOK, Chosen

LEMMA ApartKept ==
  ASSUME NEW f \in FrameType, NEW f2 \in FrameType, f2 = [f EXCEPT !.at = f2.at],
         NEW g \in FrameType, NEW g2 \in FrameType, g2 = [g EXCEPT !.at = g2.at], Apart(f, g)
  PROVE  Apart(f2, g2)
  BY DEF Apart, Pending, FrameType

LEMMA DoneKept ==
  ASSUME NEW n, NEW nd, NEW sp, NEW sp2, NEW a, n \in DOMAIN sp, DoneOK(n, nd, sp, a),
         \A m \in DOMAIN sp : m \in DOMAIN sp2 /\ sp2[m] = sp[m]
  PROVE  DoneOK(n, nd, sp2, a)
  BY DEF DoneOK

LEMMA PendingIs ==
  ASSUME NEW f \in FrameType, NEW nds, NEW n \in Int, NEW sp, NEW a, NEW g,
         FrameOK(f, nds, n, sp, a, g)
  PROVE  \A m : Pending(f, m) => m \in 0..n - 1
  BY DEF FrameOK, Children, Pending, FrameType

(* The innermost activation goes on by itself.                             *)
LEMMA SetTopTree ==
  ASSUME Shape, Tree, pc = "building", UNCHANGED <<pc, acl, space>>,
         NEW f \in FrameType, stack' = SetTop(f), f.idx = Top.idx,
         VecOK', len' >= len, gen' >= gen,
         \A n \in DOMAIN space : n # Top.idx => nodes'[n] = nodes[n],
         FrameOK(f, nodes', len', space, acl, gen'),
         \A m \in Nat : Pending(f, m) => Pending(Top, m) \/ m >= len,
         f.pc # "child2" => f.at = gen'
  PROVE  Tree' /\ Shape'
<1> DEFINE h == Len(stack)
<1>1. /\ h \in Nat \ {0} /\ Top = stack[h] /\ Top \in FrameType
      /\ \A k \in 1..h : stack[k] \in FrameType
  BY TopIs
<1>2. /\ stack' \in Seq(FrameType) /\ stack' # <<>> /\ Len(stack') = h /\ stack'[h] = f
      /\ \A k \in 1..h - 1 : stack'[k] = stack[k]
  BY SetTopIs DEF Shape
<1>3. Shape'
  BY <1>2 DEF Shape
<1>4. len \in Int /\ len' \in Int /\ gen \in Int /\ gen' \in Int
  BY DEF Tree, VecOK
<1>5. \A k \in 1..h : FrameOK(stack[k], nodes, len, space, acl, gen)
  BY DEF Tree, Frames
<1>6. \A k \in 1..h - 1 : Apart(stack[k], Top)
  BY <1>1 DEF Tree, Frames
<1> HIDE DEF h
<1>7. ASSUME NEW k \in 1..h - 1 PROVE FrameOK(stack'[k], nodes', len', space', acl', gen')
  <2>1. /\ stack[k] \in FrameType /\ FrameOK(stack[k], nodes, len, space, acl, gen)
        /\ stack[k].idx # Top.idx /\ stack[k].pc \in {"right", "finish"}
    BY <1>1, <1>5, <1>6 DEF Apart
  <2>2. /\ stack[k].at \in 0..gen' /\ stack[k].idx \in DOMAIN space
        /\ stack[k] = [stack[k] EXCEPT !.at = stack[k].at]
    BY <2>1, <1>4 DEF FrameOK, FrameType
  <2>3. FrameOK(stack[k], nodes', len', space, acl, gen')
    BY <2>1, <2>2, <1>4, FrameKept
  <2> QED
    BY <2>3, <1>2
<1>8. ASSUME NEW k \in 1..h - 1 PROVE Apart(stack[k], f)
  <2>1. /\ Apart(stack[k], Top) /\ stack[k] \in FrameType
        /\ FrameOK(stack[k], nodes, len, space, acl, gen)
    BY <1>1, <1>5, <1>6
  <2>2. \A m : Pending(stack[k], m) => m \in 0..len - 1
    BY <2>1, <1>4, PendingIs
  <2> QED
    BY <2>1, <2>2, <1>4 DEF Apart
<1>9. \A j, k \in 1..h : j < k => Apart(stack'[j], stack'[k])
  <2> SUFFICES ASSUME NEW j \in 1..h, NEW k \in 1..h, j < k PROVE Apart(stack'[j], stack'[k])
    OBVIOUS
  <2>1. CASE k = h
    BY <2>1, <1>1, <1>2, <1>8
  <2>2. CASE k # h
    <3>1. stack'[j] = stack[j] /\ stack'[k] = stack[k]
      BY <2>2, <1>1, <1>2
    <3> QED
      BY <3>1 DEF Tree, Frames, h
  <2> QED
    BY <2>1, <2>2
<1>10. PointersFresh'
  BY <1>1, <1>2 DEF PointersFresh, Top
<1>11. Frames'
  <2>1. \A k \in 1..h : FrameOK(stack'[k], nodes', len', space', acl', gen')
    BY <1>1, <1>2, <1>7
  <2> QED
    BY <2>1, <1>2, <1>9, <1>10 DEF Frames
<1>12. Active(stack') = Active(stack)
  BY <1>1, <1>2 DEF Active, h
<1>13. Finished'
  <2>1. Top.idx \in Active(stack)
    BY <1>1 DEF Active, h
  <2> QED
    BY <2>1, <1>12 DEF Finished, Tree
<1>14. SpaceOK'
  BY <1>4 DEF SpaceOK, Tree
<1> QED
  BY <1>3, <1>11, <1>13, <1>14 DEF Tree

(* It calls itself for a child n it had reserved.                          *)
LEMMA PushTree ==
  ASSUME Shape, Tree, pc = "building", UNCHANGED <<pc, acl, len, gen>>,
         NEW f \in FrameType, NEW g \in FrameType, stack' = Append(SetTop(f), g),
         f.idx = Top.idx, f.pc \in {"right", "finish"}, g.at = gen,
         VecOK', SpaceOK', Pending(Top, g.idx), ~Pending(f, g.idx),
         \A m \in DOMAIN space :
           nodes'[m] = nodes[m] /\ m \in DOMAIN space' /\ space'[m] = space[m],
         \A m \in DOMAIN space' : m \in DOMAIN space \/ m = g.idx,
         FrameOK(f, nodes', len, space', acl, gen), FrameOK(g, nodes', len, space', acl, gen),
         \A m \in Nat : Pending(f, m) => Pending(Top, m),
         \A m \in Nat : ~Pending(g, m), g.pc # "child2"
  PROVE  Tree' /\ Shape'
<1> DEFINE h == Len(stack)
<1>1. /\ h \in Nat \ {0} /\ Top = stack[h] /\ Top \in FrameType
      /\ \A k \in 1..h : stack[k] \in FrameType
  BY TopIs
<1>2. /\ stack' \in Seq(FrameType) /\ stack' # <<>> /\ Len(stack') = h + 1
      /\ stack'[h] = f /\ stack'[h + 1] = g
      /\ \A k \in 1..h - 1 : stack'[k] = stack[k]
  BY PushIs DEF Shape
<1>3. Shape'
  BY <1>2 DEF Shape
<1>4. len \in Int /\ gen \in Int
  BY DEF Tree, VecOK
<1>5. \A k \in 1..h : FrameOK(stack[k], nodes, len, space, acl, gen)
  BY DEF Tree, Frames
<1>6. \A k \in 1..h - 1 : Apart(stack[k], Top)
  BY <1>1 DEF Tree, Frames
<1>7. \A j, k \in 1..h - 1 : j < k => Apart(stack[j], stack[k])
  BY <1>1 DEF Tree, Frames
<1> HIDE DEF h
<1>8. ASSUME NEW k \in 1..h - 1 PROVE FrameOK(stack[k], nodes', len, space', acl, gen)
  <2>1. /\ stack[k] \in FrameType /\ FrameOK(stack[k], nodes, len, space, acl, gen)
        /\ stack[k].pc \in {"right", "finish"} /\ ~Pending(stack[k], g.idx)
    <3>1. g.idx \in Nat
      BY DEF FrameType
    <3> QED
      BY <3>1, <1>1, <1>5, <1>6 DEF Apart
  <2>2. /\ stack[k].at \in 0..gen /\ stack[k].idx \in DOMAIN space
        /\ stack[k] = [stack[k] EXCEPT !.at = stack[k].at]
    BY <2>1 DEF FrameOK, FrameType
  <2>3. \A m \in DOMAIN space' : m \in DOMAIN space \/ ~Pending(stack[k], m)
    BY <2>1
  <2> QED
    BY <2>1, <2>2, <2>3, <1>4, FrameKept
<1>9. ASSUME NEW k \in 1..h - 1 PROVE Apart(stack[k], f) /\ Apart(stack[k], g)
  <2>1. /\ Apart(stack[k], Top) /\ stack[k] \in FrameType
        /\ FrameOK(stack[k], nodes, len, space, acl, gen)
    BY <1>1, <1>5, <1>6
  <2>2. stack[k].idx # g.idx
    BY <2>1, <1>1, <1>5 DEF FrameOK
  <2> QED
    BY <2>1, <2>2 DEF Apart
<1>10. Apart(f, g)
  <2>1. f.idx # g.idx
    BY <1>1, <1>5 DEF FrameOK
  <2> QED
    BY <2>1 DEF Apart
<1>11. \A j, k \in 1..h + 1 : j < k => Apart(stack'[j], stack'[k])
  <2> SUFFICES ASSUME NEW j \in 1..h + 1, NEW k \in 1..h + 1, j < k
               PROVE  Apart(stack'[j], stack'[k])
    OBVIOUS
  <2>1. CASE k = h + 1 /\ j = h
    BY <2>1, <1>2, <1>10
  <2>2. CASE k \in {h, h + 1} /\ j \in 1..h - 1
    BY <2>2, <1>2, <1>9
  <2>3. CASE k \in 1..h - 1
    <3>1. j \in 1..h - 1
      BY <2>3, <1>1
    <3> QED
      BY <2>3, <3>1, <1>2, <1>7
  <2>4. (k = h + 1 /\ j = h) \/ (k \in {h, h + 1} /\ j \in 1..h - 1) \/ k \in 1..h - 1
    <3>1. h \in Int /\ j \in Int /\ k \in Int /\ 1 <= j /\ j < k /\ k <= h + 1
      BY <1>1
    <3>2. k = h + 1 \/ k = h \/ k \in 1..h - 1
      BY <3>1
    <3>3. j = h \/ j \in 1..h - 1
      BY <3>1
    <3>4. j = h => k = h + 1
      BY <3>1
    <3> QED
      BY <3>2, <3>3, <3>4
  <2> QED
    BY <2>1, <2>2, <2>3, <2>4
<1>12. \A k \in 1..h + 1 : FrameOK(stack'[k], nodes', len', space', acl', gen')
  <2> SUFFICES ASSUME NEW k \in 1..h + 1 PROVE FrameOK(stack'[k], nodes', len, space', acl, gen)
    OBVIOUS
  <2>1. CASE k \in 1..h - 1
    BY <2>1, <1>2, <1>8
  <2>2. CASE k \in {h, h + 1}
    BY <2>2, <1>2
  <2>3. k \in 1..h - 1 \/ k \in {h, h + 1}
    BY <1>1
  <2> QED
    BY <2>1, <2>2, <2>3
<1>13. Frames'
  <2>1. PointersFresh'
    BY <1>2 DEF PointersFresh, Top
  <2> QED
    BY <2>1, <1>2, <1>11, <1>12 DEF Frames
<1>14. Finished'
  <2>1. \A m \in Active(stack) : m \in Active(stack')
    <3> SUFFICES ASSUME NEW k \in 1..h PROVE stack[k].idx \in {stack'[j].idx : j \in 1..h + 1}
      BY <1>2 DEF Active, h
    <3>1. stack'[k].idx = stack[k].idx
      <4>1. k = h \/ k \in 1..h - 1
        BY <1>1
      <4> QED
        BY <4>1, <1>1, <1>2
    <3>2. k \in 1..h + 1
      BY <1>1
    <3> QED
      BY <3>1, <3>2
  <2>2. g.idx \in Active(stack')
    <3>1. h + 1 \in 1..Len(stack')
      BY <1>1, <1>2
    <3> QED
      BY <3>1, <1>2 DEF Active
  <2> QED
    BY <2>1, <2>2, DoneKept DEF Finished, Tree
<1> QED
  BY <1>3, <1>13, <1>14 DEF Tree

(* It returns, having finished its node.                                   *)
LEMMA PopTree ==
  ASSUME Shape, Tree, pc = "building", UNCHANGED <<acl, len, gen, space>>, Return, VecOK',
         \A n \in DOMAIN space : n # Top.idx => nodes'[n] = nodes[n],
         DoneOK(Top.idx, nodes'[Top.idx], space, acl)
  PROVE  Tree' /\ Shape' /\ pc' \in {"building", "built"}
<1> DEFINE h == Len(stack)
<1>1. /\ h \in Nat \ {0} /\ Top = stack[h] /\ Top \in FrameType
      /\ \A k \in 1..h : stack[k] \in FrameType
  BY TopIs
<1>2. /\ len \in Int /\ gen \in Int
      /\ \A k \in 1..h : FrameOK(stack[k], nodes, len, space, acl, gen)
      /\ \A j, k \in 1..h : j < k => Apart(stack[j], stack[k])
      /\ \A n \in DOMAIN space : n \in Active(stack) \/ DoneOK(n, nodes[n], space, acl)
  BY DEF Tree, Frames, VecOK, Finished
<1>3. SpaceOK'
  BY DEF SpaceOK, Tree
<1>4. ASSUME \A n \in Active(stack) : n \in Active(stack') \/ n = Top.idx
      PROVE  Finished'
  BY <1>2, <1>4 DEF Finished
<1>5. CASE h = 1
  <2>1. stack' = <<>> /\ pc' = "built"
    BY <1>5 DEF Return
  <2>2. Len(stack') = 0 /\ stack' \in Seq(FrameType)
    BY <2>1
  <2>3. Frames'
    BY <2>1, <2>2 DEF Frames, PointersFresh
  <2>4. Finished'
    BY <1>1, <1>4, <1>5 DEF Active
  <2> QED
    BY <1>3, <2>1, <2>2, <2>3, <2>4 DEF Tree, Shape
<1>6. CASE h # 1
  <2>1. h > 1 /\ UNCHANGED pc
    <3>1. \A x \in Nat \ {0} : x # 1 => x > 1
      OBVIOUS
    <3>2. h > 1
      <4> HIDE DEF h
      <4> QED
        BY <3>1, <1>1, <1>6
    <3>3. Len(stack) # 1
      BY <1>6
    <3>4. UNCHANGED pc
      BY <3>3 DEF Return
    <3> QED
      BY <3>2, <3>4
  <2>2. stack' = [k \in 1..h - 1 |-> IF k = h - 1 THEN Fetch(stack[k]) ELSE stack[k]]
    BY <1>6 DEF Return
  <2>3. /\ stack' \in Seq(FrameType) /\ stack' # <<>> /\ Len(stack') = h - 1
        /\ stack'[h - 1].at = gen'
        /\ \A k \in 1..h - 1 : stack'[k] = [stack[k] EXCEPT !.at = stack'[k].at]
    <3>1. gen' \in Int
      BY <1>2
    <3> QED
      BY <3>1, <2>1, <2>2, PopIs DEF Shape
  <2> HIDE DEF h
  <2>4. \A k \in 1..h - 1 : stack'[k] \in FrameType /\ stack[k] \in FrameType /\ k \in 1..h /\ k < h
    BY <1>1, <2>3
  <2>5. ASSUME NEW k \in 1..h - 1 PROVE FrameOK(stack'[k], nodes', len', space', acl', gen')
    <3>1. /\ FrameOK(stack[k], nodes, len, space, acl, gen) /\ Apart(stack[k], Top)
      BY <1>1, <1>2, <2>4
    <3>2. stack'[k].at \in 0..gen
      <4>1. CASE k = h - 1
        BY <4>1, <2>3, <3>1, <1>2 DEF FrameOK
      <4>2. CASE k # h - 1
        BY <4>2, <2>2, <3>1 DEF FrameOK
      <4> QED
        BY <4>1, <4>2
    <3>3. /\ stack[k].idx # Top.idx /\ stack[k].pc \in {"right", "finish"}
          /\ stack[k].idx \in DOMAIN space
      BY <3>1 DEF Apart, FrameOK
    <3>4. nodes'[stack[k].idx] = nodes[stack[k].idx]
      BY <3>3
    <3>5. \A m \in DOMAIN space : m \in DOMAIN space /\ space[m] = space[m]
      OBVIOUS
    <3>6. \A m \in DOMAIN space : m \in DOMAIN space \/ ~Pending(stack[k], m)
      OBVIOUS
    <3>7. stack'[k] \in FrameType /\ stack'[k] = [stack[k] EXCEPT !.at = stack'[k].at]
      BY <2>3, <2>4
    <3>8. stack[k] \in FrameType
      BY <2>4
    <3> DEFINE f2 == stack'[k]
               nds2 == nodes'
    <3> HIDE DEF f2, nds2
    <3>9. FrameOK(f2, nds2, len, space, acl, gen)
      BY <1>2, <3>1, <3>2, <3>3, <3>4, <3>5, <3>6, <3>7, <3>8, FrameKept DEF f2, nds2
    <3> QED
      BY <3>9 DEF f2, nds2
  <2>6. \A j, k \in 1..h - 1 : j < k => Apart(stack'[j], stack'[k])
    BY <1>2, <2>3, <2>4, ApartKept
  <2>7. Frames'
    <3>1. PointersFresh'
      BY <2>3 DEF PointersFresh, Top
    <3> QED
      BY <2>3, <2>5, <2>6, <3>1 DEF Frames
  <2>8. Finished'
    <3>1. ASSUME NEW k \in 1..h - 1 PROVE stack[k].idx \in {stack'[m].idx : m \in 1..h - 1}
      <4>1. stack'[k].idx = stack[k].idx
        BY <2>3, <2>4 DEF FrameType
      <4> QED
        BY <4>1
    <3>2. ASSUME NEW n \in Active(stack) PROVE n \in Active(stack') \/ n = Top.idx
      <4>1. PICK k \in 1..h : n = stack[k].idx
        BY DEF Active, h
      <4> QED
        BY <4>1, <3>1, <1>1, <2>3 DEF Active
    <3> QED
      BY <1>4, <3>2
  <2> QED
    BY <1>3, <2>1, <2>3, <2>7, <2>8 DEF Tree, Shape
<1> QED
  BY <1>5, <1>6

-----------------------------------------------------------------------------
(* The steps of the recursion.                                             *)

LEMMA TreeAnswers ==
  ASSUME NoLowest, Tree PROVE NodesAnswerAlike
<1> SUFFICES ASSUME NEW n \in DOMAIN space, nodes[n].rules # NoRules
             PROVE  Alike(nodes[n].rules, space[n], acl)
  <2>1. NodesAnswerAlike <=>
          \A n \in DOMAIN space :
            nodes # <<>> /\ nodes[n].rules \notin {Wild, Stray, NoRules} =>
              \A key \in space[n] :
                LinearSearch(nodes[n].rules, key) = LinearSearch(RootRules(acl), key)
    BY DEF NodesAnswerAlike
  <2> QED
    BY <2>1 DEF Alike
<1>1. CASE n \in Active(stack)
  <2>1. PICK k \in 1..Len(stack) : n = stack[k].idx
    BY <1>1 DEF Active
  <2> QED
    BY <2>1 DEF Tree, Frames, FrameOK
<1>2. CASE DoneOK(n, nodes[n], space, acl)
  BY <1>2 DEF DoneOK
<1> QED
  BY <1>1, <1>2 DEF Tree, Finished

(* Only a set with a range from high to low has a list with nothing in it. *)
LEMMA TreeLists ==
  ASSUME Tree, acl \in Acls PROVE ListsNotEmpty \/ pc = "overread"
<1> SUFFICES ASSUME NEW n \in DOMAIN space, nodes[n].rules = Stray PROVE ~ProperAcl(acl)
  BY Inverted DEF ListsNotEmpty
<1>1. CASE n \in Active(stack)
  <2>1. PICK k \in 1..Len(stack) : n = stack[k].idx
    BY <1>1 DEF Active
  <2>2. ListOf(nodes[n].rules, acl)
    BY <2>1 DEF Tree, Frames, FrameOK
  <2> QED
    BY <2>2, StrayIs DEF ListOf
<1>2. CASE DoneOK(n, nodes[n], space, acl)
  BY <1>2 DEF DoneOK
<1> QED
  BY <1>1, <1>2 DEF Tree, Finished

LEMMA TopFrame ==
  ASSUME Shape, Tree, pc = "building"
  PROVE  /\ Top \in FrameType /\ FrameOK(Top, nodes, len, space, acl, gen)
         /\ Top.pc # "child2" => Top.at = gen
         /\ Top.idx \in DOMAIN space /\ Top.idx \in DOMAIN nodes /\ Top.idx \in 0..len - 1
         /\ len \in Nat /\ gen \in Nat /\ len >= 1
<1>1. Len(stack) \in Nat \ {0} /\ Top = stack[Len(stack)] /\ Top \in FrameType
  BY TopIs
<1>2. FrameOK(Top, nodes, len, space, acl, gen)
  BY <1>1 DEF Tree, Frames
<1>3. Top.pc # "child2" => Top.at = gen
  BY DEF Tree, Frames, PointersFresh, Shape
<1>4. /\ len \in Nat /\ gen \in Nat /\ len >= 1
      /\ cap \in Nat /\ len <= cap /\ DOMAIN nodes = 0..cap - 1
  BY DEF Tree, VecOK
<1>5. Top.idx \in DOMAIN space /\ Top.idx \in 0..len - 1
  BY <1>2 DEF FrameOK, Tree, SpaceOK
<1> QED
  BY <1>1, <1>2, <1>3, <1>4, <1>5

LEMMA VecSet ==
  ASSUME VecOK, NEW n \in DOMAIN nodes, NEW x, IsNode(x), nodes' = [nodes EXCEPT ![n] = x],
         UNCHANGED <<len, gen>>
  PROVE  VecOK' /\ nodes'[n] = x /\ \A m \in DOMAIN nodes : m # n => nodes'[m] = nodes[m]
<1>1. DOMAIN nodes' = DOMAIN nodes /\ cap' = cap
  BY DEF cap
<1>2. \A m \in DOMAIN nodes : nodes'[m] = IF m = n THEN x ELSE nodes[m]
  OBVIOUS
<1>3. nodes' = [m \in 0..cap' - 1 |-> nodes'[m]]
  BY <1>1 DEF VecOK
<1>4. \A m \in 0..cap - 1 : IsNode(nodes'[m])
  BY <1>2 DEF VecOK
<1> QED
  BY <1>1, <1>2, <1>3, <1>4 DEF VecOK

LEMMA LeafStep ==
  ASSUME Shape, Tree, pc = "building", UNCHANGED acl, Leaf
  PROVE  Tree' /\ Shape' /\ pc' \in {"building", "built"}
<1> DEFINE x == MarkLeaf(Here)
<1>1. /\ FrameOK(Top, nodes, len, space, acl, gen) /\ Top.idx \in DOMAIN nodes
  BY TopFrame
<1>2. IsNode(Here) /\ VecOK
  BY <1>1 DEF Tree, VecOK, Here
<1>3. IsNode(x) /\ x.child = LEAF /\ x.rules = Here.rules
  BY <1>2 DEF MarkLeaf, IsNode
<1>4. nodes' = [nodes EXCEPT ![Top.idx] = x] /\ UNCHANGED <<len, gen, space>> /\ Return
  BY DEF Leaf, Here
<1> HIDE DEF x
<1>5. VecOK' /\ nodes'[Top.idx] = x /\ \A m \in DOMAIN nodes : m # Top.idx => nodes'[m] = nodes[m]
  BY <1>1, <1>2, <1>3, <1>4, VecSet
<1>6. \A m \in DOMAIN space : m \in DOMAIN nodes
  BY DEF Tree, SpaceOK, VecOK
<1>7. DoneOK(Top.idx, nodes'[Top.idx], space, acl)
  <2>1. ListOf(Here.rules, acl) /\ Alike(Here.rules, space[Top.idx], acl)
    BY <1>1 DEF FrameOK, Here
  <2>2. Here.rules = Stray => ~ProperAcl(acl)
    BY <2>1, StrayIs DEF ListOf
  <2> QED
    BY <1>3, <1>5, <2>1, <2>2 DEF DoneOK
<1> QED
  BY <1>4, <1>5, <1>6, <1>7, PopTree

LEMMA SplitStep ==
  ASSUME Shape, Tree, pc = "building", UNCHANGED acl, Split
  PROVE  Tree' /\ Shape'
<1>1. /\ Top \in FrameType /\ FrameOK(Top, nodes, len, space, acl, gen)
      /\ Top.pc = "enter" /\ Top.at = gen /\ Top.idx \in DOMAIN nodes
      /\ len \in Nat /\ gen \in Nat
  BY TopFrame DEF Split
<1>2. PICK d \in SplitDims(Here.rules) :
        LET t == Threshold(Here.rules, d)
        IN  /\ nodes' = [nodes EXCEPT ![Top.idx].d2s = d, ![Top.idx].thresh = t,
                                      ![Top.idx].depth = Depth % 256]
            /\ stack' = SetTop([Top EXCEPT !.pc = "child1", !.d2s = d, !.thresh = t,
                                           !.low = Min(Lows(Here.rules, d)),
                                           !.high = Max(Ends(Here.rules, d))])
  BY DEF Split
<1> DEFINE t == Threshold(Here.rules, d)
           lo == Min(Lows(Here.rules, d))
           hi == Max(Ends(Here.rules, d))
           f == [Top EXCEPT !.pc = "child1", !.d2s = d, !.thresh = t, !.low = lo, !.high = hi]
           x == [Here EXCEPT !.d2s = d, !.thresh = t, !.depth = Depth % 256]
<1>3. IsNode(Here) /\ VecOK /\ IsList(Here.rules) /\ Here.rules # Stray
  BY <1>1 DEF Tree, VecOK, Here, FrameOK, ListOf, Split
<1>4. d \in Splittable(Here.rules)
  BY DEF SplitDims
<1>5. /\ d \in Dims /\ Ends(Here.rules, d) \in SUBSET (0..MaxVal)
      /\ t \in Ends(Here.rules, d) /\ hi \in Ends(Here.rules, d) /\ lo \in 0..MaxVal
  BY <1>3, <1>4, ThresholdIs
<1>6. d \in Nat /\ t \in Nat /\ lo \in Nat /\ hi \in Nat
  BY <1>5, DimsAssumption
<1>7. nodes' = [nodes EXCEPT ![Top.idx] = x] /\ stack' = SetTop(f)
      /\ UNCHANGED <<pc, len, gen, space>>
  <2>1. [nodes EXCEPT ![Top.idx].d2s = d, ![Top.idx].thresh = t,
                      ![Top.idx].depth = Depth % 256]
          = [nodes EXCEPT ![Top.idx] = x]
    BY <1>1 DEF Here
  <2> QED
    BY <1>2, <2>1 DEF Split
<1> HIDE DEF t, lo, hi
<1>8. IsNode(x) /\ x.d2s = d /\ x.thresh = t /\ x.rules = Here.rules
  BY <1>3 DEF IsNode
<1>9. /\ f \in FrameType /\ f.idx = Top.idx /\ f.at = gen /\ f.pc = "child1" /\ f.d2s = d
      /\ f.thresh = t /\ f.low = lo /\ f.high = hi
  BY <1>1, <1>6 DEF FrameType
<1> HIDE DEF x, f
<1>10. VecOK' /\ nodes'[Top.idx] = x /\ \A m \in DOMAIN nodes : m # Top.idx => nodes'[m] = nodes[m]
  BY <1>1, <1>3, <1>7, <1>8, VecSet
<1>11. \A m \in DOMAIN space : m \in DOMAIN nodes
  BY DEF Tree, SpaceOK, VecOK
<1>12. FrameOK(f, nodes', len', space, acl, gen')
  <2>1. Chosen(f, x)
    BY <1>3, <1>4, <1>8, <1>9 DEF Chosen, t, lo, hi
  <2>2. f.at \in 0..gen' /\ f.idx \in DOMAIN space
    BY <1>1, <1>7, <1>9 DEF FrameOK
  <2>3. Children(f, len', space) /\ \A m : ~Pending(f, m)
    BY <1>9 DEF Children, Pending
  <2>4. ListOf(x.rules, acl) /\ Alike(x.rules, space[f.idx], acl)
    BY <1>1, <1>8, <1>9 DEF FrameOK, Here
  <2> QED
    BY <2>1, <2>2, <2>3, <2>4, <1>9, <1>10 DEF FrameOK
<1>13. \A m : ~Pending(f, m)
  BY <1>9 DEF Pending
<1>14. \A m \in DOMAIN space : m # Top.idx => nodes'[m] = nodes[m]
  BY <1>10, <1>11
<1>15. len' >= len /\ gen' >= gen /\ f.at = gen' /\ UNCHANGED <<pc, acl, space>>
  BY <1>1, <1>7, <1>9
<1>16. \A m \in Nat : Pending(f, m) => Pending(Top, m) \/ m >= len
  BY <1>13
<1> QED
  BY <1>7, <1>9, <1>10, <1>12, <1>14, <1>15, <1>16, SetTopTree

LEMMA VecGetIs ==
  ASSUME VecOK, VecGet
  PROVE  /\ VecOK' /\ len' = len + 1 /\ gen' >= gen /\ gen' \in Nat /\ len \in Nat /\ gen \in Nat
         /\ \A n \in 0..len - 1 : nodes'[n] = nodes[n]
<1>1. /\ cap \in Nat \ {0} /\ DOMAIN nodes = 0..cap - 1 /\ \A n \in 0..cap - 1 : IsNode(nodes[n])
      /\ len \in 1..cap /\ gen \in Nat /\ len' = len + 1
      /\ nodes = [n \in 0..cap - 1 |-> nodes[n]]
  BY DEF VecOK, VecGet
<1>2. CASE len < cap /\ UNCHANGED <<nodes, gen>>
  <2>1. cap' = cap
    BY <1>2 DEF cap
  <2> QED
    BY <1>1, <1>2, <2>1 DEF VecOK
<1>3. CASE /\ len = cap /\ gen' = gen + 1
           /\ nodes' = [n \in 0..2 * cap - 1 |-> IF n < cap THEN nodes[n] ELSE Unset]
  <2> DEFINE c == cap
  <2>1. c \in Nat \ {0} /\ 2 * c - 1 \in Int /\ 2 * c - 1 >= 0
    BY <1>1
  <2>2. DOMAIN nodes' = 0..2 * c - 1
    BY <1>3
  <2>3. \A n \in 0..2 * c - 1 : nodes'[n] = IF n < c THEN nodes[n] ELSE Unset
    BY <1>3
  <2>4. cap' = Cardinality(0..2 * c - 1)
    BY <2>2 DEF cap
  <2> HIDE DEF c
  <2>5. cap' = 2 * c
    BY <2>1, <2>4, FS_Interval
  <2>6. IsNode(Unset)
    BY DEF IsNode, Unset, Zeroed
  <2>7. \A n \in 0..2 * c - 1 : IsNode(nodes'[n])
    <3> SUFFICES ASSUME NEW n \in 0..2 * c - 1 PROVE IsNode(nodes'[n])
      OBVIOUS
    <3>1. CASE n < c
      <4>1. n \in 0..c - 1
        BY <3>1, <2>1
      <4> QED
        BY <3>1, <4>1, <1>1, <2>3 DEF c
    <3>2. CASE ~(n < c)
      BY <3>2, <2>3, <2>6
    <3> QED
      BY <3>1, <3>2
  <2>8. nodes' = [n \in 0..2 * c - 1 |-> nodes'[n]]
    BY <1>3 DEF c
  <2>9. len' \in 1..2 * c /\ gen' \in Nat
    BY <1>1, <1>3, <2>1 DEF c
  <2>10. VecOK'
    BY <2>1, <2>2, <2>5, <2>7, <2>8, <2>9 DEF VecOK
  <2>11. \A n \in 0..len - 1 : nodes'[n] = nodes[n]
    BY <1>1, <1>3, <2>3 DEF c
  <2> QED
    BY <1>1, <1>3, <2>10, <2>11
<1> QED
  BY <1>2, <1>3 DEF VecGet

LEMMA FirstChildStep ==
  ASSUME Shape, Tree, pc = "building", UNCHANGED acl, FirstChild
  PROVE  Tree' /\ Shape'
<1>1. /\ Top \in FrameType /\ FrameOK(Top, nodes, len, space, acl, gen) /\ Top.pc = "child1"
      /\ Top.idx \in 0..len - 1 /\ len \in Nat /\ gen \in Nat /\ len >= 1
  BY TopFrame DEF FirstChild
<1>2. /\ VecOK' /\ len' = len + 1 /\ gen' >= gen /\ gen' \in Nat
      /\ \A n \in 0..len - 1 : nodes'[n] = nodes[n]
  BY VecGetIs DEF FirstChild, Tree
<1> DEFINE f == [Top EXCEPT !.pc = "child2", !.child = len]
<1>3. /\ f \in FrameType /\ f.idx = Top.idx /\ f.at = Top.at /\ f.pc = "child2" /\ f.child = len
      /\ f.d2s = Top.d2s /\ f.thresh = Top.thresh /\ f.low = Top.low /\ f.high = Top.high
  BY <1>1 DEF FrameType
<1>4. stack' = SetTop(f) /\ UNCHANGED <<pc, acl, space>>
  BY DEF FirstChild
<1> HIDE DEF f
<1>5. \A m \in DOMAIN space : m \in 0..len - 1
  BY DEF Tree, SpaceOK
<1>6. FrameOK(f, nodes', len', space, acl, gen')
  <2>1. Chosen(f, nodes'[f.idx]) /\ nodes'[f.idx] = nodes[Top.idx]
    BY <1>1, <1>2, <1>3 DEF FrameOK, Chosen
  <2>2. f.at \in 0..gen' /\ f.idx \in DOMAIN space
    BY <1>1, <1>2, <1>3 DEF FrameOK
  <2>3. Children(f, len', space) /\ \A m \in DOMAIN space : ~Pending(f, m)
    BY <1>1, <1>2, <1>3, <1>5 DEF Children, Pending
  <2> QED
    BY <1>1, <1>3, <2>1, <2>2, <2>3 DEF FrameOK
<1>7. \A m \in DOMAIN space : m # Top.idx => nodes'[m] = nodes[m]
  BY <1>2, <1>5
<1>8. \A m \in Nat : Pending(f, m) => Pending(Top, m) \/ m >= len
  BY <1>1, <1>3 DEF Pending
<1> QED
  BY <1>1, <1>2, <1>3, <1>4, <1>6, <1>7, <1>8, SetTopTree

LEMMA SecondChildStep ==
  ASSUME Shape, Tree, pc = "building", UNCHANGED acl, SecondChild
  PROVE  Tree' /\ Shape'
<1>1. /\ Top \in FrameType /\ FrameOK(Top, nodes, len, space, acl, gen) /\ Top.pc = "child2"
      /\ Top.idx \in 0..len - 1 /\ len \in Nat /\ gen \in Nat /\ len >= 1
  BY TopFrame DEF SecondChild
<1>2. /\ VecOK' /\ len' = len + 1 /\ gen' >= gen /\ gen' \in Nat
      /\ \A n \in 0..len - 1 : nodes'[n] = nodes[n]
  BY VecGetIs DEF SecondChild, Tree
<1> DEFINE e == [Top EXCEPT !.pc = "left"]
           f == [e EXCEPT !.at = gen']
<1>3. /\ f \in FrameType /\ f.idx = Top.idx /\ f.at = gen' /\ f.pc = "left" /\ f.child = Top.child
      /\ f.d2s = Top.d2s /\ f.thresh = Top.thresh /\ f.low = Top.low /\ f.high = Top.high
  <2>1. /\ e \in FrameType /\ e.idx = Top.idx /\ e.pc = "left" /\ e.child = Top.child
        /\ e.d2s = Top.d2s /\ e.thresh = Top.thresh /\ e.low = Top.low /\ e.high = Top.high
    BY <1>1 DEF FrameType
  <2> HIDE DEF e
  <2> QED
    BY <1>2, <2>1 DEF FrameType
<1>4. stack' = SetTop(f) /\ UNCHANGED <<pc, acl, space>>
  BY DEF SecondChild, Fetch
<1> HIDE DEF e, f
<1>5. \A m \in DOMAIN space : m \in 0..len - 1
  BY DEF Tree, SpaceOK
<1>6. Top.child # 0 /\ Top.child = len - 1 /\ \A m \in DOMAIN space : m # Top.child
  BY <1>1 DEF FrameOK, Children, Pending
<1>7. FrameOK(f, nodes', len', space, acl, gen')
  <2>1. Chosen(f, nodes'[f.idx]) /\ nodes'[f.idx] = nodes[Top.idx]
    BY <1>1, <1>2, <1>3 DEF FrameOK, Chosen
  <2>2. f.at \in 0..gen' /\ f.idx \in DOMAIN space
    BY <1>1, <1>2, <1>3 DEF FrameOK
  <2>3. Children(f, len', space)
    BY <1>1, <1>2, <1>3, <1>6 DEF Children
  <2>4. \A m \in DOMAIN space : ~Pending(f, m)
    BY <1>1, <1>3, <1>5, <1>6 DEF Pending
  <2> QED
    BY <1>1, <1>3, <2>1, <2>2, <2>3, <2>4 DEF FrameOK
<1>8. \A m \in DOMAIN space : m # Top.idx => nodes'[m] = nodes[m]
  BY <1>2, <1>5
<1>9. \A m \in Nat : Pending(f, m) => Pending(Top, m) \/ m >= len
  BY <1>1, <1>3, <1>6 DEF Pending
<1> QED
  BY <1>1, <1>2, <1>3, <1>4, <1>7, <1>8, <1>9, SetTopTree

(* A child is made and its activation entered: the left one answers for the*)
(* keys up to the split point, the right one for the others.               *)
LEMMA ChildTree ==
  ASSUME Shape, Tree, pc = "building", acl \in Acls, UNCHANGED acl,
         NEW n, Pending(Top, n), NEW lo \in Value, NEW hi \in Value, lo <= hi,
         NEW keys \in SUBSET space[Top.idx], NEW next \in {"right", "finish"},
         \A key \in keys : \A k \in Hits(Here.rules, key) :
           lo <= key[Top.d2s] /\ key[Top.d2s] <= hi,
         BuildChild(n, lo, hi, keys, next),
         Children([Top EXCEPT !.pc = next], len, space'),
         \A m \in Nat : Pending([Top EXCEPT !.pc = next], m) => Pending(Top, m) /\ m # n,
         Top.pc \in {"left", "right"},
         DOMAIN Trimmed(Here.rules, Top.d2s, lo, hi) = {} => ~ProperAcl(acl)
  PROVE  Tree' /\ Shape'
<1> DEFINE l == Trimmed(Here.rules, Top.d2s, lo, hi)
           pri == [k \in DOMAIN l |-> PriOf(k)]
           q == RemoveRedund(l, pri)
           r == IF DOMAIN l = {} THEN Stray ELSE q
           x == [nodes[n] EXCEPT !.rules = r]
           f == [Top EXCEPT !.pc = next]
           g == Frame(n, gen)
<1>1. /\ Top \in FrameType /\ FrameOK(Top, nodes, len, space, acl, gen)
      /\ Top.at = gen /\ Top.idx \in 0..len - 1 /\ len \in Nat /\ gen \in Nat
  BY TopFrame
<1>2. /\ nodes' = [nodes EXCEPT ![n] = x] /\ stack' = Append(SetTop(f), g)
      /\ space' = [m \in DOMAIN space \union {n} |-> IF m = n THEN keys ELSE space[m]]
      /\ UNCHANGED <<pc, len, gen>>
  BY DEF BuildChild, Reduced
<1>3. n \in 0..len - 1 /\ n \notin DOMAIN space /\ n # 0
  <2>1. n \in 0..len - 1
    BY <1>1, PendingIs
  <2>2. n \notin DOMAIN space
    BY <1>1 DEF FrameOK
  <2> QED
    BY <2>1, <2>2 DEF Tree, SpaceOK
<1>4. /\ VecOK /\ n \in DOMAIN nodes /\ IsNode(nodes[n])
  BY <1>3 DEF Tree, VecOK
<1>5. /\ ListOf(Here.rules, acl) /\ Alike(Here.rules, space[Top.idx], acl)
      /\ Chosen(Top, Here) /\ IsList(Here.rules) /\ Top.d2s \in Dims
      /\ DOMAIN Here.rules \subseteq DOMAIN acl
  BY <1>1 DEF FrameOK, Here, ListOf, Chosen, Splittable
<1>6. /\ IsList(l) /\ DOMAIN l \subseteq DOMAIN acl
  BY <1>5, TrimmedIs
<1>7. NoLowest => \A k \in DOMAIN l : pri[k] # UINT32_MAX
  BY <1>6 DEF PriOf, NoLowest
<1>8. ListOf(r, acl)
  <2>1. IsList(q) /\ DOMAIN q \subseteq DOMAIN l
    BY <1>6, RedundIs
  <2>2. Proper(Here.rules) => Proper(q)
    BY <1>5, ChildProper
  <2>3. ProperAcl(acl) => Proper(Here.rules)
    BY <1>5, StrayIs DEF ListOf
  <2>4. DOMAIN l = {} => ~ProperAcl(acl)
    OBVIOUS
  <2> HIDE DEF q, l
  <2> QED
    BY <1>6, <2>1, <2>2, <2>3, <2>4 DEF ListOf
<1>9. Alike(r, keys, acl)
  <2> SUFFICES ASSUME NoLowest, DOMAIN l # {}, NEW key \in keys
               PROVE  LinearSearch(q, key) = LinearSearch(RootRules(acl), key)
    BY DEF Alike
  <2>1. key \in space[Top.idx] /\ key \in Key
    BY <1>1, KeysAssumption DEF Tree, SpaceOK, FrameOK
  <2>2. LinearSearch(q, key) = LinearSearch(Here.rules, key)
    <3>1. \A k \in Hits(Here.rules, key) : lo <= key[Top.d2s] /\ key[Top.d2s] <= hi
      OBVIOUS
    <3> DEFINE a == Here.rules
               d == Top.d2s
    <3>2. IsList(a) /\ d \in Dims /\ \A k \in Hits(a, key) : lo <= key[d] /\ key[d] <= hi
      BY <3>1, <1>5
    <3>3. \A k \in DOMAIN Trimmed(a, d, lo, hi) : pri[k] # UINT32_MAX
      BY <1>7
    <3> HIDE DEF a, d, pri
    <3>4. LinearSearch(RemoveRedund(Trimmed(a, d, lo, hi), pri), key) = LinearSearch(a, key)
      BY <2>1, <3>2, <3>3, ChildAnswersAlike
    <3> QED
      BY <3>4 DEF a, d
  <2>3. Here.rules # Stray
    BY <1>5, StrayIs
  <2>4. LinearSearch(Here.rules, key) = LinearSearch(RootRules(acl), key)
    BY <2>3, <1>5 DEF Alike
  <2> HIDE DEF q
  <2> QED
    BY <2>2, <2>4
<1> HIDE DEF l, pri, q, r
<1>10. IsNode(x) /\ x.rules = r
  BY <1>4 DEF IsNode
<1> HIDE DEF x
<1>11. VecOK' /\ nodes'[n] = x /\ \A m \in DOMAIN nodes : m # n => nodes'[m] = nodes[m]
  BY <1>2, <1>4, <1>10, VecSet
<1>12. /\ \A m : m \in DOMAIN space' <=> m \in DOMAIN space \/ m = n
       /\ \A m \in DOMAIN space : space'[m] = space[m]
       /\ space'[n] = keys
  BY <1>2, <1>3
<1>13. \A m \in DOMAIN space : m # n /\ m \in DOMAIN nodes /\ nodes'[m] = nodes[m]
  BY <1>3, <1>11 DEF Tree, SpaceOK, VecOK
<1>14. SpaceOK'
  <2>1. space' = [m \in DOMAIN space' |-> space'[m]]
    BY <1>2
  <2>2. \A m \in DOMAIN space' : space'[m] \subseteq Keys
    <3>1. keys \subseteq Keys
      BY <1>1 DEF Tree, SpaceOK, FrameOK
    <3> QED
      BY <3>1, <1>12 DEF Tree, SpaceOK
  <2>3. DOMAIN space' \subseteq 0..len' - 1 /\ 0 \in DOMAIN space' /\ space'[0] = Keys
    BY <1>2, <1>3, <1>12 DEF Tree, SpaceOK
  <2> QED
    BY <2>1, <2>2, <2>3 DEF SpaceOK
<1>15. /\ f \in FrameType /\ f.idx = Top.idx /\ f.at = gen /\ f.pc = next /\ f.child = Top.child
       /\ f.d2s = Top.d2s /\ f.thresh = Top.thresh /\ f.low = Top.low /\ f.high = Top.high
  BY <1>1 DEF FrameType
<1>16. g \in FrameType /\ g.idx = n /\ g.at = gen /\ g.pc = "enter"
  BY <1>1, <1>3 DEF FrameType, Frame
<1>17. \A m \in Nat : Pending(f, m) => Pending(Top, m) /\ m # n
  OBVIOUS
<1>18. Children(f, len, space')
  OBVIOUS
<1> HIDE DEF f, g
<1>19. FrameOK(f, nodes', len, space', acl, gen)
  <2>1. nodes'[f.idx] = Here /\ space'[f.idx] = space[Top.idx] /\ f.idx \in DOMAIN space'
    BY <1>1, <1>12, <1>13, <1>15 DEF FrameOK, Here
  <2>2. Chosen(f, Here)
    BY <1>5, <1>15 DEF Chosen
  <2>3. \A m \in DOMAIN space' : m \in Nat
    BY <1>14 DEF SpaceOK
  <2>4. \A m \in DOMAIN space' : ~Pending(f, m)
    BY <1>1, <1>12, <1>17, <2>3 DEF FrameOK
  <2>5. f.at \in 0..gen
    BY <1>1, <1>15
  <2> QED
    BY <1>5, <1>18, <2>1, <2>2, <2>4, <2>5 DEF FrameOK
<1>20. FrameOK(g, nodes', len, space', acl, gen)
  <2>1. nodes'[g.idx].rules = r /\ space'[g.idx] = keys /\ g.idx \in DOMAIN space'
    BY <1>10, <1>11, <1>12, <1>16
  <2>2. g.at \in 0..gen /\ Children(g, len, space') /\ \A m : ~Pending(g, m)
    BY <1>1, <1>16 DEF Children, Pending
  <2> QED
    BY <1>8, <1>9, <1>16, <2>1, <2>2 DEF FrameOK
<1>21. \A m \in Nat : ~Pending(g, m)
  BY <1>16 DEF Pending
<1>22. ~Pending(f, g.idx) /\ Pending(Top, g.idx)
  BY <1>3, <1>16, <1>17
<1>23. \A m \in DOMAIN space : nodes'[m] = nodes[m] /\ m \in DOMAIN space' /\ space'[m] = space[m]
  BY <1>12, <1>13
<1>24. \A m \in DOMAIN space' : m \in DOMAIN space \/ m = g.idx
  BY <1>12, <1>16
<1> QED
  BY <1>2, <1>11, <1>14, <1>15, <1>16, <1>17, <1>19, <1>20, <1>21, <1>22, <1>23, <1>24, PushTree

LEMMA SplitIs ==
  ASSUME Shape, Tree, pc = "building", Top.pc # "enter"
  PROVE  /\ Top.d2s \in Splittable(Here.rules) /\ Top.thresh = Threshold(Here.rules, Top.d2s)
         /\ Top.low = Min(Lows(Here.rules, Top.d2s)) /\ Top.high = Max(Ends(Here.rules, Top.d2s))
         /\ Here.d2s = Top.d2s /\ Here.thresh = Top.thresh
         /\ ListOf(Here.rules, acl) /\ IsList(Here.rules) /\ Top.d2s \in Dims
         /\ Top.low \in Value /\ Top.thresh \in Value /\ Top.thresh + 1 \in Value
         /\ Top.high \in Value /\ Top.low <= Top.thresh /\ Top.thresh + 1 <= Top.high
<1>1. FrameOK(Top, nodes, len, space, acl, gen)
  BY TopFrame
<1>2. ListOf(Here.rules, acl) /\ Chosen(Top, Here)
  BY <1>1 DEF FrameOK, Here
<1> DEFINE l == Here.rules
           d == Top.d2s
<1>3. IsList(l) /\ d \in Splittable(l)
  BY <1>2 DEF ListOf, Chosen
<1>4. /\ d \in Dims /\ Ends(l, d) \in SUBSET (0..MaxVal)
      /\ Threshold(l, d) \in Ends(l, d) /\ Max(Ends(l, d)) \in Ends(l, d)
      /\ Min(Lows(l, d)) \in 0..MaxVal /\ Min(Lows(l, d)) <= Threshold(l, d)
      /\ Threshold(l, d) < Max(Ends(l, d))
  BY <1>3, ThresholdIs
<1>5. /\ Top.thresh = Threshold(l, d) /\ Top.low = Min(Lows(l, d)) /\ Top.high = Max(Ends(l, d))
      /\ Here.d2s = d /\ Here.thresh = Top.thresh
  BY <1>2 DEF Chosen
<1>6. /\ Top.low \in 0..MaxVal /\ Top.thresh \in 0..MaxVal /\ Top.high \in 0..MaxVal
      /\ Top.low <= Top.thresh /\ Top.thresh < Top.high
  BY <1>4, <1>5
<1>7. /\ Top.low \in Value /\ Top.thresh \in Value /\ Top.thresh + 1 \in Value
      /\ Top.high \in Value /\ Top.low <= Top.thresh /\ Top.thresh + 1 <= Top.high
  <2> DEFINE t == Top.thresh
             u == Top.high
  <2>1. t \in 0..MaxVal /\ u \in 0..MaxVal /\ t < u
    BY <1>6
  <2> HIDE DEF t, u
  <2>2. t + 1 \in 0..MaxVal /\ t + 1 <= u
    BY <2>1, MaxValAssumption
  <2> QED
    BY <2>2, <1>6 DEF Value, t, u
<1> QED
  BY <1>2, <1>3, <1>4, <1>5, <1>7
(* A key of a node's part of the space matches none of its rules outside   *)
(* the span of their ends.                                                 *)
LEMMA KeysInside ==
  ASSUME Shape, Tree, pc = "building", Top.pc # "enter", NEW key \in space[Top.idx],
         NEW k \in Hits(Here.rules, key)
  PROVE  key[Top.d2s] \in Int /\ Top.low <= key[Top.d2s] /\ key[Top.d2s] <= Top.high
<1>1. key \in Key
  BY TopFrame, KeysAssumption DEF Tree, SpaceOK
<1> DEFINE l == Here.rules
           d == Top.d2s
<1>2. /\ IsList(l) /\ d \in Dims
      /\ Top.low = Min(Lows(l, d)) /\ Top.high = Max(Ends(l, d))
  BY SplitIs
<1>3. Min(Lows(l, d)) <= key[d] /\ key[d] <= Max(Ends(l, d))
  <2> HIDE DEF d
  <2> QED
    BY <1>1, <1>2, HitsInside
<1> QED
  BY <1>1, <1>2, <1>3 DEF Key, Value

(* A half of the space no rule reaches into comes of a range from high to  *)
(* low.                                                                    *)
LEMMA EmptyHalf ==
  ASSUME Shape, Tree, pc = "building", Top.pc # "enter",
         \/ DOMAIN Trimmed(Here.rules, Top.d2s, Top.low, Top.thresh) = {}
         \/ DOMAIN Trimmed(Here.rules, Top.d2s, Top.thresh + 1, Top.high) = {}
  PROVE  ~ProperAcl(acl)
<1>1. /\ Top.d2s \in Splittable(Here.rules) /\ Top.thresh = Threshold(Here.rules, Top.d2s)
      /\ Top.low = Min(Lows(Here.rules, Top.d2s)) /\ Top.high = Max(Ends(Here.rules, Top.d2s))
      /\ ListOf(Here.rules, acl) /\ IsList(Here.rules)
  BY SplitIs
<1>2. ~Proper(Here.rules)
  <2> DEFINE l == Here.rules
             d == Top.d2s
  <2>1. /\ IsList(l) /\ d \in Splittable(l)
        /\ \/ DOMAIN Trimmed(l, d, Min(Lows(l, d)), Threshold(l, d)) = {}
           \/ DOMAIN Trimmed(l, d, Threshold(l, d) + 1, Max(Ends(l, d))) = {}
    BY <1>1
  <2> HIDE DEF l, d
  <2>2. ~Proper(l)
    BY <2>1, HalvesNotEmpty
  <2> QED
    BY <2>2 DEF l
<1> QED
  BY <1>1, <1>2, StrayIs DEF ListOf

LEMMA LeftStep ==
  ASSUME Shape, Tree, pc = "building", UNCHANGED acl, Left
  PROVE  Tree' /\ Shape'
<1> DEFINE keys == {key \in space[Top.idx] : ~ToRight(Here, key)}
           n == Top.child
           f == [Top EXCEPT !.pc = "right"]
<1>1. /\ Top \in FrameType /\ FrameOK(Top, nodes, len, space, acl, gen) /\ Top.pc = "left"
      /\ Top.idx \in DOMAIN space
  BY TopFrame DEF Left
<1>2. BuildChild(n, Top.low, Top.thresh, keys, "right")
  BY DEF Left
<1>3. keys = LeftHalf(space[Top.idx], Top.d2s, Top.thresh) /\ keys \in SUBSET space[Top.idx]
  BY <1>1, SplitIs DEF ToRight, LeftHalf
<1>4. ASSUME NEW key \in keys, NEW k \in Hits(Here.rules, key)
      PROVE  Top.low <= key[Top.d2s] /\ key[Top.d2s] <= Top.thresh
  <2>1. key[Top.d2s] \in Int /\ Top.low <= key[Top.d2s]
    BY <1>1, <1>4, KeysInside
  <2>2. ~(key[Top.d2s] > Top.thresh)
    BY <1>3 DEF LeftHalf
  <2>3. Top.thresh \in Int
    BY <1>1 DEF FrameType
  <2> QED
    BY <2>1, <2>2, <2>3
<1>5. /\ f.pc = "right" /\ f.child = n /\ f.idx = Top.idx /\ f.d2s = Top.d2s /\ n \in Nat
      /\ f.thresh = Top.thresh /\ n # 0 /\ n + 1 < len /\ n \notin DOMAIN space /\ Pending(Top, n)
  BY <1>1 DEF FrameType, FrameOK, Children, Pending
<1>6. /\ n \in DOMAIN space' /\ space'[n] = keys /\ space'[Top.idx] = space[Top.idx]
  <2> HIDE DEF n, keys
  <2>1. space' = [m \in DOMAIN space \union {n} |-> IF m = n THEN keys ELSE space[m]]
    BY <1>2 DEF BuildChild
  <2> QED
    BY <2>1, <1>1, <1>5
<1>7. Children(f, len, space')
  BY <1>3, <1>5, <1>6 DEF Children
<1>8. \A m \in Nat : Pending(f, m) => Pending(Top, m) /\ m # n
  BY <1>1, <1>5 DEF Pending
<1>9. Top.low \in Value /\ Top.thresh \in Value /\ Top.low <= Top.thresh
  BY <1>1, SplitIs
<1>10. acl \in Acls
  BY DEF Shape
<1>11. Top.pc \in {"left", "right"} /\ Pending(Top, n)
  BY <1>1, <1>5
<1>12. DOMAIN Trimmed(Here.rules, Top.d2s, Top.low, Top.thresh) = {} => ~ProperAcl(acl)
  BY <1>1, EmptyHalf
<1> HIDE DEF n, keys
<1> QED
  BY <1>2, <1>3, <1>4, <1>7, <1>8, <1>9, <1>10, <1>11, <1>12, ChildTree

LEMMA RightStep ==
  ASSUME Shape, Tree, pc = "building", UNCHANGED acl, Right
  PROVE  Tree' /\ Shape'
<1> DEFINE keys == {key \in space[Top.idx] : ToRight(Here, key)}
           n == Top.child + 1
           f == [Top EXCEPT !.pc = "finish"]
<1>1. /\ Top \in FrameType /\ FrameOK(Top, nodes, len, space, acl, gen) /\ Top.pc = "right"
      /\ Top.idx \in DOMAIN space
  BY TopFrame DEF Right
<1>2. BuildChild(n, Top.thresh + 1, Top.high, keys, "finish")
  BY DEF Right
<1>3. keys = RightHalf(space[Top.idx], Top.d2s, Top.thresh) /\ keys \in SUBSET space[Top.idx]
  BY <1>1, SplitIs DEF ToRight, RightHalf
<1>4. ASSUME NEW key \in keys, NEW k \in Hits(Here.rules, key)
      PROVE  Top.thresh + 1 <= key[Top.d2s] /\ key[Top.d2s] <= Top.high
  <2>1. key[Top.d2s] \in Int /\ key[Top.d2s] <= Top.high
    BY <1>1, <1>4, KeysInside
  <2>2. key[Top.d2s] > Top.thresh
    BY <1>3 DEF RightHalf
  <2>3. Top.thresh \in Int
    BY <1>1 DEF FrameType
  <2> QED
    BY <2>1, <2>2, <2>3
<1>5. /\ f.pc = "finish" /\ f.child = Top.child /\ f.idx = Top.idx /\ f.d2s = Top.d2s
      /\ Top.child \in Nat /\ f.thresh = Top.thresh /\ Top.child # 0 /\ n < len /\ n # Top.child
      /\ Top.child \in DOMAIN space /\ n \notin DOMAIN space /\ Pending(Top, n)
      /\ space[Top.child] = LeftHalf(space[Top.idx], Top.d2s, Top.thresh)
  BY <1>1 DEF FrameType, FrameOK, Children, Pending
<1>6. /\ n \in DOMAIN space' /\ space'[n] = keys
      /\ \A m \in DOMAIN space : m \in DOMAIN space' /\ space'[m] = space[m]
  <2> HIDE DEF n, keys
  <2>1. space' = [m \in DOMAIN space \union {n} |-> IF m = n THEN keys ELSE space[m]]
    BY <1>2 DEF BuildChild
  <2> QED
    BY <2>1, <1>1, <1>5
<1>7. Children(f, len, space')
  <2>1. space'[Top.idx] = space[Top.idx] /\ space'[Top.child] = space[Top.child]
    BY <1>1, <1>5, <1>6
  <2> QED
    BY <2>1, <1>3, <1>5, <1>6 DEF Children
<1>8. \A m \in Nat : Pending(f, m) => Pending(Top, m) /\ m # n
  BY <1>5 DEF Pending
<1>9. Top.thresh + 1 \in Value /\ Top.high \in Value /\ Top.thresh + 1 <= Top.high
  BY <1>1, SplitIs
<1>10. acl \in Acls
  BY DEF Shape
<1>11. Top.pc \in {"left", "right"} /\ Pending(Top, n)
  BY <1>1, <1>5
<1>12. DOMAIN Trimmed(Here.rules, Top.d2s, Top.thresh + 1, Top.high) = {} => ~ProperAcl(acl)
  BY <1>1, EmptyHalf
<1> HIDE DEF n, keys
<1> QED
  BY <1>2, <1>3, <1>4, <1>7, <1>8, <1>9, <1>10, <1>11, <1>12, ChildTree

LEMMA FinishStep ==
  ASSUME Shape, Tree, pc = "building", UNCHANGED acl, Finish
  PROVE  Tree' /\ Shape' /\ pc' \in {"building", "built"}
<1> DEFINE x == [Here EXCEPT !.child = Top.child,
                             !.rules = IF DropsRules(Top.idx) THEN NoRules ELSE @]
<1>1. /\ Top \in FrameType /\ FrameOK(Top, nodes, len, space, acl, gen) /\ Top.pc = "finish"
      /\ Top.idx \in DOMAIN space /\ Top.idx \in DOMAIN nodes
  BY TopFrame DEF Finish
<1>2. IsNode(Here) /\ VecOK
  BY <1>1 DEF Tree, VecOK, Here
<1>3. /\ IsNode(x) /\ x.child = Top.child /\ x.d2s = Here.d2s /\ x.thresh = Here.thresh
      /\ x.rules = NoRules \/ x.rules = Here.rules
  BY <1>2 DEF IsNode
<1>4. nodes' = [nodes EXCEPT ![Top.idx] = x] /\ UNCHANGED <<len, gen, space>> /\ Return
  <2>1. nodes' = [nodes EXCEPT ![Top.idx].child = Top.child,
                               ![Top.idx].rules = IF DropsRules(Top.idx) THEN NoRules ELSE @]
    BY DEF Finish
  <2>2. nodes' = [nodes EXCEPT ![Top.idx] = x]
    BY <1>1, <2>1 DEF Here
  <2> QED
    BY <2>2 DEF Finish
<1> HIDE DEF x
<1>5. VecOK' /\ nodes'[Top.idx] = x /\ \A m \in DOMAIN nodes : m # Top.idx => nodes'[m] = nodes[m]
  BY <1>1, <1>2, <1>3, <1>4, VecSet
<1>6. \A m \in DOMAIN space : m \in DOMAIN nodes
  BY DEF Tree, SpaceOK, VecOK
<1>7. DoneOK(Top.idx, x, space, acl)
  <2>1. Here.d2s = Top.d2s /\ Here.thresh = Top.thresh
    BY <1>1, SplitIs
  <2>2. /\ Top.child \in Nat /\ Top.child \in DOMAIN space /\ Top.child + 1 \in DOMAIN space
        /\ space[Top.child] = LeftHalf(space[Top.idx], Top.d2s, Top.thresh)
        /\ space[Top.child + 1] = RightHalf(space[Top.idx], Top.d2s, Top.thresh)
        /\ Alike(Here.rules, space[Top.idx], acl) /\ Here.rules # Stray
    BY <1>1 DEF FrameOK, Children, FrameType, Here, Chosen
  <2> QED
    BY <1>3, <2>1, <2>2, StrayIs DEF DoneOK
<1> QED
  BY <1>4, <1>5, <1>6, <1>7, PopTree

-----------------------------------------------------------------------------
(* Giving up.                                                              *)

LEMMA NoNodeStep ==
  ASSUME Shape, Tree, pc = "building", UNCHANGED acl, NoNode
  PROVE  Wreck' /\ Shape'
<1>1. /\ nodes' = <<>> /\ gen' = -1 /\ pc' = "failed" /\ stack' = <<>>
      /\ UNCHANGED <<len, space>>
  BY NodesEmpty DEF NoNode
<1>2. len \in Nat /\ \A n \in DOMAIN space : n < len /\ space[n] \subseteq Keys
  BY TopFrame DEF Tree, SpaceOK
<1>3. NodesAnswerAlike' /\ ListsNotEmpty'
  BY <1>1 DEF NodesAnswerAlike, ListsNotEmpty
<1> QED
  BY <1>1, <1>2, <1>3 DEF Wreck, Shape

(* The space of a tree under construction is that of nodes handed out.     *)
LEMMA TreeBounds ==
  ASSUME Tree
  PROVE  /\ len \in Nat /\ gen \in Nat /\ len <= cap /\ cap \in Nat
         /\ \A n \in DOMAIN space : n \in 0..len - 1 /\ n < len /\ space[n] \subseteq Keys
  BY DEF Tree, VecOK, SpaceOK

LEMMA WreckOf ==
  ASSUME Tree, acl \in Acls, pc \in {"building", "built"}, pc' = "overread", ~ProperAcl(acl),
         UNCHANGED <<acl, nodes, len, gen, space>>
  PROVE  Wreck'
<1>1. ListsNotEmpty'
  BY Inverted DEF ListsNotEmpty
<1>2. (NoLowest => NodesAnswerAlike)'
  BY TreeAnswers DEF NodesAnswerAlike
<1>3. cap' = cap
  BY DEF cap
<1> QED
  BY <1>1, <1>2, <1>3, TreeBounds DEF Wreck

LEMMA OverreadStep ==
  ASSUME Shape, Tree, pc = "building", UNCHANGED acl, Overread
  PROVE  Wreck' /\ Shape'
<1>1. /\ Here.rules = Stray /\ pc' = "overread" /\ stack' = <<>>
      /\ UNCHANGED <<nodes, len, gen, space>>
  BY DEF Overread
<1>2. ListOf(Here.rules, acl)
  BY TopFrame DEF FrameOK, Here
<1>3. ~ProperAcl(acl) /\ acl \in Acls
  BY <1>1, <1>2, StrayIs DEF ListOf, Shape
<1> QED
  BY <1>1, <1>3, WreckOf DEF Shape

LEMMA NoRuleListStep ==
  ASSUME Shape, Tree, pc = "building", UNCHANGED acl, NoRuleList
  PROVE  Wreck' /\ Shape'
<1> DEFINE n == IF Top.pc = "left" THEN Top.child ELSE Top.child + 1
<1>1. /\ Top.pc \in {"left", "right"} /\ pc' = "failed" /\ stack' = <<>>
      /\ nodes' = [nodes EXCEPT ![n].rules = NoRules]
      /\ UNCHANGED <<len, gen, space>>
  BY DEF NoRuleList
<1>2. Pending(Top, n) /\ FrameOK(Top, nodes, len, space, acl, gen)
  BY <1>1, TopFrame DEF Pending
<1>3. n \notin DOMAIN space
  BY <1>2 DEF FrameOK
<1> HIDE DEF n
<1>4. DOMAIN nodes' = DOMAIN nodes /\ \A m \in DOMAIN nodes : m # n => nodes'[m] = nodes[m]
  BY <1>1
<1>5. \A m \in DOMAIN space : nodes'[m] = nodes[m]
  BY <1>3, <1>4 DEF Tree, SpaceOK, VecOK
<1>6. nodes # <<>>
  <2>1. cap \in Nat \ {0} /\ DOMAIN nodes = 0..cap - 1
    BY DEF Tree, VecOK
  <2>2. 0 \in DOMAIN nodes
    BY <2>1
  <2> QED
    BY <2>2
<1>7. (NoLowest => NodesAnswerAlike)'
  BY <1>1, <1>5, <1>6, TreeAnswers DEF NodesAnswerAlike
<1>8. cap' = cap /\ ListsNotEmpty'
  <2>1. ListsNotEmpty
    BY TreeLists DEF Shape
  <2> QED
    BY <1>1, <1>4, <1>5, <2>1 DEF cap, ListsNotEmpty
<1>9. Wreck'
  BY <1>1, <1>7, <1>8, TreeBounds DEF Wreck
<1> QED
  BY <1>1, <1>9 DEF Shape

LEMMA BuildingStep ==
  ASSUME IInv, Building
  PROVE  IInv'
<1>1. Shape /\ Tree /\ pc = "building" /\ UNCHANGED <<acl, walk>> /\ walk = NoWalk
  BY DEF IInv, Building, WalkOK
<1>2. WalkOK'
  BY <1>1 DEF WalkOK, NoWalk
<1>3. CASE Leaf
  BY <1>1, <1>2, <1>3, LeafStep DEF IInv
<1>4. CASE Split
  <2>1. pc' = "building"
    BY <1>1, <1>4 DEF Split
  <2> QED
    BY <1>1, <1>2, <1>4, <2>1, SplitStep DEF IInv
<1>5. CASE FirstChild
  <2>1. pc' = "building"
    BY <1>1, <1>5 DEF FirstChild
  <2> QED
    BY <1>1, <1>2, <1>5, <2>1, FirstChildStep DEF IInv
<1>6. CASE SecondChild
  <2>1. pc' = "building"
    BY <1>1, <1>6 DEF SecondChild
  <2> QED
    BY <1>1, <1>2, <1>6, <2>1, SecondChildStep DEF IInv
<1>7. CASE NoNode
  <2>1. pc' = "failed"
    BY <1>7 DEF NoNode
  <2> QED
    BY <1>1, <1>2, <1>7, <2>1, NoNodeStep DEF IInv
<1>8. CASE Left
  <2>1. pc' = "building"
    BY <1>1, <1>8 DEF Left, BuildChild
  <2> QED
    BY <1>1, <1>2, <1>8, <2>1, LeftStep DEF IInv
<1>9. CASE Right
  <2>1. pc' = "building"
    BY <1>1, <1>9 DEF Right, BuildChild
  <2> QED
    BY <1>1, <1>2, <1>9, <2>1, RightStep DEF IInv
<1>10. CASE Overread
  <2>1. pc' = "overread"
    BY <1>10 DEF Overread
  <2> QED
    BY <1>1, <1>2, <1>10, <2>1, OverreadStep DEF IInv
<1>11. CASE NoRuleList
  <2>1. pc' = "failed"
    BY <1>11 DEF NoRuleList
  <2> QED
    BY <1>1, <1>2, <1>11, <2>1, NoRuleListStep DEF IInv
<1>12. CASE Finish
  BY <1>1, <1>2, <1>12, FinishStep DEF IInv
<1> QED
  BY <1>3, <1>4, <1>5, <1>6, <1>7, <1>8, <1>9, <1>10, <1>11, <1>12 DEF Building

-----------------------------------------------------------------------------
(* Making a tree, freeing it and looking up.                               *)

LEMMA PrepBuildStep ==
  ASSUME IInv, pc = "empty", NEW a \in Acls, NEW b, NEW own, PrepBuild(a, b, own)
  PROVE  IInv'
<1> DEFINE f == Frame(0, 0)
<1>1. /\ pc' = "building" /\ acl' = a /\ len' = 1 /\ gen' = 0 /\ stack' = <<f>>
      /\ space' = [n \in {0} |-> Keys] /\ UNCHANGED walk
      /\ nodes' = [n \in 0..VEC_SIZE - 1 |->
                     IF n = 0 THEN [FreshNode EXCEPT !.rules = RootRules(a)] ELSE FreshNode]
  BY DEF PrepBuild
<1>2. f \in FrameType /\ f.idx = 0 /\ f.at = 0 /\ f.pc = "enter"
  BY DEF Frame, FrameType
<1> HIDE DEF f
<1>3. VecOK' /\ nodes'[0].rules = RootRules(a)
  <2>1. VEC_SIZE \in Nat \ {0} /\ DOMAIN nodes' = 0..VEC_SIZE - 1
    BY <1>1, VecAssumption
  <2>2. cap' = Cardinality(0..VEC_SIZE - 1)
    BY <2>1 DEF cap
  <2>3. cap' = VEC_SIZE
    BY <2>1, <2>2, FS_Interval
  <2>4. /\ IsNode(FreshNode) /\ IsNode([FreshNode EXCEPT !.rules = RootRules(a)])
        /\ [FreshNode EXCEPT !.rules = RootRules(a)].rules = RootRules(a)
    BY DEF IsNode, FreshNode, Zeroed
  <2>5. \A n \in 0..VEC_SIZE - 1 : IsNode(nodes'[n])
    BY <1>1, <2>4
  <2>6. nodes' = [n \in 0..VEC_SIZE - 1 |-> nodes'[n]]
    BY <1>1
  <2>7. len' \in 1..VEC_SIZE /\ gen' \in Nat
    BY <1>1, <2>1
  <2>8. nodes'[0].rules = RootRules(a)
    BY <1>1, <2>1, <2>4
  <2> QED
    BY <2>1, <2>3, <2>5, <2>6, <2>7, <2>8 DEF VecOK
<1>4. SpaceOK'
  BY <1>1 DEF SpaceOK
<1>5. FrameOK(f, nodes', len', space', acl', gen')
  <2>1. ListOf(RootRules(a), a) /\ Alike(RootRules(a), Keys, a)
    BY RootList DEF Alike
  <2>2. Children(f, len', space') /\ \A m : ~Pending(f, m)
    BY <1>2 DEF Children, Pending
  <2> QED
    BY <1>1, <1>2, <1>3, <2>1, <2>2 DEF FrameOK
<1>6. Len(stack') = 1 /\ stack'[1] = f /\ stack' \in Seq(FrameType) /\ stack' # <<>>
  BY <1>1, <1>2
<1>7. Frames'
  <2>1. PointersFresh'
    BY <1>1, <1>2, <1>6 DEF PointersFresh, Top
  <2> QED
    BY <1>5, <1>6, <2>1 DEF Frames
<1>8. Finished'
  BY <1>1, <1>2, <1>6 DEF Finished, Active
<1>9. Shape'
  BY <1>1, <1>6 DEF Shape
<1>10. WalkOK'
  BY <1>1 DEF IInv, WalkOK, NoWalk
<1> QED
  BY <1>1, <1>3, <1>4, <1>7, <1>8, <1>9, <1>10 DEF IInv, Tree

LEMMA TreeFreeStep ==
  ASSUME IInv, pc \in {"built", "failed"}, TreeFree
  PROVE  IInv'
<1>1. stack = <<>>
  BY DEF IInv, Shape
<1>2. /\ pc' = "empty" /\ len' = 0 /\ gen' = -1 /\ space' = [n \in {} |-> {}] /\ stack' = <<>>
      /\ walk' = NoWalk
  BY <1>1 DEF TreeFree
<1> QED
  BY <1>2 DEF IInv, Shape, WalkOK

(* A step that only moves a lookup.                                        *)
LEMMA TreeSame ==
  ASSUME Tree, UNCHANGED <<acl, stack, nodes, len, gen, space>>
  PROVE  Tree'
<1>1. VecOK' /\ SpaceOK'
  BY DEF Tree, VecOK, SpaceOK, cap
<1>2. Frames' /\ Finished'
  BY DEF Tree, Frames, Finished, PointersFresh, Top, Active
<1> QED
  BY <1>1, <1>2 DEF Tree

LEMMA WreckSame ==
  ASSUME Wreck, UNCHANGED <<acl, nodes, len, gen, space>>,
         pc' = "overread" => pc = "overread"
  PROVE  Wreck'
  BY DEF Wreck, cap, NodesAnswerAlike, ListsNotEmpty

LEMMA LookupStep ==
  ASSUME IInv, Lookup
  PROVE  IInv'
<1>1. UNCHANGED <<acl, stack, nodes, len, gen, space>>
  BY DEF Lookup, mem
<1>2. walk # NoWalk /\ ~(walk.ret >= 0)
  BY DEF Lookup, LookupDown, LookupReturn, LookupOverreads, Answered
<1>3. /\ pc = "built" /\ Tree /\ stack = <<>>
      /\ walk = [key |-> walk.key, at |-> walk.at, ret |-> walk.ret]
      /\ walk.at \in DOMAIN space /\ walk.key \in space[walk.at]
  BY <1>2 DEF IInv, WalkOK, Shape
<1> DEFINE nd == nodes[walk.at]
           key == walk.key
<1>4. DoneOK(walk.at, nd, space, acl)
  BY <1>3 DEF Tree, Finished, Active
<1>5. ASSUME LookupDown \/ LookupReturn, UNCHANGED pc PROVE WalkOK'
  <2>1. CASE LookupDown
    <3>1. nd.child # LEAF
      BY <2>1 DEF LookupDown
    <3>2. /\ nd.child \in Nat /\ nd.child \in DOMAIN space /\ nd.child + 1 \in DOMAIN space
          /\ space[nd.child] = LeftHalf(space[walk.at], nd.d2s, nd.thresh)
          /\ space[nd.child + 1] = RightHalf(space[walk.at], nd.d2s, nd.thresh)
      BY <1>4, <3>1 DEF DoneOK
    <3>3. walk' = [walk EXCEPT !.at = nd.child + IF ToRight(nd, key) THEN 1 ELSE 0]
      BY <2>1 DEF LookupDown
    <3>4. CASE ToRight(nd, key)
      <4>1. walk'.at = nd.child + 1 /\ walk'.key = key /\ walk'.ret = walk.ret
            /\ walk' = [key |-> walk'.key, at |-> walk'.at, ret |-> walk'.ret]
        BY <1>3, <3>3, <3>4
      <4>2. key \in space[nd.child + 1]
        BY <1>3, <3>2, <3>4 DEF ToRight, RightHalf
      <4> QED
        BY <1>1, <1>2, <1>3, <1>5, <3>2, <4>1, <4>2 DEF WalkOK
    <3>5. CASE ~ToRight(nd, key)
      <4>1. walk'.at = nd.child /\ walk'.key = key /\ walk'.ret = walk.ret
            /\ walk' = [key |-> walk'.key, at |-> walk'.at, ret |-> walk'.ret]
        BY <1>3, <3>2, <3>3, <3>5
      <4>2. key \in space[nd.child]
        BY <1>3, <3>2, <3>5 DEF ToRight, LeftHalf
      <4> QED
        BY <1>1, <1>2, <1>3, <1>5, <3>2, <4>1, <4>2 DEF WalkOK
    <3> QED
      BY <3>4, <3>5
  <2>2. CASE LookupReturn
    <3>1. nd.child = LEAF /\ walk' = [walk EXCEPT !.ret = LinearSearch(nd.rules, key)]
      BY <2>2 DEF LookupReturn
    <3>2. Alike(nd.rules, space[walk.at], acl)
      BY <1>4, <3>1 DEF DoneOK, LEAF
    <3>3. NoLowest => LinearSearch(nd.rules, key) = LinearSearch(RootRules(acl), key)
      BY <1>3, <2>2, <3>2 DEF Alike, LookupReturn
    <3>4. walk'.at = walk.at /\ walk'.key = key /\ walk'.ret = LinearSearch(nd.rules, key)
          /\ walk' = [key |-> walk'.key, at |-> walk'.at, ret |-> walk'.ret]
      BY <1>3, <3>1
    <3> QED
      BY <1>1, <1>3, <1>5, <3>3, <3>4 DEF WalkOK
  <2> QED
    BY <1>5, <2>1, <2>2
<1>6. Tree'
  BY <1>1, <1>3, TreeSame
<1>7. CASE (LookupDown \/ LookupReturn) /\ UNCHANGED pc
  <2>1. Shape'
    BY <1>1, <1>7 DEF IInv, Shape
  <2> QED
    BY <1>3, <1>5, <1>6, <1>7, <2>1 DEF IInv
<1>8. CASE LookupOverreads
  <2>1. nd.rules = Stray /\ nd.child = LEAF /\ pc' = "overread" /\ walk' = NoWalk
    BY <1>8 DEF LookupOverreads
  <2>2. ~ProperAcl(acl)
    BY <1>4, <2>1 DEF DoneOK
  <2>3. acl \in Acls
    BY <1>3 DEF IInv, Shape
  <2>4. Wreck'
    BY <1>1, <1>3, <2>1, <2>2, <2>3, WreckOf
  <2>5. Shape' /\ WalkOK'
    BY <1>1, <1>3, <2>1 DEF IInv, Shape, WalkOK
  <2> QED
    BY <2>1, <2>4, <2>5 DEF IInv
<1> QED
  BY <1>7, <1>8 DEF Lookup

LEMMA LookupStartStep ==
  ASSUME IInv, NEW key \in Keys, LookupStart(key),
         UNCHANGED <<pc, acl, stack, nodes, len, gen, space>>
  PROVE  IInv'
<1>1. pc = "built" /\ Tree /\ walk' = [key |-> key, at |-> 0, ret |-> -1]
  BY DEF LookupStart, IInv
<1>2. 0 \in DOMAIN space /\ space[0] = Keys
  BY <1>1 DEF Tree, SpaceOK
<1>3. WalkOK'
  BY <1>1, <1>2 DEF WalkOK
<1>4. Shape'
  BY DEF IInv, Shape
<1> QED
  BY <1>1, <1>3, <1>4, TreeSame DEF IInv

LEMMA StillSame ==
  ASSUME IInv, UNCHANGED <<pc, acl, stack, nodes, len, gen, space, walk>>
  PROVE  IInv'
<1>1. Shape' /\ WalkOK'
  BY DEF IInv, Shape, WalkOK
<1> QED
  BY <1>1, TreeSame, WreckSame DEF IInv

LEMMA InitInv == Init => IInv
  BY DEF Init, IInv, Shape, WalkOK

LEMMA StepInv == IInv /\ [Next]_vars => IInv'
<1> SUFFICES ASSUME IInv, [Next]_vars PROVE IInv'
  OBVIOUS
<1>1. ASSUME pc = "empty", NEW a \in Acls, NEW b, NEW own, PrepBuild(a, b, own) PROVE IInv'
  BY <1>1, PrepBuildStep
<1>2. ASSUME pc = "empty", NEW own, PrepBuildFails(own) PROVE IInv'
  BY <1>2, StillSame DEF PrepBuildFails, mem
<1>3. CASE FreeAll
  BY <1>3, TreeFreeStep DEF FreeAll
<1>4. ASSUME NEW key \in Keys, LookupStart(key),
             UNCHANGED <<pc, acl, bucket, stack, info, space>>, UNCHANGED mem
      PROVE  IInv'
  BY <1>4, LookupStartStep DEF mem
<1>5. CASE Building
  BY <1>5, BuildingStep
<1>6. CASE CleanUp
  BY <1>6, TreeFreeStep DEF CleanUp
<1>7. CASE CleanUpCrashes
  <2>1. pc = "failed" /\ pc' = "crashed" /\ UNCHANGED <<acl, stack, nodes, len, gen, space, walk>>
    BY <1>7 DEF CleanUpCrashes, mem
  <2>2. Shape' /\ WalkOK'
    BY <2>1 DEF IInv, Shape, WalkOK
  <2> QED
    BY <2>1, <2>2, WreckSame DEF IInv
<1>8. CASE Lookup
  BY <1>8, LookupStep
<1>9. CASE UNCHANGED vars
  BY <1>9, StillSame DEF vars
<1> QED
  BY <1>1, <1>2, <1>3, <1>4, <1>5, <1>6, <1>7, <1>8, <1>9 DEF Next, Running

(* The inductive invariant holds in every state, whatever allocations fail.*)
THEOREM TreeInvariant == Spec => []IInv
  BY InitInv, StepInv, PTL DEF Spec

-----------------------------------------------------------------------------
LEMMA InvLookup == NoLowest /\ IInv => LookupAgrees
<1> SUFFICES ASSUME NoLowest, IInv, walk.ret >= 0
             PROVE  walk.ret = LinearSearch(RootRules(acl), walk.key)
  BY DEF LookupAgrees
<1>1. walk # NoWalk
  BY DEF NoWalk
<1> QED
  BY <1>1 DEF IInv, WalkOK

LEMMA InvAnswers == NoLowest /\ IInv => NodesAnswerAlike
<1> SUFFICES ASSUME NoLowest, IInv PROVE NodesAnswerAlike
  OBVIOUS
<1>1. CASE pc = "empty"
  BY <1>1 DEF IInv, Shape, NodesAnswerAlike
<1>2. CASE pc # "empty"
  BY <1>2, TreeAnswers DEF IInv, Shape, Wreck
<1> QED
  BY <1>1, <1>2

LEMMA InvLists == IInv => ListsNotEmpty
<1> SUFFICES ASSUME IInv PROVE ListsNotEmpty
  OBVIOUS
<1>1. CASE pc = "empty"
  BY <1>1 DEF IInv, Shape, ListsNotEmpty
<1>2. CASE pc \in {"building", "built"}
  BY <1>2, TreeLists DEF IInv, Shape
<1>3. CASE pc \in {"failed", "crashed", "overread"}
  BY <1>3 DEF IInv, Wreck
<1> QED
  BY <1>1, <1>2, <1>3 DEF IInv, Shape

LEMMA InvPointers == IInv => PointersFresh
  BY DEF IInv, Shape, Tree, Frames, PointersFresh

LEMMA InvFrames == IInv => FramesOK
<1> SUFFICES ASSUME IInv PROVE FramesOK
  OBVIOUS
<1>1. CASE pc = "empty"
  <2>1. len = 0 /\ gen = -1 /\ stack = <<>> /\ DOMAIN space = {}
    BY <1>1 DEF IInv, Shape
  <2> QED
    BY <1>1, <2>1 DEF FramesOK, TypeOK
<1>2. CASE pc \in {"failed", "crashed", "overread"}
  <2>1. Wreck /\ stack = <<>>
    BY <1>2 DEF IInv, Shape
  <2> QED
    BY <1>2, <2>1 DEF FramesOK, TypeOK, Wreck
<1>3. CASE pc \in {"building", "built"}
  <2>1. Tree /\ Shape
    BY <1>3 DEF IInv
  <2>2. ASSUME NEW k \in DOMAIN stack
        PROVE  /\ stack[k].idx \in 0..len - 1 /\ stack[k].at \in 0..gen
               /\ stack[k].pc # "enter" =>
                    stack[k].low <= stack[k].thresh /\ stack[k].thresh < stack[k].high
    <3>1. k \in 1..Len(stack)
      BY <2>1 DEF Shape
    <3> DEFINE f == stack[k]
               l == nodes[f.idx].rules
    <3>2. FrameOK(f, nodes, len, space, acl, gen)
      BY <2>1, <3>1 DEF Tree, Frames
    <3>3. f.idx \in 0..len - 1 /\ f.at \in 0..gen
      BY <2>1, <3>2, TreeBounds DEF FrameOK
    <3>4. ASSUME f.pc # "enter" PROVE f.low <= f.thresh /\ f.thresh < f.high
      <4>1. /\ IsList(l) /\ f.d2s \in Splittable(l) /\ f.thresh = Threshold(l, f.d2s)
            /\ f.low = Min(Lows(l, f.d2s)) /\ f.high = Max(Ends(l, f.d2s))
        BY <3>2, <3>4 DEF FrameOK, Chosen, ListOf
      <4> HIDE DEF f, l
      <4> QED
        BY <4>1, ThresholdIs
    <3> QED
      BY <3>3, <3>4
  <2>3. TypeOK
    BY <1>3, <2>1, <2>2, TreeBounds DEF TypeOK, Shape
  <2> QED
    BY <2>2, <2>3 DEF FramesOK
<1> QED
  BY <1>1, <1>2, <1>3 DEF IInv, Shape

(* A lookup answers with the rule linear_search finds in the rule set.     *)
THEOREM AlwaysAgrees == NoLowest => (Spec => []LookupAgrees)
<1> SUFFICES ASSUME NoLowest PROVE Spec => []LookupAgrees
  OBVIOUS
<1>1. IInv => LookupAgrees
  BY InvLookup
<1> QED
  BY <1>1, TreeInvariant, PTL

(* Every list of the tree answers the keys of its part of the space as the *)
(* rule set does, in a tree half built or given up as well.                *)
THEOREM AlwaysAnswerAlike == NoLowest => (Spec => []NodesAnswerAlike)
<1> SUFFICES ASSUME NoLowest PROVE Spec => []NodesAnswerAlike
  OBVIOUS
<1>1. IInv => NodesAnswerAlike
  BY InvAnswers
<1> QED
  BY <1>1, TreeInvariant, PTL

(* An activation works on a node of the vector, and its split point lies   *)
(* inside the space.                                                       *)
THEOREM AlwaysFrames == Spec => []FramesOK
  BY TreeInvariant, InvFrames, PTL

(* No child gets an empty list, unless a range goes from high to low.      *)
THEOREM AlwaysNotEmpty == Spec => []ListsNotEmpty
  BY TreeInvariant, InvLists, PTL

(* currNode is never used after the vector has moved from under it.        *)
THEOREM AlwaysFresh == Spec => []PointersFresh
  BY TreeInvariant, InvPointers, PTL

-----------------------------------------------------------------------------
(* What a step of the innermost activation does to the nodes and the stack.*)

(* The outer activations stay where they are; h is the innermost's place.  *)
Outer(s, s2, h) ==
  /\ Len(s) = h /\ Len(s2) \in Nat /\ h - 1 <= Len(s2)
  /\ \A k \in 1..h - 1 : s2[k].idx = s[k].idx /\ s2[k].pc = s[k].pc /\ s2[k].child = s[k].child

Distinct(s) == \A j, k \in 1..Len(s) : j # k => s[j].idx # s[k].idx

LEMMA TreeDistinct == Tree => Distinct(stack)
<1> SUFFICES ASSUME Tree, NEW j \in 1..Len(stack), NEW k \in 1..Len(stack), j # k
             PROVE  stack[j].idx # stack[k].idx
  BY DEF Distinct
<1>1. j < k \/ k < j
  OBVIOUS
<1> QED
  BY <1>1 DEF Tree, Frames, Apart

LEMMA NewTop ==
  ASSUME Shape, pc = "building", NEW f \in FrameType, stack' = SetTop(f), f.idx = Top.idx
  PROVE  /\ Outer(stack, stack', Len(stack)) /\ Len(stack') = Len(stack)
         /\ Len(stack) \in Nat \ {0} /\ stack'[Len(stack)] = f /\ Active(stack') = Active(stack)
<1> DEFINE h == Len(stack)
<1>1. h \in Nat \ {0} /\ Top = stack[h]
  BY TopIs
<1>2. Len(stack') = h /\ stack'[h] = f /\ \A k \in 1..h - 1 : stack'[k] = stack[k]
  BY SetTopIs DEF Shape
<1>3. Active(stack') = Active(stack)
  BY <1>1, <1>2 DEF Active
<1> QED
  BY <1>1, <1>2, <1>3 DEF Outer

LEMMA Pushed ==
  ASSUME Shape, pc = "building", NEW f \in FrameType, NEW g \in FrameType,
         stack' = Append(SetTop(f), g), f.idx = Top.idx
  PROVE  /\ Outer(stack, stack', Len(stack)) /\ Len(stack') = Len(stack) + 1
         /\ Len(stack) \in Nat \ {0} /\ stack'[Len(stack)] = f /\ stack'[Len(stack) + 1] = g
         /\ Active(stack') = Active(stack) \union {g.idx}
<1> DEFINE h == Len(stack)
<1>1. h \in Nat \ {0} /\ Top = stack[h]
  BY TopIs
<1>2. /\ Len(stack') = h + 1 /\ stack'[h] = f /\ stack'[h + 1] = g
      /\ \A k \in 1..h - 1 : stack'[k] = stack[k]
  BY PushIs DEF Shape
<1> HIDE DEF h
<1>3. \A k \in 1..h : k = h \/ k \in 1..h - 1
  BY <1>1
<1>4. \A k \in 1..h + 1 : k = h + 1 \/ k \in 1..h
  BY <1>1
<1>5. \A k \in 1..h : k \in 1..h + 1
  BY <1>1
<1>6. \A k \in 1..h : stack'[k].idx = stack[k].idx
  BY <1>1, <1>2, <1>3
<1>7. Active(stack') = Active(stack) \union {g.idx}
  <2>1. /\ Active(stack) = {stack[k].idx : k \in 1..h}
        /\ Active(stack') = {stack'[k].idx : k \in 1..h + 1}
    BY <1>2 DEF Active, h
  <2>2. h + 1 \in 1..h + 1
    BY <1>1
  <2> QED
    BY <2>1, <2>2, <1>2, <1>4, <1>5, <1>6
<1> QED
  BY <1>1, <1>2, <1>7 DEF Outer, h

LEMMA Popped ==
  ASSUME Shape, Tree, pc = "building", gen' \in Int, Return
  PROVE  /\ Outer(stack, stack', Len(stack)) /\ Len(stack') = Len(stack) - 1
         /\ Len(stack) \in Nat \ {0} /\ Active(stack') = Active(stack) \ {Top.idx}
<1> DEFINE h == Len(stack)
<1>1. /\ h \in Nat \ {0} /\ Top = stack[h] /\ \A k \in 1..h : stack[k] \in FrameType
  BY TopIs
<1>2. \A k \in 1..h - 1 : k \in 1..h /\ k # h /\ h \in 1..h
  BY <1>1
<1>3. \A k \in 1..h - 1 : stack[k].idx # Top.idx
  BY <1>1, <1>2, TreeDistinct DEF Distinct
<1>4. /\ Len(stack') = h - 1
      /\ \A k \in 1..h - 1 : /\ stack'[k].idx = stack[k].idx /\ stack'[k].pc = stack[k].pc
                             /\ stack'[k].child = stack[k].child
  <2>1. CASE h = 1
    <3>1. stack' = <<>>
      BY <2>1 DEF Return
    <3> QED
      BY <2>1, <3>1
  <2>2. CASE h # 1
    <3>1. h > 1
      <4> HIDE DEF h
      <4>1. \A x \in Nat \ {0} : x # 1 => x > 1
        OBVIOUS
      <4> QED
        BY <4>1, <2>2, <1>1
    <3>2. stack' = [k \in 1..h - 1 |-> IF k = h - 1 THEN Fetch(stack[k]) ELSE stack[k]]
      BY <2>2 DEF Return
    <3>3. /\ Len(stack') = h - 1
          /\ \A k \in 1..h - 1 : /\ stack'[k] = [stack[k] EXCEPT !.at = stack'[k].at]
                                 /\ stack[k] \in FrameType
      BY <3>1, <3>2, PopIs DEF Shape
    <3> QED
      BY <3>3 DEF FrameType
  <2> QED
    BY <2>1, <2>2
<1> HIDE DEF h
<1>5. \A k \in 1..h : k = h \/ k \in 1..h - 1
  BY <1>1
<1>6. Active(stack') = Active(stack) \ {Top.idx}
  <2>1. /\ Active(stack) = {stack[k].idx : k \in 1..h}
        /\ Active(stack') = {stack'[k].idx : k \in 1..h - 1}
    BY <1>4 DEF Active, h
  <2> QED
    BY <2>1, <1>1, <1>2, <1>3, <1>4, <1>5
<1> QED
  BY <1>1, <1>4, <1>6 DEF Outer, h

-----------------------------------------------------------------------------
(* What each step does to the nodes.                                       *)

LEMMA LeafEffect ==
  ASSUME Shape, Tree, pc = "building", Leaf
  PROVE  /\ Top.pc = "enter" /\ Return /\ UNCHANGED <<len, gen, live, space>> /\ cap' = cap
         /\ DOMAIN nodes' = DOMAIN nodes /\ nodes'[Top.idx].child = LEAF
         /\ \A m \in DOMAIN nodes : nodes'[m].rules = nodes[m].rules
         /\ \A m \in DOMAIN nodes : m # Top.idx => nodes'[m] = nodes[m]
<1> DEFINE x == MarkLeaf(Here)
<1>1. Top.idx \in DOMAIN nodes
  BY TopFrame
<1>2. IsNode(Here) /\ VecOK
  BY <1>1 DEF Tree, VecOK, Here
<1>3. IsNode(x) /\ x.child = LEAF /\ x.rules = Here.rules
  BY <1>2 DEF MarkLeaf, IsNode
<1>4. nodes' = [nodes EXCEPT ![Top.idx] = x]
  BY DEF Leaf, Here
<1> HIDE DEF x
<1>5. DOMAIN nodes' = DOMAIN nodes /\ cap' = cap
  BY <1>4 DEF cap
<1> QED
  BY <1>1, <1>3, <1>4, <1>5 DEF Leaf, Here

LEMMA SplitEffect ==
  ASSUME Shape, Tree, pc = "building", Split
  PROVE  /\ Top.pc = "enter" /\ UNCHANGED <<pc, len, gen, live, space>> /\ cap' = cap
         /\ DOMAIN nodes' = DOMAIN nodes
         /\ \A m \in DOMAIN nodes :
              nodes'[m].rules = nodes[m].rules /\ nodes'[m].child = nodes[m].child
         /\ \A m \in DOMAIN nodes : m # Top.idx => nodes'[m] = nodes[m]
         /\ \E f \in FrameType : stack' = SetTop(f) /\ f.idx = Top.idx /\ f.pc = "child1"
<1>1. /\ Top \in FrameType /\ FrameOK(Top, nodes, len, space, acl, gen)
      /\ Top.pc = "enter" /\ Top.idx \in DOMAIN nodes
  BY TopFrame DEF Split
<1>2. PICK d \in SplitDims(Here.rules) :
        LET t == Threshold(Here.rules, d)
        IN  /\ nodes' = [nodes EXCEPT ![Top.idx].d2s = d, ![Top.idx].thresh = t,
                                      ![Top.idx].depth = Depth % 256]
            /\ stack' = SetTop([Top EXCEPT !.pc = "child1", !.d2s = d, !.thresh = t,
                                           !.low = Min(Lows(Here.rules, d)),
                                           !.high = Max(Ends(Here.rules, d))])
  BY DEF Split
<1> DEFINE t == Threshold(Here.rules, d)
           lo == Min(Lows(Here.rules, d))
           hi == Max(Ends(Here.rules, d))
           f == [Top EXCEPT !.pc = "child1", !.d2s = d, !.thresh = t, !.low = lo, !.high = hi]
           x == [Here EXCEPT !.d2s = d, !.thresh = t, !.depth = Depth % 256]
<1>3. IsNode(Here) /\ IsList(Here.rules)
  <2>1. IsNode(Here)
    BY <1>1 DEF Tree, VecOK, Here
  <2>2. ListOf(Here.rules, acl) /\ Here.rules # Stray
    BY <1>1 DEF FrameOK, Here, Split
  <2> QED
    BY <2>1, <2>2 DEF ListOf
<1>4. d \in Splittable(Here.rules)
  BY DEF SplitDims
<1>5. /\ d \in Dims /\ Ends(Here.rules, d) \in SUBSET (0..MaxVal)
      /\ t \in Ends(Here.rules, d) /\ hi \in Ends(Here.rules, d) /\ lo \in 0..MaxVal
  BY <1>3, <1>4, ThresholdIs
<1>6. d \in Nat /\ t \in Nat /\ lo \in Nat /\ hi \in Nat
  BY <1>5, DimsAssumption
<1>7. nodes' = [nodes EXCEPT ![Top.idx] = x] /\ stack' = SetTop(f)
  <2>1. [nodes EXCEPT ![Top.idx].d2s = d, ![Top.idx].thresh = t,
                      ![Top.idx].depth = Depth % 256]
          = [nodes EXCEPT ![Top.idx] = x]
    BY <1>1 DEF Here
  <2> QED
    BY <1>2, <2>1
<1> HIDE DEF t, lo, hi
<1>8. x.rules = Here.rules /\ x.child = Here.child
  BY <1>3 DEF IsNode
<1>9. f \in FrameType /\ f.idx = Top.idx /\ f.pc = "child1"
  BY <1>1, <1>6 DEF FrameType
<1> HIDE DEF x, f
<1>10. DOMAIN nodes' = DOMAIN nodes /\ cap' = cap
  BY <1>7 DEF cap
<1>11. \A m \in DOMAIN nodes :
         /\ nodes'[m].rules = nodes[m].rules /\ nodes'[m].child = nodes[m].child
         /\ m # Top.idx => nodes'[m] = nodes[m]
  BY <1>1, <1>7, <1>8 DEF Here
<1> QED
  BY <1>1, <1>7, <1>9, <1>10, <1>11 DEF Split

(* A vector that moves keeps what it held.                                 *)
LEMMA VecGetEffect ==
  ASSUME VecOK, VecGet
  PROVE  /\ cap' \in Nat /\ cap' >= cap /\ \A n \in 0..len - 1 : nodes'[n] = nodes[n]
         /\ \/ UNCHANGED <<nodes, gen, live>>
            \/ /\ gen' = gen + 1
               /\ live' = (live \ {<<"nodes", gen>>}) \union {<<"nodes", gen + 1>>}
<1>1. VecOK' /\ \A n \in 0..len - 1 : nodes'[n] = nodes[n]
  BY VecGetIs
<1>2. cap \in Nat /\ cap' \in Nat
  BY <1>1 DEF VecOK
<1>3. cap' >= cap
  <2>1. CASE UNCHANGED nodes
    BY <2>1, <1>2 DEF cap
  <2>2. CASE nodes' = [n \in 0..2 * cap - 1 |-> IF n < cap THEN nodes[n] ELSE Unset]
    <3>1. DOMAIN nodes' = 0..2 * cap - 1 /\ DOMAIN nodes' = 0..cap' - 1
      BY <2>2, <1>1 DEF VecOK
    <3> DEFINE c == cap
               c2 == cap'
    <3>2. c \in Nat \ {0} /\ c2 \in Nat /\ 0..2 * c - 1 = 0..c2 - 1
      BY <1>2, <3>1 DEF VecOK
    <3> HIDE DEF c, c2
    <3>3. 2 * c - 1 \in 0..2 * c - 1
      BY <3>2
    <3>4. 2 * c - 1 <= c2 - 1
      BY <3>2, <3>3
    <3>5. c2 >= c
      BY <3>2, <3>4
    <3> QED
      BY <3>5 DEF c, c2
  <2> QED
    BY <2>1, <2>2 DEF VecGet
<1> QED
  BY <1>1, <1>2, <1>3 DEF VecGet

LEMMA FirstChildEffect ==
  ASSUME Shape, Tree, pc = "building", FirstChild
  PROVE  /\ Top.pc = "child1" /\ UNCHANGED <<pc, space>> /\ VecGet /\ len' = len + 1
         /\ \E f \in FrameType : /\ stack' = SetTop(f) /\ f.idx = Top.idx
                                 /\ f.pc = "child2" /\ f.child = len
<1> DEFINE f == [Top EXCEPT !.pc = "child2", !.child = len]
<1>1. f \in FrameType /\ f.idx = Top.idx /\ f.pc = "child2" /\ f.child = len
  BY TopFrame DEF FrameType
<1>2. stack' = SetTop(f)
  BY DEF FirstChild
<1> HIDE DEF f
<1> QED
  BY <1>1, <1>2 DEF FirstChild, VecGet

LEMMA SecondChildEffect ==
  ASSUME Shape, Tree, pc = "building", SecondChild
  PROVE  /\ Top.pc = "child2" /\ UNCHANGED <<pc, space>> /\ VecGet /\ len' = len + 1
         /\ Top.child = len - 1
         /\ \E f \in FrameType : /\ stack' = SetTop(f) /\ f.idx = Top.idx
                                 /\ f.pc = "left" /\ f.child = Top.child
<1>1. Top \in FrameType /\ FrameOK(Top, nodes, len, space, acl, gen) /\ Top.pc = "child2"
  BY TopFrame DEF SecondChild
<1>2. gen' \in Nat /\ VecGet
  BY VecGetIs DEF SecondChild, Tree
<1> DEFINE e == [Top EXCEPT !.pc = "left"]
           f == [e EXCEPT !.at = gen']
<1>3. f \in FrameType /\ f.idx = Top.idx /\ f.pc = "left" /\ f.child = Top.child
  <2>1. e \in FrameType /\ e.idx = Top.idx /\ e.pc = "left" /\ e.child = Top.child
    BY <1>1 DEF FrameType
  <2> HIDE DEF e
  <2> QED
    BY <1>2, <2>1 DEF FrameType
<1>4. stack' = SetTop(f)
  BY DEF SecondChild, Fetch
<1> HIDE DEF e, f
<1>5. Top.child = len - 1
  BY <1>1 DEF FrameOK, Children
<1> QED
  BY <1>1, <1>3, <1>4, <1>5 DEF SecondChild, VecGet

LEMMA ListNotWild == \A l : IsList(l) => l # Wild
  BY DEF IsList, Wild

LEMMA KeptNotEmpty ==
  ASSUME NEW l, IsList(l), DOMAIN l # {}, NEW pri
  PROVE  IsList(RemoveRedund(l, pri)) /\ DOMAIN RemoveRedund(l, pri) # {}
<1>1. DOMAIN l \in SUBSET Nat
  BY DEF IsList
<1>2. PICK k \in DOMAIN l : \A j \in DOMAIN l : k <= j
  BY <1>1, Least
<1>3. k \in Kept(l, pri)
  <2>1. \A j \in DOMAIN l : ~(j < k)
    BY <1>1, <1>2
  <2> QED
    BY <2>1 DEF Kept
<1> QED
  BY <1>3, RedundIs

LEMMA ChildEffect ==
  ASSUME Shape, Tree, pc = "building", NEW n \in Nat, Pending(Top, n), NEW lo \in Value,
         NEW hi \in Value, NEW keys, NEW next \in {"right", "finish"},
         BuildChild(n, lo, hi, keys, next)
  PROVE  /\ n \in 1..len - 1 /\ n \notin DOMAIN space /\ n \in DOMAIN nodes
         /\ UNCHANGED <<pc, len, gen>> /\ cap' = cap
         /\ DOMAIN nodes' = DOMAIN nodes
         /\ \A m : m \in DOMAIN space' <=> m \in DOMAIN space \/ m = n
         /\ nodes'[n].rules \notin {Wild, NoRules}
         /\ \A m \in DOMAIN nodes : m # n => nodes'[m] = nodes[m]
         /\ live' = live \union {<<"rules", n>>}
         /\ \E f \in FrameType, g \in FrameType :
              /\ stack' = Append(SetTop(f), g)
              /\ f.idx = Top.idx /\ f.pc = next /\ f.child = Top.child
              /\ g.idx = n /\ g.pc = "enter"
<1> DEFINE l == Trimmed(Here.rules, Top.d2s, lo, hi)
           pri == [k \in DOMAIN l |-> PriOf(k)]
           q == RemoveRedund(l, pri)
           r == IF DOMAIN l = {} THEN Stray ELSE q
           x == [nodes[n] EXCEPT !.rules = r]
           f == [Top EXCEPT !.pc = next]
           g == Frame(n, gen)
<1>1. /\ Top \in FrameType /\ FrameOK(Top, nodes, len, space, acl, gen) /\ gen \in Nat
      /\ len \in Nat
  BY TopFrame
<1>2. /\ nodes' = [nodes EXCEPT ![n] = x] /\ stack' = Append(SetTop(f), g)
      /\ space' = [m \in DOMAIN space \union {n} |-> IF m = n THEN keys ELSE space[m]]
      /\ UNCHANGED <<pc, len, gen>> /\ live' = live \union {<<"rules", n>>}
  BY DEF BuildChild, Reduced
<1>3. n \in 0..len - 1 /\ n \notin DOMAIN space /\ n # 0
  <2>1. n \in 0..len - 1
    BY <1>1, PendingIs
  <2>2. n \notin DOMAIN space
    BY <1>1 DEF FrameOK
  <2> QED
    BY <2>1, <2>2 DEF Tree, SpaceOK
<1>4. n \in DOMAIN nodes /\ IsNode(nodes[n])
  BY <1>3 DEF Tree, VecOK
<1>5. IsList(Here.rules) /\ Top.d2s \in Dims
  <2>1. Top.pc # "enter"
    BY DEF Pending
  <2> QED
    BY <1>1, <2>1 DEF FrameOK, Here, ListOf, Chosen, Splittable
<1>6. r \notin {Wild, NoRules}
  <2>1. IsList(l)
    BY <1>5, TrimmedIs
  <2> HIDE DEF l, pri
  <2>2. DOMAIN l # {} => IsList(q) /\ DOMAIN q # {}
    BY <2>1, KeptNotEmpty
  <2> HIDE DEF q
  <2>3. DOMAIN l # {} => q \notin {Wild, NoRules}
    BY <2>2, ListNotWild DEF NoRules
  <2> QED
    BY <2>3, StrayIs
<1> HIDE DEF l, pri, q, r
<1>7. x.rules = r
  BY <1>4 DEF IsNode
<1>8. f \in FrameType /\ f.idx = Top.idx /\ f.pc = next /\ f.child = Top.child
  BY <1>1 DEF FrameType
<1>9. g \in FrameType /\ g.idx = n /\ g.pc = "enter"
  BY <1>1, <1>3 DEF FrameType, Frame
<1> HIDE DEF x, f, g
<1>10. /\ DOMAIN nodes' = DOMAIN nodes /\ cap' = cap /\ nodes'[n] = x
       /\ \A m \in DOMAIN nodes : m # n => nodes'[m] = nodes[m]
  BY <1>2, <1>4 DEF cap
<1>11. \A m : m \in DOMAIN space' <=> m \in DOMAIN space \/ m = n
  BY <1>2
<1>12. n \in 1..len - 1
  BY <1>1, <1>3
<1>13. \E e \in FrameType, c \in FrameType :
         /\ stack' = Append(SetTop(e), c)
         /\ e.idx = Top.idx /\ e.pc = next /\ e.child = Top.child
         /\ c.idx = n /\ c.pc = "enter"
  BY <1>2, <1>8, <1>9
<1>14. nodes'[n].rules \notin {Wild, NoRules}
  BY <1>6, <1>7, <1>10
<1> QED
  BY <1>2, <1>3, <1>4, <1>10, <1>11, <1>12, <1>13, <1>14

LEMMA LeftEffect ==
  ASSUME Shape, Tree, pc = "building", Left
  PROVE  /\ Top.pc = "left" /\ Top.child \in Nat /\ Pending(Top, Top.child)
         /\ Top.low \in Value /\ Top.thresh \in Value
         /\ \E keys : BuildChild(Top.child, Top.low, Top.thresh, keys, "right")
<1>1. Top.pc = "left" /\ \E keys : BuildChild(Top.child, Top.low, Top.thresh, keys, "right")
  BY DEF Left
<1>2. Top.child \in Nat /\ Top.child + 1 \in Nat
  BY TopFrame DEF FrameType
<1> QED
  BY <1>1, <1>2, SplitIs DEF Pending

LEMMA RightEffect ==
  ASSUME Shape, Tree, pc = "building", Right
  PROVE  /\ Top.pc = "right" /\ Top.child + 1 \in Nat /\ Pending(Top, Top.child + 1)
         /\ Top.thresh + 1 \in Value /\ Top.high \in Value
         /\ \E keys : BuildChild(Top.child + 1, Top.thresh + 1, Top.high, keys, "finish")
<1>1. /\ Top.pc = "right"
      /\ \E keys : BuildChild(Top.child + 1, Top.thresh + 1, Top.high, keys, "finish")
  BY DEF Right
<1>2. Top.child \in Nat /\ Top.child + 1 \in Nat
  BY TopFrame DEF FrameType
<1> QED
  BY <1>1, <1>2, SplitIs DEF Pending

LEMMA FinishEffect ==
  ASSUME Shape, Tree, pc = "building", Finish
  PROVE  /\ Top.pc = "finish" /\ Return /\ UNCHANGED <<len, gen, space>> /\ cap' = cap
         /\ Top.child \in Nat
         /\ DOMAIN nodes' = DOMAIN nodes /\ nodes'[Top.idx].child = Top.child
         /\ nodes'[Top.idx].rules = (IF Top.idx = 0 THEN Here.rules ELSE NoRules)
         /\ \A m \in DOMAIN nodes : m # Top.idx => nodes'[m] = nodes[m]
         /\ live' = IF Top.idx = 0 THEN live ELSE live \ {<<"rules", Top.idx>>}
<1> DEFINE x == [Here EXCEPT !.child = Top.child,
                             !.rules = IF DropsRules(Top.idx) THEN NoRules ELSE @]
<1>1. Top.idx \in DOMAIN nodes /\ Top \in FrameType
  BY TopFrame
<1>2. IsNode(Here)
  BY <1>1 DEF Tree, VecOK, Here
<1>3. x.child = Top.child /\ x.rules = IF Top.idx = 0 THEN Here.rules ELSE NoRules
  BY <1>2 DEF IsNode, DropsRules
<1>4. nodes' = [nodes EXCEPT ![Top.idx] = x]
  <2>1. nodes' = [nodes EXCEPT ![Top.idx].child = Top.child,
                               ![Top.idx].rules = IF DropsRules(Top.idx) THEN NoRules ELSE @]
    BY DEF Finish
  <2> QED
    BY <1>1, <2>1 DEF Here
<1> HIDE DEF x
<1>5. DOMAIN nodes' = DOMAIN nodes /\ cap' = cap
  BY <1>4 DEF cap
<1>6. nodes'[Top.idx] = x /\ \A m \in DOMAIN nodes : m # Top.idx => nodes'[m] = nodes[m]
  BY <1>1, <1>4
<1>7. Top.child \in Nat
  BY <1>1 DEF FrameType
<1>8. live' = IF Top.idx = 0 THEN live ELSE live \ {<<"rules", Top.idx>>}
  BY DEF Finish, DropsRules
<1> QED
  BY <1>3, <1>5, <1>6, <1>7, <1>8 DEF Finish

-----------------------------------------------------------------------------
(* As long as the vector is the one that was calloc'd, it holds no wild    *)
(* list, so giving the tree up frees nothing but what it was given.        *)
Clean ==
  /\ gen = 0 => \A n \in DOMAIN nodes : nodes[n].rules # Wild
  /\ pc = "crashed" => gen # 0

LEMMA NoneNotWild == NoRules # Wild
  BY DEF NoRules, Wild

LEMMA BuildingClean ==
  ASSUME Shape, Tree, pc = "building", acl \in Acls, Clean, Building
  PROVE  Clean'
<1>1. pc' # "crashed"
  BY DEF Building, Leaf, Split, FirstChild, SecondChild, NoNode, Left, Right, Overread,
         NoRuleList, Finish, BuildChild, Return
<1>2. Top.idx \in DOMAIN nodes
  BY TopFrame
<1>3. CASE Leaf
  BY <1>1, <1>3, LeafEffect DEF Clean
<1>4. CASE Split
  BY <1>1, <1>4, SplitEffect DEF Clean
<1>5. ASSUME VecGet PROVE Clean'
  <2>1. gen' = gen + 1 \/ UNCHANGED <<nodes, gen>>
    BY <1>5 DEF VecGet
  <2>2. gen \in Nat
    BY DEF Tree, VecOK
  <2> QED
    BY <1>1, <2>1, <2>2 DEF Clean
<1>6. CASE FirstChild \/ SecondChild
  BY <1>5, <1>6 DEF FirstChild, SecondChild
<1>7. CASE NoNode
  <2>1. gen' = -1
    BY <1>7 DEF NoNode
  <2> QED
    BY <1>1, <2>1 DEF Clean
<1>8. ASSUME NEW n, NEW x, nodes' = [nodes EXCEPT ![n] = x], n \in DOMAIN nodes => x.rules # Wild,
             UNCHANGED gen
      PROVE  Clean'
  BY <1>1, <1>8 DEF Clean
<1>9. ASSUME NEW n \in Nat, Pending(Top, n), NEW lo \in Value, NEW hi \in Value, NEW keys,
             NEW next \in {"right", "finish"}, BuildChild(n, lo, hi, keys, next)
      PROVE  Clean'
  <2> HIDE DEF Clean
  <2>0. Shape /\ Tree /\ pc = "building"
    OBVIOUS
  <2>1. /\ n \in DOMAIN nodes /\ UNCHANGED <<pc, len, gen>> /\ nodes'[n].rules # Wild
        /\ DOMAIN nodes' = DOMAIN nodes /\ \A m \in DOMAIN nodes : m # n => nodes'[m] = nodes[m]
    BY <2>0, <1>9, ChildEffect
  <2> QED
    BY <1>1, <2>1 DEF Clean
<1>10. CASE Left
  BY <1>9, <1>10, LeftEffect
<1>11. CASE Right
  BY <1>9, <1>11, RightEffect
<1>12. CASE Overread
  BY <1>1, <1>12 DEF Overread, Clean
<1>13. CASE NoRuleList
  <2>1. \E n : nodes' = [nodes EXCEPT ![n].rules = NoRules]
    BY <1>13 DEF NoRuleList
  <2>2. PICK n : nodes' = [nodes EXCEPT ![n].rules = NoRules]
    BY <2>1
  <2>3. \A m \in DOMAIN nodes : IsNode(nodes[m])
    BY DEF Tree, VecOK
  <2>4. /\ DOMAIN nodes' = DOMAIN nodes
        /\ \A m \in DOMAIN nodes : nodes'[m].rules \in {NoRules, nodes[m].rules}
    BY <2>2, <2>3 DEF IsNode
  <2>5. UNCHANGED gen
    BY <1>13 DEF NoRuleList
  <2> QED
    BY <1>1, <2>4, <2>5, NoneNotWild DEF Clean
<1>14. CASE Finish
  BY <1>1, <1>2, <1>14, FinishEffect, NoneNotWild DEF Clean, Here
<1> QED
  BY <1>3, <1>4, <1>6, <1>7, <1>10, <1>11, <1>12, <1>13, <1>14 DEF Building

LEMMA LookupSame ==
  ASSUME Lookup
  PROVE  /\ UNCHANGED <<stack, info, space, nodes, len, gen, live>>
         /\ UNCHANGED pc \/ pc' = "overread"
  BY DEF Lookup, LookupOverreads, mem

LEMMA StepClean == IInv /\ Clean /\ [Next]_vars => Clean'
<1> SUFFICES ASSUME IInv, Clean, [Next]_vars PROVE Clean'
  OBVIOUS
<1>1. ASSUME NEW a \in Acls, NEW b, NEW own, PrepBuild(a, b, own) PROVE Clean'
  <2>1. pc' = "building" /\ nodes' = [n \in 0..VEC_SIZE - 1 |->
          IF n = 0 THEN [FreshNode EXCEPT !.rules = RootRules(a)] ELSE FreshNode]
    BY <1>1 DEF PrepBuild
  <2>2. /\ [FreshNode EXCEPT !.rules = RootRules(a)].rules = RootRules(a)
        /\ FreshNode.rules = NoRules
    BY DEF FreshNode, Zeroed
  <2>3. RootRules(a) # Wild
    BY RootList, ListNotWild, StrayIs DEF ListOf
  <2> QED
    BY <2>1, <2>2, <2>3, NoneNotWild DEF Clean
<1>2. ASSUME pc' = "empty", gen' = -1 PROVE Clean'
  BY <1>2 DEF Clean
<1>3. ASSUME UNCHANGED <<pc, nodes, gen>> PROVE Clean'
  BY <1>3 DEF Clean
<1>4. CASE Building
  <2>1. pc = "building"
    BY <1>4 DEF Building
  <2>2. Shape /\ Tree /\ acl \in Acls
    BY <2>1 DEF IInv, Shape
  <2> QED
    BY <1>4, <2>1, <2>2, BuildingClean
<1>5. CASE CleanUpCrashes
  <2>1. gen # 0
    BY <1>5 DEF CleanUpCrashes, NullVec, WildLists, Clean
  <2> QED
    BY <1>5, <2>1 DEF CleanUpCrashes, mem, Clean
<1>6. CASE FreeAll \/ CleanUp
  BY <1>2, <1>6 DEF FreeAll, CleanUp, TreeFree
<1>7. ASSUME NEW own, PrepBuildFails(own) PROVE Clean'
  BY <1>3, <1>7 DEF PrepBuildFails, mem
<1>8. CASE Lookup \/ UNCHANGED vars
  BY <1>3, <1>8, LookupSame DEF Clean, vars
<1> QED
  BY <1>1, <1>3, <1>4, <1>5, <1>6, <1>7, <1>8 DEF Next, Running, mem

(* Giving up a tree crashes only if the vector had to grow: what the first *)
(* block holds was zeroed.                                                 *)
THEOREM AlwaysCrashNeedsGrowth == Spec => []CrashNeedsGrowth
<1>1. Init => Clean
  BY DEF Init, Clean
<1>2. Clean => CrashNeedsGrowth
  BY DEF Clean, CrashNeedsGrowth
<1> QED
  BY <1>1, <1>2, StepClean, TreeInvariant, PTL DEF Spec

-----------------------------------------------------------------------------
(* The nodes are a family: every node but the root has one parent, which   *)
(* is the activation that was given it or the finished node that points to *)
(* it; and it is built, being built, or waits for its parent to build it.  *)

Claims(f, n) == \/ f.pc \in {"child2", "left", "right", "finish"} /\ n = f.child
                \/ f.pc \in {"left", "right", "finish"} /\ n = f.child + 1

Parent(s, nds, sp, p, n) ==
  \/ \E k \in 1..Len(s) : s[k].idx = p /\ Claims(s[k], n)
  \/ /\ p \in DOMAIN sp \ Active(s) /\ nds[p].child # LEAF
     /\ n \in {nds[p].child, nds[p].child + 1}

OneParent(s, nds, sp, u) ==
  /\ \A n \in 1..u - 1 : \E p \in DOMAIN sp : Parent(s, nds, sp, p, n)
  /\ \A p \in DOMAIN sp : \A n : Parent(s, nds, sp, p, n) => n \in 1..u - 1
  /\ \A p, q \in DOMAIN sp : \A n :
       Parent(s, nds, sp, p, n) /\ Parent(s, nds, sp, q, n) => p = q

Reached(s, sp, u) ==
  \A n \in 0..u - 1 : n \in DOMAIN sp \/ \E k \in 1..Len(s) : Pending(s[k], n)

Family == OneParent(stack, nodes, space, len) /\ Reached(stack, space, len)

(* A step of the innermost activation changes the children of its own node *)
(* only ...                                                                *)
LEMMA OthersKept ==
  ASSUME Len(stack) \in Nat \ {0}, Outer(stack, stack', Len(stack)), Top = stack[Len(stack)],
         NEW p \in DOMAIN space, p \in DOMAIN space', p # Top.idx,
         \A k \in Len(stack)..Len(stack') : stack'[k].idx # p,
         nodes'[p].child = nodes[p].child
  PROVE  \A n : Parent(stack', nodes', space', p, n) <=> Parent(stack, nodes, space, p, n)
<1> DEFINE s == stack
           s2 == stack'
           h == Len(s)
           C(n) == \E k \in 1..Len(s) : s[k].idx = p /\ Claims(s[k], n)
           C2(n) == \E k \in 1..Len(s2) : s2[k].idx = p /\ Claims(s2[k], n)
<1>1. /\ h \in Nat \ {0} /\ Len(s) = h /\ Len(s2) \in Nat /\ h - 1 <= Len(s2)
      /\ \A k \in 1..h - 1 : s2[k].idx = s[k].idx /\ s2[k].pc = s[k].pc /\ s2[k].child = s[k].child
      /\ p # s[h].idx /\ \A k \in h..Len(s2) : s2[k].idx # p
  BY DEF Outer
<1>2. /\ \A n : Parent(stack, nodes, space, p, n)
               <=> C(n) \/ /\ p \notin Active(s) /\ nodes[p].child # LEAF
                           /\ n \in {nodes[p].child, nodes[p].child + 1}
      /\ \A n : Parent(stack', nodes', space', p, n)
               <=> C2(n) \/ /\ p \notin Active(s2) /\ nodes[p].child # LEAF
                            /\ n \in {nodes[p].child, nodes[p].child + 1}
  BY DEF Parent
<1> HIDE DEF s, s2, h
<1>3. \A k \in 1..h : k = h \/ k \in 1..h - 1
  BY <1>1
<1>4. \A k \in 1..Len(s2) : k \in h..Len(s2) \/ k \in 1..h - 1
  BY <1>1
<1>5. \A k \in 1..h - 1 : k \in 1..h /\ k \in 1..Len(s2)
  BY <1>1
<1>6. \A n : C(n) <=> \E k \in 1..h - 1 : s[k].idx = p /\ Claims(s[k], n)
  BY <1>1, <1>3, <1>5
<1>7. \A n : C2(n) <=> \E k \in 1..h - 1 : s2[k].idx = p /\ Claims(s2[k], n)
  BY <1>1, <1>4, <1>5
<1>8. \A n : \A k \in 1..h - 1 :
        s[k].idx = p /\ Claims(s[k], n) <=> s2[k].idx = p /\ Claims(s2[k], n)
  BY <1>1 DEF Claims
<1>9. p \in Active(s) <=> \E k \in 1..h - 1 : s[k].idx = p
  BY <1>1, <1>3, <1>5 DEF Active
<1>10. p \in Active(s2) <=> \E k \in 1..h - 1 : s2[k].idx = p
  BY <1>1, <1>4, <1>5 DEF Active
<1>11. p \in Active(s) <=> p \in Active(s2)
  BY <1>1, <1>9, <1>10
<1>12. \A n : C(n) <=> C2(n)
  BY <1>6, <1>7, <1>8
<1> HIDE DEF C, C2
<1> QED
  BY <1>2, <1>11, <1>12

LEMMA ParentActive ==
  ASSUME NEW s, NEW nds, NEW sp, NEW h \in 1..Len(s), Distinct(s)
  PROVE  \A n : Parent(s, nds, sp, s[h].idx, n) <=> Claims(s[h], n)
<1>1. s[h].idx \in Active(s)
  BY DEF Active
<1>2. \A k \in 1..Len(s) : s[k].idx = s[h].idx => k = h
  BY DEF Distinct
<1>3. \A n : (\E k \in 1..Len(s) : s[k].idx = s[h].idx /\ Claims(s[k], n)) <=> Claims(s[h], n)
  BY <1>2
<1> QED
  BY <1>1, <1>3 DEF Parent

(* ... to which it may add the next node of the vector.                    *)
LEMMA FamilyStep ==
  ASSUME len \in Nat, len >= 1, len' \in {len, len + 1}, Top.idx \in DOMAIN space,
         OneParent(stack, nodes, space, len), \A p \in DOMAIN space : p \in DOMAIN space',
         \A p \in DOMAIN space : p # Top.idx =>
           \A n : Parent(stack', nodes', space', p, n) <=> Parent(stack, nodes, space, p, n),
         \A n : Parent(stack', nodes', space', Top.idx, n)
                  <=> Parent(stack, nodes, space, Top.idx, n) \/ (len' = len + 1 /\ n = len),
         \A p \in DOMAIN space' :
           p \in DOMAIN space \/ \A n : ~Parent(stack', nodes', space', p, n)
  PROVE  OneParent(stack', nodes', space', len')
<1> DEFINE A(p, n) == Parent(stack, nodes, space, p, n)
           B(p, n) == Parent(stack', nodes', space', p, n)
           S == DOMAIN space
           S2 == DOMAIN space'
           u == len
           u2 == len'
           t == Top.idx
<1>1. /\ \A n \in 1..u - 1 : \E p \in S : A(p, n)
      /\ \A p \in S : \A n : A(p, n) => n \in 1..u - 1
      /\ \A p, q \in S : \A n : A(p, n) /\ A(q, n) => p = q
  BY DEF OneParent
<1>2. \A p \in S : \A n : B(p, n) <=> A(p, n) \/ (p = t /\ u2 = u + 1 /\ n = u)
  OBVIOUS
<1>3. /\ u \in Nat /\ u >= 1 /\ u2 \in {u, u + 1} /\ t \in S
      /\ \A p \in S : p \in S2
      /\ \A p \in S2 : p \in S \/ \A n : ~B(p, n)
  OBVIOUS
<1>4. /\ \A n \in 1..u2 - 1 : \E p \in S2 : B(p, n)
      /\ \A p \in S2 : \A n : B(p, n) => n \in 1..u2 - 1
      /\ \A p, q \in S2 : \A n : B(p, n) /\ B(q, n) => p = q
      => OneParent(stack', nodes', space', len')
  BY DEF OneParent
<1> HIDE DEF A, B, S, S2, u, u2, t
<1>5. \A n \in 1..u2 - 1 : n \in 1..u - 1 \/ (u2 = u + 1 /\ n = u)
  BY <1>3
<1>6. \A n \in 1..u - 1 : n \in 1..u2 - 1 /\ n # u
  BY <1>3
<1>7. u2 = u + 1 => u \in 1..u2 - 1
  BY <1>3
<1>8. \A n \in 1..u2 - 1 : \E p \in S2 : B(p, n)
  BY <1>1, <1>2, <1>3, <1>5
<1>9. \A p \in S2 : \A n : B(p, n) => n \in 1..u2 - 1
  BY <1>1, <1>2, <1>3, <1>6, <1>7
<1>10. \A p, q \in S2 : \A n : B(p, n) /\ B(q, n) => p = q
  <2> SUFFICES ASSUME NEW p \in S2, NEW q \in S2, NEW n, B(p, n), B(q, n)
               PROVE  p = q
    OBVIOUS
  <2>1. p \in S /\ q \in S
    BY <1>3
  <2>2. CASE n = u
    <3>1. ~A(p, n) /\ ~A(q, n)
      BY <2>1, <2>2, <1>1, <1>6
    <3> QED
      BY <2>1, <3>1, <1>2
  <2>3. CASE n # u
    BY <2>1, <2>3, <1>1, <1>2
  <2> QED
    BY <2>2, <2>3
<1> QED
  BY <1>4, <1>8, <1>9, <1>10

LEMMA ReachedStep ==
  ASSUME Len(stack) \in Nat \ {0}, Outer(stack, stack', Len(stack)), Top = stack[Len(stack)],
         len \in Nat, len' \in {len, len + 1}, Reached(stack, space, len),
         \A p \in DOMAIN space : p \in DOMAIN space',
         \A n : Pending(Top, n) \/ (len' = len + 1 /\ n = len) =>
                  n \in DOMAIN space' \/ \E k \in 1..Len(stack') : Pending(stack'[k], n)
  PROVE  Reached(stack', space', len')
<1> DEFINE s == stack
           s2 == stack'
           h == Len(s)
<1>1. /\ h \in Nat \ {0} /\ Len(s) = h /\ Len(s2) \in Nat /\ h - 1 <= Len(s2) /\ Top = s[h]
      /\ \A k \in 1..h - 1 : s2[k].idx = s[k].idx /\ s2[k].pc = s[k].pc /\ s2[k].child = s[k].child
      /\ \A n \in 0..len - 1 : n \in DOMAIN space \/ \E k \in 1..Len(s) : Pending(s[k], n)
  BY DEF Outer, Reached
<1> SUFFICES ASSUME NEW n \in 0..len' - 1, n \notin DOMAIN space'
             PROVE  \E k \in 1..Len(s2) : Pending(s2[k], n)
  BY DEF Reached
<1>2. n \in 0..len - 1 \/ (len' = len + 1 /\ n = len)
  <2> DEFINE u == len
             u2 == len'
  <2>1. u \in Nat /\ u2 \in {u, u + 1} /\ n \in 0..u2 - 1
    OBVIOUS
  <2> HIDE DEF u, u2
  <2>2. n \in 0..u - 1 \/ (u2 = u + 1 /\ n = u)
    BY <2>1
  <2> QED
    BY <2>2 DEF u, u2
<1>3. Pending(Top, n) \/ (len' = len + 1 /\ n = len) =>
        n \in DOMAIN space' \/ \E k \in 1..Len(s2) : Pending(s2[k], n)
  OBVIOUS
<1> HIDE DEF s, s2, h
<1>4. CASE n \in 0..len - 1
  <2>1. PICK k \in 1..h : Pending(s[k], n)
    BY <1>1, <1>4
  <2>2. CASE k = h
    BY <2>1, <2>2, <1>1, <1>3
  <2>3. CASE k # h
    <3>1. k \in 1..h - 1 /\ k \in 1..Len(s2)
      BY <2>3, <1>1
    <3>2. Pending(s2[k], n)
      BY <2>1, <3>1, <1>1 DEF Pending
    <3> QED
      BY <3>1, <3>2
  <2> QED
    BY <2>2, <2>3
<1> QED
  BY <1>2, <1>3, <1>4

LEMMA NextDistinct == Tree' => Distinct(stack')
<1> SUFFICES ASSUME Tree', NEW j \in 1..Len(stack'), NEW k \in 1..Len(stack'), j # k
             PROVE  stack'[j].idx # stack'[k].idx
  BY DEF Distinct
<1>1. \A a, b \in 1..Len(stack') : a < b => stack'[a].idx # stack'[b].idx
  BY DEF Tree, Frames, Apart
<1>2. j < k \/ k < j
  OBVIOUS
<1> QED
  BY <1>1, <1>2

(* The innermost activation goes on: it claims the next node, if any, and  *)
(* still waits for what it waited for.                                     *)
LEMMA FamilyOn ==
  ASSUME Shape, Tree, pc = "building", Family, Tree', UNCHANGED space,
         NEW f \in FrameType, stack' = SetTop(f), f.idx = Top.idx, len' \in {len, len + 1},
         \A m \in DOMAIN space : nodes'[m].child = nodes[m].child,
         \A n : Claims(f, n) <=> Claims(Top, n) \/ (len' = len + 1 /\ n = len),
         \A n : Pending(Top, n) \/ (len' = len + 1 /\ n = len) => Pending(f, n)
  PROVE  Family'
<1> DEFINE h == Len(stack)
           t == Top.idx
<1>1. /\ Outer(stack, stack', h) /\ Len(stack') = h /\ h \in Nat \ {0} /\ stack'[h] = f
  BY NewTop
<1>2. Distinct(stack)
  BY TreeDistinct
<1>3. /\ len \in Nat /\ len >= 1 /\ t \in DOMAIN space /\ Top = stack[h]
      /\ OneParent(stack, nodes, space, len) /\ Reached(stack, space, len)
      /\ h \in 1..Len(stack)
  BY <1>1, TopFrame DEF Family, Top
<1>4. \A n : Parent(stack, nodes, space, t, n) <=> Claims(Top, n)
  BY <1>2, <1>3, ParentActive
<1>5. \A n : Parent(stack', nodes', space', t, n) <=> Claims(f, n)
  <2> DEFINE s2 == stack'
             nds2 == nodes'
             sp2 == space'
  <2>1. h \in 1..Len(s2) /\ s2[h] = f /\ f.idx = t /\ Distinct(s2)
    BY <1>1, NextDistinct
  <2> HIDE DEF s2, nds2, sp2, t, h
  <2>2. \A n : Parent(s2, nds2, sp2, s2[h].idx, n) <=> Claims(s2[h], n)
    BY <2>1, ParentActive
  <2> QED
    BY <2>1, <2>2 DEF s2, nds2, sp2
<1>6. ASSUME NEW p \in DOMAIN space, p # t
      PROVE  \A n : Parent(stack', nodes', space', p, n) <=> Parent(stack, nodes, space, p, n)
  <2>1. \A k \in h..Len(stack') : stack'[k].idx # p
    <3> HIDE DEF h
    <3>1. \A k \in h..h : k = h
      BY <1>1
    <3> QED
      BY <3>1, <1>1, <1>6
  <2>2. nodes'[p].child = nodes[p].child /\ p \in DOMAIN space'
    OBVIOUS
  <2> QED
    BY <1>1, <1>3, <1>6, <2>1, <2>2, OthersKept
<1>7. OneParent(stack', nodes', space', len')
  <2>1. \A n : Parent(stack', nodes', space', t, n)
                 <=> Parent(stack, nodes, space, t, n) \/ (len' = len + 1 /\ n = len)
    BY <1>4, <1>5
  <2>2. \A p \in DOMAIN space : p # t =>
          \A n : Parent(stack', nodes', space', p, n) <=> Parent(stack, nodes, space, p, n)
    BY <1>6
  <2>3. /\ \A p \in DOMAIN space : p \in DOMAIN space'
        /\ \A p \in DOMAIN space' :
             p \in DOMAIN space \/ \A n : ~Parent(stack', nodes', space', p, n)
    OBVIOUS
  <2> QED
    BY <1>3, <2>1, <2>2, <2>3, FamilyStep
<1>8. Reached(stack', space', len')
  <2>1. h \in 1..Len(stack')
    BY <1>1
  <2>2. /\ \A n : Pending(Top, n) \/ (len' = len + 1 /\ n = len) =>
             n \in DOMAIN space' \/ \E k \in 1..Len(stack') : Pending(stack'[k], n)
        /\ \A p \in DOMAIN space : p \in DOMAIN space'
    BY <1>1, <2>1
  <2> QED
    BY <1>1, <1>3, <2>2, ReachedStep
<1> QED
  BY <1>7, <1>8 DEF Family

(* It calls itself for a node it had claimed.                              *)
LEMMA FamilyPush ==
  ASSUME Shape, Tree, pc = "building", Family, Tree', UNCHANGED len, NEW c,
         NEW f \in FrameType, NEW g \in FrameType, stack' = Append(SetTop(f), g),
         f.idx = Top.idx, g.idx = c, c \notin DOMAIN space,
         \A m : m \in DOMAIN space' <=> m \in DOMAIN space \/ m = c,
         \A m \in DOMAIN space : nodes'[m].child = nodes[m].child,
         \A n : Claims(f, n) <=> Claims(Top, n), \A n : ~Claims(g, n),
         \A n : Pending(Top, n) => Pending(f, n) \/ n = c
  PROVE  Family'
<1> DEFINE h == Len(stack)
           t == Top.idx
<1>1. /\ Outer(stack, stack', h) /\ Len(stack') = h + 1 /\ h \in Nat \ {0}
      /\ stack'[h] = f /\ stack'[h + 1] = g
  BY Pushed
<1>2. Distinct(stack)
  BY TreeDistinct
<1>3. /\ len \in Nat /\ len >= 1 /\ t \in DOMAIN space /\ Top = stack[h]
      /\ OneParent(stack, nodes, space, len) /\ Reached(stack, space, len)
      /\ h \in 1..Len(stack)
  BY <1>1, TopFrame DEF Family, Top
<1>4. \A n : Parent(stack, nodes, space, t, n) <=> Claims(Top, n)
  BY <1>2, <1>3, ParentActive
<1>5. /\ \A n : Parent(stack', nodes', space', t, n) <=> Claims(f, n)
      /\ \A n : ~Parent(stack', nodes', space', c, n)
  <2> DEFINE s2 == stack'
             nds2 == nodes'
             sp2 == space'
  <2>1. /\ s2[h] = f /\ f.idx = t /\ s2[h + 1] = g /\ g.idx = c /\ Distinct(s2)
        /\ h \in Nat \ {0} /\ Len(s2) = h + 1
    BY <1>1, NextDistinct
  <2> HIDE DEF s2, nds2, sp2, t, h
  <2>2. h \in 1..Len(s2) /\ h + 1 \in 1..Len(s2)
    BY <2>1
  <2>3. \A n : Parent(s2, nds2, sp2, s2[h].idx, n) <=> Claims(s2[h], n)
    BY <2>1, <2>2, ParentActive
  <2>4. \A n : Parent(s2, nds2, sp2, s2[h + 1].idx, n) <=> Claims(s2[h + 1], n)
    BY <2>1, <2>2, ParentActive
  <2> QED
    BY <2>1, <2>3, <2>4 DEF s2, nds2, sp2
<1>6. ASSUME NEW p \in DOMAIN space, p # t
      PROVE  \A n : Parent(stack', nodes', space', p, n) <=> Parent(stack, nodes, space, p, n)
  <2>1. \A k \in h..Len(stack') : stack'[k].idx # p
    <3> HIDE DEF h
    <3>1. \A k \in h..h + 1 : k = h \/ k = h + 1
      BY <1>1
    <3>2. p # c
      OBVIOUS
    <3> QED
      BY <3>1, <3>2, <1>1, <1>6
  <2>2. nodes'[p].child = nodes[p].child /\ p \in DOMAIN space'
    OBVIOUS
  <2> QED
    BY <1>1, <1>3, <1>6, <2>1, <2>2, OthersKept
<1>7. OneParent(stack', nodes', space', len')
  <2>1. \A n : Parent(stack', nodes', space', t, n)
                 <=> Parent(stack, nodes, space, t, n) \/ (len' = len + 1 /\ n = len)
    BY <1>3, <1>4, <1>5
  <2>2. \A p \in DOMAIN space : p # t =>
          \A n : Parent(stack', nodes', space', p, n) <=> Parent(stack, nodes, space, p, n)
    BY <1>6
  <2>3. /\ \A p \in DOMAIN space : p \in DOMAIN space'
        /\ \A p \in DOMAIN space' :
             p \in DOMAIN space \/ \A n : ~Parent(stack', nodes', space', p, n)
    BY <1>5
  <2> QED
    BY <1>3, <2>1, <2>2, <2>3, FamilyStep
<1>8. Reached(stack', space', len')
  <2>1. h \in 1..Len(stack')
    BY <1>1
  <2>2. /\ \A n : Pending(Top, n) \/ (len' = len + 1 /\ n = len) =>
             n \in DOMAIN space' \/ \E k \in 1..Len(stack') : Pending(stack'[k], n)
        /\ \A p \in DOMAIN space : p \in DOMAIN space'
    BY <1>1, <1>3, <2>1
  <2> QED
    BY <1>1, <1>3, <2>2, ReachedStep
<1> QED
  BY <1>7, <1>8 DEF Family

(* It returns, its node finished: what it claimed is the node's.           *)
LEMMA FamilyPop ==
  ASSUME Shape, Tree, pc = "building", Family, UNCHANGED <<len, gen, space>>, Return,
         \A m \in DOMAIN space : m # Top.idx => nodes'[m] = nodes[m],
         \A n : nodes'[Top.idx].child # LEAF
                  /\ n \in {nodes'[Top.idx].child, nodes'[Top.idx].child + 1} <=> Claims(Top, n),
         \A n : ~Pending(Top, n)
  PROVE  Family'
<1> DEFINE h == Len(stack)
           t == Top.idx
<1>1. /\ Outer(stack, stack', h) /\ Len(stack') = h - 1 /\ h \in Nat \ {0}
      /\ Active(stack') = Active(stack) \ {t}
  <2>1. gen' \in Int
    BY DEF Tree, VecOK
  <2> QED
    BY <2>1, Popped
<1>2. Distinct(stack)
  BY TreeDistinct
<1>3. /\ len \in Nat /\ len >= 1 /\ t \in DOMAIN space /\ Top = stack[h]
      /\ OneParent(stack, nodes, space, len) /\ Reached(stack, space, len)
      /\ h \in 1..Len(stack)
  BY <1>1, TopFrame DEF Family, Top
<1>4. \A n : Parent(stack, nodes, space, t, n) <=> Claims(Top, n)
  BY <1>2, <1>3, ParentActive
<1>5. \A n : Parent(stack', nodes', space', t, n) <=> Claims(Top, n)
  <2>1. \A k \in 1..Len(stack') : stack'[k].idx # t
    BY <1>1 DEF Active
  <2>2. t \in DOMAIN space' \ Active(stack')
    BY <1>1, <1>3
  <2> QED
    BY <2>1, <2>2 DEF Parent
<1>6. ASSUME NEW p \in DOMAIN space, p # t
      PROVE  \A n : Parent(stack', nodes', space', p, n) <=> Parent(stack, nodes, space, p, n)
  <2>1. \A k \in h..Len(stack') : stack'[k].idx # p
    <3> HIDE DEF h
    <3> QED
      BY <1>1
  <2>2. nodes'[p].child = nodes[p].child /\ p \in DOMAIN space'
    BY <1>6
  <2> QED
    BY <1>1, <1>3, <1>6, <2>1, <2>2, OthersKept
<1>7. OneParent(stack', nodes', space', len')
  <2>1. \A n : Parent(stack', nodes', space', t, n)
                 <=> Parent(stack, nodes, space, t, n) \/ (len' = len + 1 /\ n = len)
    BY <1>3, <1>4, <1>5
  <2>2. \A p \in DOMAIN space : p # t =>
          \A n : Parent(stack', nodes', space', p, n) <=> Parent(stack, nodes, space, p, n)
    BY <1>6
  <2>3. /\ \A p \in DOMAIN space : p \in DOMAIN space'
        /\ \A p \in DOMAIN space' :
             p \in DOMAIN space \/ \A n : ~Parent(stack', nodes', space', p, n)
    OBVIOUS
  <2> QED
    BY <1>3, <2>1, <2>2, <2>3, FamilyStep
<1>8. Reached(stack', space', len')
  <2>1. /\ \A n : Pending(Top, n) \/ (len' = len + 1 /\ n = len) =>
             n \in DOMAIN space' \/ \E k \in 1..Len(stack') : Pending(stack'[k], n)
        /\ \A p \in DOMAIN space : p \in DOMAIN space'
    BY <1>3
  <2> QED
    BY <1>1, <1>3, <2>1, ReachedStep
<1> QED
  BY <1>7, <1>8 DEF Family

LEMMA BuildingFamily ==
  ASSUME Shape, Tree, pc = "building", Family, Building, pc' \in {"building", "built"},
         Tree', Shape'
  PROVE  Family'
<1>1. /\ Top \in FrameType /\ FrameOK(Top, nodes, len, space, acl, gen)
      /\ len \in Nat /\ Top.child \in Nat
      /\ \A m \in DOMAIN space : m \in DOMAIN nodes /\ m \in 0..len - 1
  <2>1. \A m \in DOMAIN space : m \in DOMAIN nodes /\ m \in 0..len - 1
    BY DEF Tree, SpaceOK, VecOK
  <2> QED
    BY <2>1, TopFrame DEF FrameType
<1>2. CASE Leaf
  <2>1. /\ \A m \in DOMAIN space : m # Top.idx => nodes'[m] = nodes[m]
        /\ UNCHANGED <<len, gen, space>> /\ Return
    BY <1>1, <1>2, LeafEffect
  <2>2. /\ \A n : nodes'[Top.idx].child # LEAF
                     /\ n \in {nodes'[Top.idx].child, nodes'[Top.idx].child + 1} <=> Claims(Top, n)
        /\ \A n : ~Pending(Top, n)
    BY <1>2, LeafEffect DEF Claims, Pending
  <2> QED
    BY <2>1, <2>2, FamilyPop
<1>3. CASE Split
  <2>1. PICK f \in FrameType : stack' = SetTop(f) /\ f.idx = Top.idx /\ f.pc = "child1"
    BY <1>3, SplitEffect
  <2>2. /\ Top.pc = "enter" /\ UNCHANGED <<len, space>>
        /\ \A m \in DOMAIN space : nodes'[m].child = nodes[m].child
    BY <1>1, <1>3, SplitEffect
  <2>3. len' \in {len, len + 1} /\ len' # len + 1
    BY <1>1, <2>2
  <2>4. /\ \A n : Claims(f, n) <=> Claims(Top, n) \/ (len' = len + 1 /\ n = len)
        /\ \A n : Pending(Top, n) \/ (len' = len + 1 /\ n = len) => Pending(f, n)
    BY <2>1, <2>2, <2>3 DEF Claims, Pending
  <2> QED
    BY <2>1, <2>2, <2>3, <2>4, FamilyOn
<1>4. ASSUME VecGet PROVE \A m \in DOMAIN space : nodes'[m].child = nodes[m].child
  BY <1>1, <1>4, VecGetIs DEF Tree
<1>5. CASE FirstChild
  <2>1. PICK f \in FrameType : /\ stack' = SetTop(f) /\ f.idx = Top.idx
                               /\ f.pc = "child2" /\ f.child = len
    BY <1>5, FirstChildEffect
  <2>2. Top.pc = "child1" /\ len' = len + 1 /\ UNCHANGED space /\ VecGet
    BY <1>5, FirstChildEffect
  <2>3. /\ len' \in {len, len + 1}
        /\ \A n : Claims(f, n) <=> Claims(Top, n) \/ (len' = len + 1 /\ n = len)
        /\ \A n : Pending(Top, n) \/ (len' = len + 1 /\ n = len) => Pending(f, n)
    BY <2>1, <2>2 DEF Claims, Pending
  <2> QED
    BY <2>1, <2>2, <2>3, <1>4, FamilyOn
<1>6. CASE SecondChild
  <2>1. PICK f \in FrameType : /\ stack' = SetTop(f) /\ f.idx = Top.idx
                               /\ f.pc = "left" /\ f.child = Top.child
    BY <1>6, SecondChildEffect
  <2>2. /\ Top.pc = "child2" /\ len' = len + 1 /\ UNCHANGED space /\ VecGet
        /\ Top.child = len - 1
    BY <1>6, SecondChildEffect
  <2>3. f.child + 1 = len
    BY <1>1, <2>1, <2>2
  <2>4. /\ len' \in {len, len + 1}
        /\ \A n : Claims(f, n) <=> Claims(Top, n) \/ (len' = len + 1 /\ n = len)
        /\ \A n : Pending(Top, n) \/ (len' = len + 1 /\ n = len) => Pending(f, n)
    BY <2>1, <2>2, <2>3 DEF Claims, Pending
  <2> QED
    BY <2>1, <2>2, <2>4, <1>4, FamilyOn
<1>7. ASSUME NEW c \in Nat, Pending(Top, c), NEW lo \in Value, NEW hi \in Value, NEW keys,
             NEW next \in {"right", "finish"}, BuildChild(c, lo, hi, keys, next),
             \A f \in FrameType : f.pc = next /\ f.child = Top.child =>
               /\ \A n : Claims(f, n) <=> Claims(Top, n)
               /\ \A n : Pending(Top, n) => Pending(f, n) \/ n = c
      PROVE  Family'
  <2>1. /\ UNCHANGED len /\ c \notin DOMAIN space
        /\ \A m : m \in DOMAIN space' <=> m \in DOMAIN space \/ m = c
        /\ \A m \in DOMAIN nodes : m # c => nodes'[m] = nodes[m]
        /\ \E f \in FrameType, g \in FrameType :
              /\ stack' = Append(SetTop(f), g)
              /\ f.idx = Top.idx /\ f.pc = next /\ f.child = Top.child
              /\ g.idx = c /\ g.pc = "enter"
    BY <1>7, ChildEffect
  <2>2. PICK f \in FrameType, g \in FrameType :
              /\ stack' = Append(SetTop(f), g)
              /\ f.idx = Top.idx /\ f.pc = next /\ f.child = Top.child
              /\ g.idx = c /\ g.pc = "enter"
    BY <2>1
  <2>3. \A m \in DOMAIN space : nodes'[m].child = nodes[m].child
    BY <1>1, <2>1
  <2>4. \A n : ~Claims(g, n)
    BY <2>2 DEF Claims
  <2>5. /\ \A n : Claims(f, n) <=> Claims(Top, n)
        /\ \A n : Pending(Top, n) => Pending(f, n) \/ n = c
    BY <1>7, <2>2
  <2> QED
    BY <2>1, <2>2, <2>3, <2>4, <2>5, FamilyPush
<1>8. CASE Left
  <2>1. Top.pc = "left" /\ Top.child \in Nat /\ Pending(Top, Top.child)
    BY <1>8, LeftEffect
  <2>2. \A f \in FrameType : f.pc = "right" /\ f.child = Top.child =>
          /\ \A n : Claims(f, n) <=> Claims(Top, n)
          /\ \A n : Pending(Top, n) => Pending(f, n) \/ n = Top.child
    BY <2>1 DEF Claims, Pending
  <2> DEFINE c == Top.child
             lo == Top.low
             hi == Top.thresh
  <2>3. PICK keys : BuildChild(c, lo, hi, keys, "right")
    BY <1>8, LeftEffect
  <2>4. c \in Nat /\ Pending(Top, c) /\ lo \in Value /\ hi \in Value
    BY <1>8, LeftEffect
  <2>5. \A f \in FrameType : f.pc = "right" /\ f.child = Top.child =>
          /\ \A n : Claims(f, n) <=> Claims(Top, n)
          /\ \A n : Pending(Top, n) => Pending(f, n) \/ n = c
    BY <2>2
  <2> HIDE DEF c, lo, hi
  <2> QED
    BY <1>7, <2>3, <2>4, <2>5
<1>9. CASE Right
  <2>1. Top.pc = "right" /\ Top.child + 1 \in Nat /\ Pending(Top, Top.child + 1)
    BY <1>9, RightEffect
  <2> DEFINE c == Top.child + 1
             lo == Top.thresh + 1
             hi == Top.high
  <2>2. \A f \in FrameType : f.pc = "finish" /\ f.child = Top.child =>
          /\ \A n : Claims(f, n) <=> Claims(Top, n)
          /\ \A n : Pending(Top, n) => Pending(f, n) \/ n = c
    BY <2>1 DEF Claims, Pending
  <2>3. PICK keys : BuildChild(c, lo, hi, keys, "finish")
    BY <1>9, RightEffect
  <2>4. c \in Nat /\ Pending(Top, c) /\ lo \in Value /\ hi \in Value
    BY <1>9, RightEffect
  <2> HIDE DEF c, lo, hi
  <2> QED
    BY <1>7, <2>2, <2>3, <2>4
<1>10. CASE Finish
  <2>1. /\ \A m \in DOMAIN space : m # Top.idx => nodes'[m] = nodes[m]
        /\ UNCHANGED <<len, gen, space>> /\ Return
        /\ nodes'[Top.idx].child = Top.child /\ Top.child \in Nat /\ Top.pc = "finish"
    BY <1>1, <1>10, FinishEffect
  <2>2. Top.child # LEAF
    BY <2>1 DEF LEAF
  <2>3. /\ \A n : nodes'[Top.idx].child # LEAF
                     /\ n \in {nodes'[Top.idx].child, nodes'[Top.idx].child + 1} <=> Claims(Top, n)
        /\ \A n : ~Pending(Top, n)
    BY <2>1, <2>2 DEF Claims, Pending
  <2> QED
    BY <2>1, <2>3, FamilyPop
<1>11. ~NoNode /\ ~Overread /\ ~NoRuleList
  BY DEF NoNode, Overread, NoRuleList
<1> QED
  BY <1>2, <1>3, <1>5, <1>6, <1>8, <1>9, <1>10, <1>11 DEF Building

Families == pc \in {"building", "built"} => Family

LEMMA StepFamilies == IInv /\ Families /\ [Next]_vars => Families'
<1> SUFFICES ASSUME IInv, Families, [Next]_vars, pc' \in {"building", "built"} PROVE Family'
  BY DEF Families
<1>1. IInv'
  BY StepInv
<1>2. Tree' /\ Shape'
  BY <1>1 DEF IInv
<1>3. ASSUME NEW a \in Acls, NEW b, NEW own, PrepBuild(a, b, own) PROVE Family'
  <2> DEFINE f == Frame(0, 0)
  <2>1. stack' = <<f>> /\ len' = 1 /\ space' = [n \in {0} |-> Keys]
    BY <1>3 DEF PrepBuild
  <2>2. f.idx = 0 /\ f.pc = "enter"
    BY DEF Frame
  <2> HIDE DEF f
  <2>3. Len(stack') = 1 /\ stack'[1] = f /\ DOMAIN space' = {0}
    BY <2>1
  <2>4. \A n : ~Claims(f, n)
    BY <2>2 DEF Claims
  <2>5. 0 \in Active(stack')
    BY <2>2, <2>3 DEF Active
  <2>6. \A k \in 1..Len(stack') : k = 1
    BY <2>3
  <2>7. \A p \in DOMAIN space' : \A n : ~Parent(stack', nodes', space', p, n)
    BY <2>3, <2>4, <2>5, <2>6 DEF Parent
  <2>8. \A n \in 1..len' - 1 : FALSE
    BY <2>1
  <2>9. \A n \in 0..len' - 1 : n \in DOMAIN space'
    BY <2>1, <2>3
  <2>10. OneParent(stack', nodes', space', len')
    BY <2>7, <2>8 DEF OneParent
  <2>11. Reached(stack', space', len')
    BY <2>9 DEF Reached
  <2> QED
    BY <2>10, <2>11 DEF Family
<1>4. CASE Building
  <2>1. pc = "building"
    BY <1>4 DEF Building
  <2> QED
    BY <1>2, <1>4, <2>1, BuildingFamily DEF IInv, Families
<1>5. ASSUME UNCHANGED <<pc, nodes, len, stack, space>> PROVE Family'
  <2>1. Family
    BY <1>5 DEF Families
  <2> QED
    BY <1>5, <2>1 DEF Family
<1>6. ASSUME NEW own, PrepBuildFails(own) PROVE Family'
  BY <1>5, <1>6 DEF PrepBuildFails, mem
<1>7. CASE Lookup \/ UNCHANGED vars
  BY <1>5, <1>7, LookupSame DEF vars
<1>8. CASE FreeAll \/ CleanUp \/ CleanUpCrashes
  BY <1>8 DEF FreeAll, CleanUp, TreeFree, CleanUpCrashes
<1> QED
  BY <1>3, <1>4, <1>5, <1>6, <1>7, <1>8 DEF Next, Running, mem

LEMMA BuiltNodes ==
  ASSUME IInv, Families, pc = "built"
  PROVE  /\ len \in Nat /\ Active(stack) = {} /\ DOMAIN space = 0..len - 1 /\ Family
         /\ \A n \in 0..len - 1 : n \in DOMAIN nodes
<1>1. stack = <<>> /\ Tree /\ Family
  BY DEF IInv, Shape, Families
<1>2. Len(stack) = 0
  BY <1>1
<1>3. Active(stack) = {} /\ \A k \in 1..Len(stack) : FALSE
  BY <1>2 DEF Active
<1>4. \A n \in 0..len - 1 : n \in DOMAIN space
  BY <1>1, <1>3 DEF Family, Reached
<1>5. DOMAIN space \subseteq 0..len - 1
  BY <1>1 DEF Tree, SpaceOK
<1>6. len \in Nat /\ \A n \in 0..len - 1 : n \in DOMAIN nodes
  BY <1>1 DEF Tree, VecOK
<1> QED
  BY <1>1, <1>3, <1>4, <1>5, <1>6

LEMMA InvShaped == IInv /\ Families => TreeShaped
<1> SUFFICES ASSUME IInv, Families, pc = "built", NEW n \in 1..len - 1
             PROVE  Cardinality({p \in Inner : n \in {nodes[p].child, nodes[p].child + 1}}) = 1
  BY DEF TreeShaped
<1> DEFINE S == {p \in Inner : n \in {nodes[p].child, nodes[p].child + 1}}
<1>1. /\ len \in Nat /\ Active(stack) = {} /\ DOMAIN space = 0..len - 1 /\ Family
      /\ \A k \in 1..Len(stack) : FALSE
  <2>1. stack = <<>>
    BY DEF IInv, Shape
  <2>2. Len(stack) = 0
    BY <2>1
  <2> QED
    BY <2>2, BuiltNodes
<1>2. \A p \in DOMAIN space : Parent(stack, nodes, space, p, n) <=> p \in S
  BY <1>1 DEF Parent, Inner, Leaves
<1>3. S \subseteq DOMAIN space
  BY <1>1 DEF Inner
<1>4. PICK p \in DOMAIN space : Parent(stack, nodes, space, p, n)
  BY <1>1 DEF Family, OneParent
<1>5. \A q \in DOMAIN space : Parent(stack, nodes, space, q, n) => q = p
  BY <1>1, <1>4 DEF Family, OneParent
<1> HIDE DEF S
<1>6. S = {p}
  BY <1>2, <1>3, <1>4, <1>5
<1> QED
  BY <1>6, FS_Singleton DEF S

(* In a finished tree every node but the root is a child of just one node. *)
THEOREM AlwaysShaped == Spec => []TreeShaped
<1>1. Init => Families
  BY DEF Init, Families
<1>2. IInv /\ Families => TreeShaped
  BY InvShaped
<1> QED
  BY <1>1, <1>2, StepFamilies, TreeInvariant, PTL DEF Spec

-----------------------------------------------------------------------------
(* The blocks of a tree: its vector and a list for every node but the root *)
(* that has one, which are the nodes being built and the leaves.  A tree   *)
(* given up frees what it owns and owns all it holds, or it has lost a     *)
(* vector of more than one node, and crashes.  (A vector of one node may be*)
(* lost without a crash, so it has to begin with more.)                    *)

Held == live \ {<<"aux", 0>>}

WithRules == {n \in DOMAIN space \ {0} : nodes[n].rules # NoRules}

Blocks ==
  /\ Held = {<<"nodes", gen>>} \union {<<"rules", n>> : n \in WithRules}
  /\ \A n \in DOMAIN space \ {0} :
       nodes[n].rules # NoRules <=> n \in Active(stack) \/ nodes[n].child = LEAF
  /\ cap >= VEC_SIZE

Memory ==
  VEC_SIZE > 1 =>
    /\ pc = "empty" => Held = {}
    /\ pc \in {"building", "built"} => Blocks
    /\ pc = "failed" => IF gen = -1 THEN len > 1 ELSE Held \subseteq Owned

LEMMA BuildingBlocks ==
  ASSUME Shape, Tree, pc = "building", Blocks, Building, pc' \in {"building", "built"}
  PROVE  Blocks'
<1>1. /\ Top \in FrameType /\ Top.idx \in Active(stack) /\ Top.idx \in DOMAIN space
      /\ Top.idx \in DOMAIN nodes /\ len \in Nat /\ gen \in Nat /\ cap \in Nat
      /\ \A m \in DOMAIN space : m \in DOMAIN nodes /\ m \in 0..len - 1
  <2>1. \A m \in DOMAIN space : m \in DOMAIN nodes /\ m \in 0..len - 1
    BY DEF Tree, SpaceOK, VecOK
  <2>2. Top.idx \in Active(stack)
    BY TopIs DEF Active
  <2>3. cap \in Nat
    BY DEF Tree, VecOK
  <2> QED
    BY <2>1, <2>2, <2>3, TopFrame
<1>2. CASE Leaf
  <2>1. /\ Return /\ UNCHANGED <<gen, live, space>> /\ cap' = cap /\ nodes'[Top.idx].child = LEAF
        /\ \A m \in DOMAIN space : nodes'[m].rules = nodes[m].rules
        /\ \A m \in DOMAIN space : m # Top.idx => nodes'[m] = nodes[m]
    BY <1>1, <1>2, LeafEffect
  <2>2. Active(stack') = Active(stack) \ {Top.idx}
    BY <1>1, <2>1, Popped
  <2>3. WithRules' = WithRules
    BY <2>1 DEF WithRules
  <2> QED
    BY <1>1, <2>1, <2>2, <2>3 DEF Blocks, Held
<1>3. CASE Split
  <2>1. /\ UNCHANGED <<gen, live, space>> /\ cap' = cap
        /\ \A m \in DOMAIN space :
             nodes'[m].rules = nodes[m].rules /\ nodes'[m].child = nodes[m].child
    BY <1>1, <1>3, SplitEffect
  <2>2. Active(stack') = Active(stack)
    BY <1>3, SplitEffect, NewTop
  <2>3. WithRules' = WithRules
    BY <2>1 DEF WithRules
  <2> QED
    BY <2>1, <2>2, <2>3 DEF Blocks, Held
<1>4. ASSUME VecGet, UNCHANGED space, Active(stack') = Active(stack) PROVE Blocks'
  <2>1. /\ cap' >= cap /\ cap' \in Nat /\ \A m \in DOMAIN space : nodes'[m] = nodes[m]
        /\ \/ UNCHANGED <<nodes, gen, live>>
           \/ /\ gen' = gen + 1
              /\ live' = (live \ {<<"nodes", gen>>}) \union {<<"nodes", gen + 1>>}
    BY <1>1, <1>4, VecGetEffect DEF Tree
  <2>2. WithRules' = WithRules
    BY <1>4, <2>1 DEF WithRules
  <2>3. Held' = {<<"nodes", gen'>>} \union {<<"rules", n>> : n \in WithRules}
    <3> DEFINE R == {<<"rules", n>> : n \in WithRules}
    <3>1. Held = {<<"nodes", gen>>} \union R
      BY DEF Blocks
    <3>2. \A b \in R : b # <<"nodes", gen>> /\ b # <<"aux", 0>>
      OBVIOUS
    <3> HIDE DEF R
    <3>3. CASE UNCHANGED <<gen, live>>
      BY <3>1, <3>3 DEF Held, R
    <3>4. CASE /\ gen' = gen + 1
               /\ live' = (live \ {<<"nodes", gen>>}) \union {<<"nodes", gen + 1>>}
      <4>1. Held' = (Held \ {<<"nodes", gen>>}) \union {<<"nodes", gen + 1>>}
        BY <3>4 DEF Held
      <4>2. Held' = {<<"nodes", gen + 1>>} \union R
        BY <3>1, <3>2, <4>1
      <4> QED
        BY <3>4, <4>2 DEF R
    <3> QED
      BY <2>1, <3>3, <3>4
  <2>4. cap' >= VEC_SIZE
    BY <1>1, <2>1, VecAssumption DEF Blocks
  <2> QED
    BY <1>4, <2>1, <2>2, <2>3, <2>4 DEF Blocks
<1>5. CASE FirstChild
  <2>1. VecGet /\ UNCHANGED space
    BY <1>5, FirstChildEffect
  <2>2. Active(stack') = Active(stack)
    BY <1>5, FirstChildEffect, NewTop
  <2> QED
    BY <1>4, <2>1, <2>2
<1>6. CASE SecondChild
  <2>1. VecGet /\ UNCHANGED space
    BY <1>6, SecondChildEffect
  <2>2. Active(stack') = Active(stack)
    BY <1>6, SecondChildEffect, NewTop
  <2> QED
    BY <1>4, <2>1, <2>2
<1>7. ASSUME NEW c \in Nat, Pending(Top, c), NEW lo \in Value, NEW hi \in Value, NEW keys,
             NEW next \in {"right", "finish"}, BuildChild(c, lo, hi, keys, next)
      PROVE  Blocks'
  <2>1. /\ UNCHANGED gen /\ c \notin DOMAIN space /\ c \in 1..len - 1 /\ cap' = cap
        /\ \A m : m \in DOMAIN space' <=> m \in DOMAIN space \/ m = c
        /\ \A m \in DOMAIN nodes : m # c => nodes'[m] = nodes[m]
        /\ nodes'[c].rules # NoRules
        /\ live' = live \union {<<"rules", c>>}
    BY <1>7, ChildEffect
  <2>2. \E f \in FrameType, g \in FrameType :
          stack' = Append(SetTop(f), g) /\ f.idx = Top.idx /\ g.idx = c
    BY <1>7, ChildEffect
  <2>3. PICK f \in FrameType, g \in FrameType :
          stack' = Append(SetTop(f), g) /\ f.idx = Top.idx /\ g.idx = c
    BY <2>2
  <2>4. Active(stack') = Active(stack) \union {c}
    BY <2>3, Pushed
  <2>5. \A m \in DOMAIN space : nodes'[m] = nodes[m] /\ m # c
    BY <1>1, <2>1
  <2>6. \A n : n \in WithRules' <=> n \in WithRules \/ n = c
    BY <2>1, <2>5 DEF WithRules
  <2>7. Held' = Held \union {<<"rules", c>>}
    BY <2>1 DEF Held
  <2>8. Held' = {<<"nodes", gen>>} \union {<<"rules", n>> : n \in WithRules'}
    BY <2>6, <2>7 DEF Blocks
  <2>9. \A n \in DOMAIN space' \ {0} :
          nodes'[n].rules # NoRules <=> n \in Active(stack') \/ nodes'[n].child = LEAF
    <3> SUFFICES ASSUME NEW n \in DOMAIN space' \ {0}
                 PROVE  nodes'[n].rules # NoRules <=> n \in Active(stack') \/ nodes'[n].child = LEAF
      OBVIOUS
    <3>1. CASE n = c
      BY <3>1, <2>1, <2>4
    <3>2. CASE n # c
      BY <3>2, <2>1, <2>4, <2>5 DEF Blocks
    <3> QED
      BY <3>1, <3>2
  <2> QED
    BY <2>1, <2>8, <2>9 DEF Blocks
<1>8. CASE Left
  <2> DEFINE c == Top.child
             lo == Top.low
             hi == Top.thresh
  <2>1. c \in Nat /\ Pending(Top, c) /\ lo \in Value /\ hi \in Value
    BY <1>8, LeftEffect
  <2>2. PICK keys : BuildChild(c, lo, hi, keys, "right")
    BY <1>8, LeftEffect
  <2> HIDE DEF c, lo, hi
  <2> QED
    BY <1>7, <2>1, <2>2
<1>9. CASE Right
  <2> DEFINE c == Top.child + 1
             lo == Top.thresh + 1
             hi == Top.high
  <2>1. c \in Nat /\ Pending(Top, c) /\ lo \in Value /\ hi \in Value
    BY <1>9, RightEffect
  <2>2. PICK keys : BuildChild(c, lo, hi, keys, "finish")
    BY <1>9, RightEffect
  <2> HIDE DEF c, lo, hi
  <2> QED
    BY <1>7, <2>1, <2>2
<1>10. CASE Finish
  <2> DEFINE t == Top.idx
  <2>1. /\ Return /\ UNCHANGED <<gen, space>> /\ cap' = cap /\ nodes'[t].child # LEAF
        /\ nodes'[t].rules = (IF t = 0 THEN nodes[t].rules ELSE NoRules)
        /\ \A m \in DOMAIN space : m # t => nodes'[m] = nodes[m]
        /\ live' = IF t = 0 THEN live ELSE live \ {<<"rules", t>>}
    BY <1>1, <1>10, FinishEffect DEF LEAF, Here
  <2>2. Active(stack') = Active(stack) \ {t}
    BY <1>1, <2>1, Popped
  <2>3. t \in DOMAIN space
    BY <1>1
  <2> HIDE DEF t
  <2>4. \A n : n \in WithRules' <=> n \in WithRules /\ n # t
    <3>1. CASE t = 0
      BY <3>1, <2>1 DEF WithRules
    <3>2. CASE t # 0
      BY <3>2, <2>1 DEF WithRules
    <3> QED
      BY <3>1, <3>2
  <2>5. Held' = {<<"nodes", gen>>} \union {<<"rules", n>> : n \in WithRules'}
    <3>1. Held' = Held \ {<<"rules", t>>}
      <4>1. CASE t = 0
        <5>1. Held' = Held
          BY <4>1, <2>1 DEF Held
        <5>2. <<"rules", t>> \notin Held
          BY <4>1 DEF Blocks, WithRules
        <5> QED
          BY <5>1, <5>2
      <4>2. CASE t # 0
        BY <4>2, <2>1 DEF Held
      <4> QED
        BY <4>1, <4>2
    <3> QED
      BY <3>1, <2>4 DEF Blocks
  <2>6. \A n \in DOMAIN space \ {0} :
          nodes'[n].rules # NoRules <=> n \in Active(stack') \/ nodes'[n].child = LEAF
    <3> SUFFICES ASSUME NEW n \in DOMAIN space \ {0}
                 PROVE  nodes'[n].rules # NoRules <=> n \in Active(stack') \/ nodes'[n].child = LEAF
      OBVIOUS
    <3>1. CASE n = t
      BY <3>1, <2>1, <2>2
    <3>2. CASE n # t
      BY <3>2, <2>1, <2>2 DEF Blocks
    <3> QED
      BY <3>1, <3>2
  <2> QED
    BY <2>1, <2>5, <2>6 DEF Blocks
<1>11. ~NoNode /\ ~Overread /\ ~NoRuleList
  BY DEF NoNode, Overread, NoRuleList
<1> QED
  BY <1>2, <1>3, <1>5, <1>6, <1>8, <1>9, <1>10, <1>11 DEF Building

LEMMA FailingBlocks ==
  ASSUME Shape, Tree, pc = "building", Blocks, NoNode \/ NoRuleList, VEC_SIZE > 1
  PROVE  IF gen' = -1 THEN len' > 1 ELSE Held' \subseteq Owned'
<1>1. /\ Top \in FrameType /\ FrameOK(Top, nodes, len, space, acl, gen)
      /\ len \in Nat /\ gen \in Nat /\ cap \in Nat
      /\ \A m \in DOMAIN space : m \in DOMAIN nodes /\ m \in 0..len - 1
  <2>1. \A m \in DOMAIN space : m \in DOMAIN nodes /\ m \in 0..len - 1
    BY DEF Tree, SpaceOK, VecOK
  <2>2. cap \in Nat
    BY DEF Tree, VecOK
  <2> QED
    BY <2>1, <2>2, TopFrame
<1>2. CASE NoNode
  <2>1. gen' = -1 /\ len' = len /\ len = cap
    BY <1>2 DEF NoNode
  <2>2. len > 1
    BY <1>1, <2>1, VecAssumption DEF Blocks
  <2> QED
    BY <2>1, <2>2
<1>3. CASE NoRuleList
  <2> DEFINE c == IF Top.pc = "left" THEN Top.child ELSE Top.child + 1
  <2>1. /\ nodes' = [nodes EXCEPT ![c].rules = NoRules] /\ UNCHANGED <<len, gen, live>>
        /\ Pending(Top, c)
    BY <1>3 DEF NoRuleList, Pending
  <2>2. c \notin DOMAIN space
    BY <1>1, <2>1 DEF FrameOK
  <2> HIDE DEF c
  <2>3. \A m \in DOMAIN space : nodes'[m] = nodes[m]
    BY <1>1, <2>1, <2>2
  <2>4. \A n \in WithRules : n \in 1..len - 1 /\ nodes'[n].rules # NoRules
    BY <1>1, <2>3 DEF WithRules
  <2>5. Held \subseteq Owned'
    <3>1. Held = {<<"nodes", gen>>} \union {<<"rules", n>> : n \in WithRules}
      BY DEF Blocks
    <3>2. Owned' = {<<"rules", n>> : n \in {n \in 1..len - 1 : nodes'[n].rules # NoRules}}
                     \union {<<"nodes", gen>>}
      BY <2>1 DEF Owned
    <3> QED
      BY <2>4, <3>1, <3>2
  <2> QED
    BY <1>1, <2>1, <2>5 DEF Held
<1> QED
  BY <1>2, <1>3

LEMMA StepMemory == IInv /\ Memory /\ [Next]_vars => Memory'
<1> SUFFICES ASSUME IInv, Memory, [Next]_vars, VEC_SIZE > 1
             PROVE  /\ pc' = "empty" => Held' = {}
                    /\ pc' \in {"building", "built"} => Blocks'
                    /\ pc' = "failed" => IF gen' = -1 THEN len' > 1 ELSE Held' \subseteq Owned'
  BY DEF Memory
<1> DEFINE M == /\ pc' = "empty" => Held' = {}
                /\ pc' \in {"building", "built"} => Blocks'
                /\ pc' = "failed" => IF gen' = -1 THEN len' > 1 ELSE Held' \subseteq Owned'
<1>1. /\ pc = "empty" => Held = {}
      /\ pc \in {"building", "built"} => Blocks
      /\ pc = "failed" => IF gen = -1 THEN len > 1 ELSE Held \subseteq Owned
  BY DEF Memory
<1>2. ASSUME pc = "empty", NEW a \in Acls, NEW b, NEW own, PrepBuild(a, b, own) PROVE M
  <2>1. /\ pc' = "building" /\ gen' = 0 /\ DOMAIN space' = {0} /\ DOMAIN nodes' = 0..VEC_SIZE - 1
        /\ live' = live \union {<<"nodes", 0>>} \union (IF own THEN {<<"aux", 0>>} ELSE {})
    BY <1>2 DEF PrepBuild
  <2>2. Held' = {<<"nodes", 0>>}
    BY <1>1, <1>2, <2>1 DEF Held
  <2>3. WithRules' = {}
    BY <2>1 DEF WithRules
  <2>4. cap' >= VEC_SIZE
    <3>1. VEC_SIZE \in Nat /\ VEC_SIZE # 0
      BY VecAssumption
    <3>2. cap' = Cardinality(0..VEC_SIZE - 1)
      BY <2>1 DEF cap
    <3>3. cap' = VEC_SIZE
      BY <3>1, <3>2, FS_Interval
    <3> QED
      BY <3>1, <3>3
  <2>5. Blocks'
    BY <2>1, <2>2, <2>3, <2>4 DEF Blocks
  <2> QED
    BY <2>1, <2>5
<1>3. ASSUME UNCHANGED <<pc, nodes, len, gen, live, stack, space>> PROVE M
  <2>1. Held' = Held /\ Owned' = Owned /\ WithRules' = WithRules /\ cap' = cap
    BY <1>3 DEF Held, Owned, WithRules, cap
  <2>2. Blocks => Blocks'
    BY <1>3, <2>1 DEF Blocks
  <2> QED
    BY <1>1, <1>3, <2>1, <2>2
<1>4. CASE Building
  <2>1. pc = "building" /\ Shape /\ Tree /\ Blocks
    BY <1>1, <1>4 DEF Building, IInv
  <2>2. CASE pc' \in {"building", "built"}
    BY <1>4, <2>1, <2>2, BuildingBlocks
  <2>3. CASE NoNode \/ NoRuleList
    <3>1. pc' = "failed"
      BY <2>3 DEF NoNode, NoRuleList
    <3> QED
      BY <2>1, <2>3, <3>1, FailingBlocks
  <2>4. CASE Overread
    BY <2>4 DEF Overread
  <2>5. \/ pc' \in {"building", "built"} \/ NoNode \/ NoRuleList \/ Overread
    BY <1>4, <2>1 DEF Building, Leaf, Split, FirstChild, SecondChild, Left, Right, Finish,
                      BuildChild, Return
  <2> QED
    BY <2>2, <2>3, <2>4, <2>5
<1>5. CASE FreeAll
  <2>1. Blocks /\ Tree /\ pc' = "empty" /\ live' = live \ Owned
    BY <1>1, <1>5 DEF FreeAll, TreeFree, IInv
  <2>2. \A n \in WithRules : n \in 1..len - 1 /\ nodes[n].rules # NoRules
    <3>1. len \in Nat /\ \A n \in DOMAIN space : n \in 0..len - 1
      BY <2>1 DEF Tree, SpaceOK, VecOK
    <3> QED
      BY <3>1 DEF WithRules
  <2>3. Held \subseteq Owned
    BY <2>1, <2>2 DEF Blocks, Owned
  <2> QED
    BY <2>1, <2>3 DEF Held
<1>6. CASE CleanUp
  <2>1. pc = "failed" /\ ~NullVec /\ pc' = "empty" /\ live' = live \ Owned
    BY <1>6 DEF CleanUp, TreeFree
  <2>2. Held \subseteq Owned
    BY <1>1, <2>1 DEF NullVec
  <2> QED
    BY <2>1, <2>2 DEF Held
<1>7. CASE CleanUpCrashes
  BY <1>7 DEF CleanUpCrashes
<1>8. ASSUME NEW own, PrepBuildFails(own) PROVE M
  BY <1>3, <1>8 DEF PrepBuildFails, mem
<1>9. CASE Lookup \/ UNCHANGED vars
  BY <1>3, <1>9, LookupSame DEF vars
<1> HIDE DEF M
<1>10. ASSUME NEW key \in Keys, LookupStart(key),
              UNCHANGED <<pc, acl, bucket, stack, info, space>>, UNCHANGED mem
       PROVE  M
  BY <1>3, <1>10 DEF mem
<1>11. M
  BY <1>2, <1>4, <1>5, <1>6, <1>7, <1>8, <1>9, <1>10 DEF Next, Running, M
<1> QED
  BY <1>11 DEF M

LEMMA InvOwned == VEC_SIZE > 1 /\ IInv /\ Families /\ Memory => MemoryOwned
<1> SUFFICES ASSUME VEC_SIZE > 1, IInv, Families, Memory PROVE MemoryOwned
  OBVIOUS
<1>1. pc = "empty" => Held = {}
  BY DEF Memory
<1>2. ASSUME pc = "built"
      PROVE  Held = {<<"nodes", gen>>} \union {<<"rules", n>> : n \in Leaves \ {0}}
  <2>1. Blocks
    BY <1>2 DEF Memory
  <2>2. Active(stack) = {} /\ DOMAIN space = 0..len - 1
    BY <1>2, BuiltNodes
  <2>3. WithRules = Leaves \ {0}
    BY <2>1, <2>2 DEF Blocks, WithRules, Leaves
  <2> QED
    BY <2>1, <2>3 DEF Blocks
<1> QED
  BY <1>1, <1>2 DEF MemoryOwned, Held

(* A finished tree holds its vector and one list per leaf, and after       *)
(* hs_free_all or a build that failed nothing is left behind, if the vector*)
(* begins with more than one node, as it does in the code.                 *)
THEOREM AlwaysMemoryOwned == VEC_SIZE > 1 => (Spec => []MemoryOwned)
<1> SUFFICES ASSUME VEC_SIZE > 1 PROVE Spec => []MemoryOwned
  OBVIOUS
<1>1. Init => Families /\ Memory
  BY DEF Init, Families, Memory, Held
<1>2. IInv /\ Families /\ Memory => MemoryOwned
  BY InvOwned
<1> QED
  BY <1>1, <1>2, StepFamilies, StepMemory, TreeInvariant, PTL DEF Spec

-----------------------------------------------------------------------------
(* hs_tree_info's numbers are those of the leaves finished so far.  A      *)
(* node's depth is a byte, so this is said of trees less than 256 deep.    *)

InfoType == [NumTreeNode : Nat, NumLeafNode : Nat, WstDepth : Nat, AvgDepth : Nat,
             MaxLeafNum : Nat, MaxL_D : Nat, MaxL_N : Nat, MaxRulesinLeaf : Nat,
             RulePointers : Nat]

Highest(v, S) == /\ v \in Nat /\ \A x \in S : x \in Nat /\ x <= v
                 /\ S # {} => v \in S
                 /\ S = {} => v = 0

Size(nd)       == Cardinality(DOMAIN nd.rules)
Lists(L, nds)  == UNION {{n} \X DOMAIN nds[n].rules : n \in L}
Levels(L, nds) == UNION {{n} \X (1..nds[n].depth) : n \in L}

Tally(i, L, nds) ==
  /\ Highest(i.WstDepth, {nds[n].depth : n \in L})
  /\ Highest(i.MaxRulesinLeaf, {Size(nds[n]) : n \in L})
  /\ Highest(i.MaxLeafNum, {Size(nds[n]) + nds[n].depth : n \in L})
  /\ IsFiniteSet(Levels(L, nds)) /\ i.AvgDepth = Cardinality(Levels(L, nds))
  /\ IsFiniteSet(Lists(L, nds)) /\ i.RulePointers = Cardinality(Lists(L, nds))
  /\ L # {} => \E n \in L : i.MaxL_D = nds[n].depth /\ i.MaxL_N = Size(nds[n])
  /\ i.MaxLeafNum = i.MaxL_D + i.MaxL_N

DoneLeaves == {n \in DOMAIN space \ Active(stack) : nodes[n].child = LEAF}

(* One node is begun that is neither counted as a leaf nor as split.       *)
Begun == IF pc = "building" /\ Top.pc = "enter" THEN 1 ELSE 0

(* The innermost activation has had no child return to it.                 *)
Unreturned == pc = "building" /\ Top.pc \in {"enter", "child1", "child2", "left"}

Counts ==
  /\ info \in InfoType
  /\ info.NumLeafNode = Cardinality(DoneLeaves)
  /\ info.NumTreeNode + info.NumLeafNode + Begun = Cardinality(DOMAIN space)
  /\ info.WstDepth < 256 => Tally(info, DoneLeaves, nodes)
  /\ DoneLeaves # {} \/ Unreturned

Counted == pc \in {"building", "built"} => Counts

LEMMA MaxOfTwo ==
  ASSUME NEW a \in Nat, NEW b \in Nat
  PROVE  Max({a, b}) = (IF a >= b THEN a ELSE b)
<1>1. \E x \in {a, b} : \A y \in {a, b} : x >= y
  OBVIOUS
<1>2. Max({a, b}) \in {a, b} /\ \A y \in {a, b} : Max({a, b}) >= y
  BY <1>1 DEF Max
<1> HIDE DEF Max
<1> QED
  BY <1>2

LEMMA HighestIsMax ==
  ASSUME NEW v, NEW S, Highest(v, S), S # {}
  PROVE  v = Max(S)
<1>1. v \in S /\ v \in Nat /\ \A x \in S : x \in Nat /\ v >= x
  BY DEF Highest
<1>2. Max(S) \in S /\ \A y \in S : Max(S) >= y
  BY <1>1 DEF Max
<1> HIDE DEF Max
<1>3. Max(S) \in Nat
  BY <1>1, <1>2
<1> QED
  BY <1>1, <1>2, <1>3

LEMMA HighestAdd ==
  ASSUME NEW v, NEW S, Highest(v, S), NEW x \in Nat, NEW w \in Nat,
         w = (IF v >= x THEN v ELSE x)
  PROVE  Highest(w, S \union {x})
<1>1. v \in Nat /\ \A y \in S : y \in Nat /\ y <= v
  BY DEF Highest
<1>2. \A y \in S \union {x} : y \in Nat /\ y <= w
  BY <1>1
<1>3. w \in S \union {x}
  <2>1. CASE S = {}
    BY <2>1, <1>1 DEF Highest
  <2>2. CASE S # {}
    BY <2>2, <1>1 DEF Highest
  <2> QED
    BY <2>1, <2>2
<1> QED
  BY <1>2, <1>3 DEF Highest

(* A number per element is summed as the pairs of an element and a member. *)
LEMMA PairsOf ==
  ASSUME NEW t, NEW S, IsFiniteSet(S)
  PROVE  IsFiniteSet({t} \X S) /\ Cardinality({t} \X S) = Cardinality(S)
<1>1. IsFiniteSet({t}) /\ Cardinality({t}) = 1
  BY FS_Singleton
<1>2. IsFiniteSet({t} \X S) /\ Cardinality({t} \X S) = 1 * Cardinality(S)
  BY <1>1, FS_Product
<1>3. Cardinality(S) \in Nat
  BY FS_CardinalityType
<1> QED
  BY <1>2, <1>3

LEMMA TallyKept ==
  ASSUME NEW L, NEW nds, NEW nds2, \A n \in L : nds2[n] = nds[n], NEW i, Tally(i, L, nds)
  PROVE  Tally(i, L, nds2)
<1>1. /\ {nds2[n].depth : n \in L} = {nds[n].depth : n \in L}
      /\ {Size(nds2[n]) : n \in L} = {Size(nds[n]) : n \in L}
      /\ {Size(nds2[n]) + nds2[n].depth : n \in L} = {Size(nds[n]) + nds[n].depth : n \in L}
  OBVIOUS
<1>2. Lists(L, nds2) = Lists(L, nds) /\ Levels(L, nds2) = Levels(L, nds)
  BY DEF Lists, Levels
<1> QED
  BY <1>1, <1>2 DEF Tally

(* What a leaf t of depth e and s rules adds.                              *)
LEMMA TallyLeaf ==
  ASSUME NEW L, NEW t, t \notin L, NEW nds, NEW nds2, \A n \in L : nds2[n] = nds[n],
         NEW i \in InfoType, Tally(i, L, nds), NEW j \in InfoType,
         NEW e \in Nat, nds2[t].depth = e, IsFiniteSet(DOMAIN nds2[t].rules),
         NEW s \in Nat, s = Size(nds2[t]),
         j.WstDepth = Max({i.WstDepth, e}), j.AvgDepth = i.AvgDepth + e,
         j.RulePointers = i.RulePointers + s, j.MaxRulesinLeaf = Max({i.MaxRulesinLeaf, s}),
         IF s + e > i.MaxLeafNum
           THEN j.MaxLeafNum = s + e /\ j.MaxL_D = e /\ j.MaxL_N = s
           ELSE j.MaxLeafNum = i.MaxLeafNum /\ j.MaxL_D = i.MaxL_D /\ j.MaxL_N = i.MaxL_N
  PROVE  Tally(j, L \union {t}, nds2)
<1> DEFINE M == L \union {t}
<1>1. Tally(i, L, nds2)
  BY TallyKept
<1>2. /\ {nds2[n].depth : n \in M} = {nds2[n].depth : n \in L} \union {e}
      /\ {Size(nds2[n]) : n \in M} = {Size(nds2[n]) : n \in L} \union {s}
      /\ {Size(nds2[n]) + nds2[n].depth : n \in M}
           = {Size(nds2[n]) + nds2[n].depth : n \in L} \union {s + e}
  OBVIOUS
<1>3. /\ Lists(M, nds2) = Lists(L, nds2) \union ({t} \X DOMAIN nds2[t].rules)
      /\ Levels(M, nds2) = Levels(L, nds2) \union ({t} \X (1..e))
  BY DEF Lists, Levels
<1>4. /\ \A p \in Lists(L, nds2) : p[1] # t
      /\ \A p \in Levels(L, nds2) : p[1] # t
  BY DEF Lists, Levels
<1>5. IsFiniteSet(1..e) /\ Cardinality(1..e) = e
  <2>1. 1 \in Int /\ e \in Int
    OBVIOUS
  <2>2. /\ IsFiniteSet(1..e) /\ Cardinality(1..e) = IF 1 > e THEN 0 ELSE e - 1 + 1
    BY <2>1, FS_Interval
  <2> QED
    BY <2>2
<1>6. /\ i.WstDepth \in Nat /\ i.MaxRulesinLeaf \in Nat /\ i.MaxLeafNum \in Nat
      /\ i.MaxL_D \in Nat /\ i.MaxL_N \in Nat /\ j.MaxLeafNum \in Nat
      /\ j.WstDepth \in Nat /\ j.MaxRulesinLeaf \in Nat
  BY DEF InfoType
<1>7. Highest(j.WstDepth, {nds2[n].depth : n \in M})
  <2>1. Highest(i.WstDepth, {nds2[n].depth : n \in L})
    BY <1>1 DEF Tally
  <2>2. j.WstDepth = (IF i.WstDepth >= e THEN i.WstDepth ELSE e)
    BY <1>6, MaxOfTwo
  <2> QED
    BY <2>1, <2>2, <1>2, <1>6, HighestAdd
<1>8. Highest(j.MaxRulesinLeaf, {Size(nds2[n]) : n \in M})
  <2>1. Highest(i.MaxRulesinLeaf, {Size(nds2[n]) : n \in L})
    BY <1>1 DEF Tally
  <2>2. j.MaxRulesinLeaf = (IF i.MaxRulesinLeaf >= s THEN i.MaxRulesinLeaf ELSE s)
    BY <1>6, MaxOfTwo
  <2> QED
    BY <2>1, <2>2, <1>2, <1>6, HighestAdd
<1>9. Highest(j.MaxLeafNum, {Size(nds2[n]) + nds2[n].depth : n \in M})
  <2>1. Highest(i.MaxLeafNum, {Size(nds2[n]) + nds2[n].depth : n \in L})
    BY <1>1 DEF Tally
  <2>2. s + e \in Nat /\ j.MaxLeafNum = (IF i.MaxLeafNum >= s + e THEN i.MaxLeafNum ELSE s + e)
    BY <1>6
  <2> QED
    BY <2>1, <2>2, <1>2, <1>6, HighestAdd
<1>10. IsFiniteSet(Levels(M, nds2)) /\ j.AvgDepth = Cardinality(Levels(M, nds2))
  <2>1. IsFiniteSet(Levels(L, nds2)) /\ i.AvgDepth = Cardinality(Levels(L, nds2))
    BY <1>1 DEF Tally
  <2> DEFINE U == Levels(L, nds2)
             S == 1..e
             W == {t} \X S
  <2>2. IsFiniteSet(S) /\ Cardinality(S) = e /\ U \intersect W = {}
    BY <1>4, <1>5
  <2>3. Levels(M, nds2) = U \union W
    BY <1>3
  <2>4. IsFiniteSet(U) /\ i.AvgDepth = Cardinality(U)
    BY <2>1
  <2>5. IsFiniteSet(W) /\ Cardinality(W) = Cardinality(S)
    BY <2>2, PairsOf
  <2> HIDE DEF U, S, W, M
  <2>6. IsFiniteSet(U \union W) /\ Cardinality(U \union W) = Cardinality(U) + Cardinality(S)
    <3>1. Cardinality(U \intersect W) = 0
      BY <2>2, FS_EmptySet
    <3>2. Cardinality(U) \in Nat /\ Cardinality(S) \in Nat
      BY <2>2, <2>4, FS_CardinalityType
    <3>3. /\ IsFiniteSet(U \union W)
          /\ Cardinality(U \union W)
               = Cardinality(U) + Cardinality(W) - Cardinality(U \intersect W)
      BY <2>4, <2>5, FS_Union
    <3> QED
      BY <2>5, <3>1, <3>2, <3>3
  <2> QED
    BY <2>2, <2>3, <2>4, <2>6
<1>11. IsFiniteSet(Lists(M, nds2)) /\ j.RulePointers = Cardinality(Lists(M, nds2))
  <2>1. IsFiniteSet(Lists(L, nds2)) /\ i.RulePointers = Cardinality(Lists(L, nds2))
    BY <1>1 DEF Tally
  <2> DEFINE U == Lists(L, nds2)
             S == DOMAIN nds2[t].rules
             W == {t} \X S
  <2>2. IsFiniteSet(S) /\ Cardinality(S) = s /\ U \intersect W = {}
    BY <1>4 DEF Size
  <2>3. Lists(M, nds2) = U \union W
    BY <1>3
  <2>4. IsFiniteSet(U) /\ i.RulePointers = Cardinality(U)
    BY <2>1
  <2>5. IsFiniteSet(W) /\ Cardinality(W) = Cardinality(S)
    BY <2>2, PairsOf
  <2> HIDE DEF U, S, W, M
  <2>6. IsFiniteSet(U \union W) /\ Cardinality(U \union W) = Cardinality(U) + Cardinality(S)
    <3>1. Cardinality(U \intersect W) = 0
      BY <2>2, FS_EmptySet
    <3>2. Cardinality(U) \in Nat /\ Cardinality(S) \in Nat
      BY <2>2, <2>4, FS_CardinalityType
    <3>3. /\ IsFiniteSet(U \union W)
          /\ Cardinality(U \union W)
               = Cardinality(U) + Cardinality(W) - Cardinality(U \intersect W)
      BY <2>4, <2>5, FS_Union
    <3> QED
      BY <2>5, <3>1, <3>2, <3>3
  <2> QED
    BY <2>2, <2>3, <2>4, <2>6
<1>12. /\ \E n \in M : j.MaxL_D = nds2[n].depth /\ j.MaxL_N = Size(nds2[n])
       /\ j.MaxLeafNum = j.MaxL_D + j.MaxL_N
  <2>1. CASE s + e > i.MaxLeafNum
    BY <2>1
  <2>2. CASE ~(s + e > i.MaxLeafNum) /\ L # {}
    BY <2>2, <1>1 DEF Tally
  <2>3. CASE ~(s + e > i.MaxLeafNum) /\ L = {}
    <3>1. i.MaxLeafNum = 0 /\ i.MaxLeafNum = i.MaxL_D + i.MaxL_N
      BY <2>3, <1>1 DEF Tally, Highest
    <3>2. i.MaxL_D = 0 /\ i.MaxL_N = 0 /\ s = 0 /\ e = 0
      BY <2>3, <3>1, <1>6
    <3> QED
      BY <2>3, <3>1, <3>2
  <2> QED
    BY <2>1, <2>2, <2>3
<1> QED
  BY <1>7, <1>8, <1>9, <1>10, <1>11, <1>12 DEF Tally

LEMMA SpaceFinite ==
  ASSUME Tree
  PROVE  /\ IsFiniteSet(DOMAIN space) /\ Cardinality(DOMAIN space) \in Nat
         /\ IsFiniteSet(DoneLeaves) /\ Cardinality(DoneLeaves) \in Nat
         /\ \A n \in DOMAIN space : n \in DOMAIN nodes /\ n \in 0..len - 1
<1>1. len \in Nat /\ DOMAIN space \subseteq 0..len - 1
      /\ \A n \in 0..len - 1 : n \in DOMAIN nodes
  BY DEF Tree, VecOK, SpaceOK
<1>2. IsFiniteSet(0..len - 1)
  BY <1>1, FS_Interval
<1>3. IsFiniteSet(DOMAIN space)
  BY <1>1, <1>2, FS_Subset
<1>4. IsFiniteSet(DoneLeaves)
  BY <1>3, FS_Subset DEF DoneLeaves
<1> QED
  BY <1>1, <1>3, <1>4, FS_CardinalityType

LEMMA ListFinite ==
  ASSUME Shape, Tree, pc = "building"
  PROVE  IsFiniteSet(DOMAIN Here.rules) /\ Size(Here) \in Nat
<1>1. Here.rules = Stray \/ DOMAIN Here.rules \subseteq DOMAIN acl
  BY TopFrame DEF FrameOK, Here, ListOf
<1>2. acl \in Seq(Rule)
  BY AclsAssumption DEF Shape
<1>3. DOMAIN acl = 1..Len(acl) /\ Len(acl) \in Nat
  BY <1>2
<1>4. IsFiniteSet(DOMAIN acl)
  BY <1>3, FS_Interval
<1>5. IsFiniteSet(DOMAIN Here.rules)
  BY <1>1, <1>4, FS_Subset, FS_Singleton DEF Stray
<1> QED
  BY <1>5, FS_CardinalityType DEF Size

(* An activation that returns does so to one that has split.               *)
LEMMA PoppedBegun ==
  ASSUME Shape, Tree, pc = "building", gen' \in Int, Return
  PROVE  Begun' = 0
<1> DEFINE h == Len(stack)
<1>1. /\ h \in Nat \ {0} /\ Top = stack[h] /\ Len(stack') = h - 1
      /\ \A k \in 1..h - 1 : stack'[k].pc = stack[k].pc
  BY TopIs, Popped DEF Outer
<1>2. CASE h = 1
  BY <1>2 DEF Return, Begun
<1>3. CASE h # 1
  <2> HIDE DEF h
  <2>1. h - 1 \in 1..h - 1 /\ h - 1 \in 1..h /\ h \in 1..h /\ h - 1 < h
    BY <1>1, <1>3
  <2>2. Apart(stack[h - 1], stack[h])
    BY <2>1 DEF Tree, Frames, h
  <2>3. stack'[h - 1].pc \in {"right", "finish"}
    BY <1>1, <2>1, <2>2 DEF Apart
  <2>4. Top'.pc # "enter"
    BY <1>1, <2>3 DEF Top
  <2> QED
    BY <2>4 DEF Begun
<1> QED
  BY <1>2, <1>3

LEMMA LeafCounts ==
  ASSUME Shape, Tree, pc = "building", Leaf, info \in InfoType
  PROVE  LET e == Depth
             s == Size(Here)
         IN  /\ e \in Nat /\ info' \in InfoType
             /\ nodes'[Top.idx].depth = e % 256
             /\ info'.NumLeafNode = info.NumLeafNode + 1
             /\ info'.NumTreeNode = info.NumTreeNode
             /\ info'.WstDepth = Max({info.WstDepth, e})
             /\ info'.AvgDepth = info.AvgDepth + e
             /\ info'.RulePointers = info.RulePointers + s
             /\ info'.MaxRulesinLeaf = Max({info.MaxRulesinLeaf, s})
             /\ IF s + e > info.MaxLeafNum
                  THEN info'.MaxLeafNum = s + e /\ info'.MaxL_D = e /\ info'.MaxL_N = s
                  ELSE /\ info'.MaxLeafNum = info.MaxLeafNum
                       /\ info'.MaxL_D = info.MaxL_D /\ info'.MaxL_N = info.MaxL_N
<1> DEFINE e == Depth
           s == Size(Here)
           w == Max({info.WstDepth, e})
           r == Max({info.MaxRulesinLeaf, s})
<1>1. e \in Nat /\ s \in Nat
  BY TopIs, ListFinite DEF Depth
<1>2. w \in Nat /\ r \in Nat
  <2>1. info.WstDepth \in Nat /\ info.MaxRulesinLeaf \in Nat
    BY DEF InfoType
  <2> HIDE DEF e, s
  <2> QED
    BY <1>1, <2>1, MaxOfTwo
<1> DEFINE a == info.NumLeafNode + 1
           b == info.RulePointers + s
           c == info.AvgDepth + e
           m == IF s + e > info.MaxLeafNum THEN s + e ELSE info.MaxLeafNum
           d == IF s + e > info.MaxLeafNum THEN e ELSE info.MaxL_D
           n == IF s + e > info.MaxLeafNum THEN s ELSE info.MaxL_N
<1>3. info' = [info EXCEPT !.NumLeafNode = a, !.RulePointers = b, !.WstDepth = w, !.AvgDepth = c,
                           !.MaxLeafNum = m, !.MaxL_D = d, !.MaxL_N = n, !.MaxRulesinLeaf = r]
  BY DEF Leaf, CountLeaf, Size
<1>4. nodes'[Top.idx].depth = e % 256
  <2>1. Top.idx \in DOMAIN nodes
    BY TopFrame
  <2>2. IsNode(nodes[Top.idx])
    BY <2>1 DEF Tree, VecOK
  <2>3. nodes' = [nodes EXCEPT ![Top.idx] = MarkLeaf(nodes[Top.idx])]
    BY DEF Leaf
  <2> QED
    BY <2>1, <2>2, <2>3 DEF MarkLeaf, IsNode
<1>5. a \in Nat /\ b \in Nat /\ c \in Nat /\ m \in Nat /\ d \in Nat /\ n \in Nat
  <2> HIDE DEF e, s
  <2> QED
    BY <1>1 DEF InfoType
<1> HIDE DEF a, b, c, d, m, n, e, s, w, r
<1>6. info' \in InfoType
  BY <1>2, <1>3, <1>5 DEF InfoType
<1>7. /\ info'.NumLeafNode = a /\ info'.NumTreeNode = info.NumTreeNode
      /\ info'.WstDepth = w /\ info'.AvgDepth = c /\ info'.RulePointers = b
      /\ info'.MaxRulesinLeaf = r /\ info'.MaxLeafNum = m
      /\ info'.MaxL_D = d /\ info'.MaxL_N = n
  BY <1>3 DEF InfoType
<1> QED
  BY <1>1, <1>4, <1>6, <1>7 DEF a, b, c, d, m, n, e, s, w, r

(* A step that finishes no leaf: the tally is what it was.                 *)
LEMMA CountsKept ==
  ASSUME Counts, DoneLeaves' = DoneLeaves, \A n \in DoneLeaves : nodes'[n] = nodes[n],
         info' = info \/ info' = [info EXCEPT !.NumTreeNode = @ + 1],
         info'.NumTreeNode + info'.NumLeafNode + Begun' = Cardinality(DOMAIN space'),
         DoneLeaves # {} \/ Unreturned'
  PROVE  Counts'
<1>1. /\ info' \in InfoType /\ info'.NumLeafNode = info.NumLeafNode
      /\ info'.WstDepth = info.WstDepth /\ info'.AvgDepth = info.AvgDepth
      /\ info'.RulePointers = info.RulePointers /\ info'.MaxRulesinLeaf = info.MaxRulesinLeaf
      /\ info'.MaxLeafNum = info.MaxLeafNum
      /\ info'.MaxL_D = info.MaxL_D /\ info'.MaxL_N = info.MaxL_N
  BY DEF Counts, InfoType
<1>2. ASSUME info'.WstDepth < 256 PROVE Tally(info', DoneLeaves', nodes')
  <2> DEFINE L == DoneLeaves
  <2>1. Tally(info, L, nodes)
    BY <1>1, <1>2 DEF Counts
  <2>2. \A n \in L : nodes'[n] = nodes[n]
    OBVIOUS
  <2> HIDE DEF L
  <2>3. Tally(info, L, nodes')
    BY <2>1, <2>2, TallyKept
  <2>4. Tally(info', L, nodes')
    BY <2>3, <1>1 DEF Tally
  <2> QED
    BY <2>4 DEF L
<1> QED
  BY <1>1, <1>2 DEF Counts

LEMMA BuildingCounts ==
  ASSUME Shape, Tree, pc = "building", Building, Counts, Tree', pc' \in {"building", "built"}
  PROVE  Counts'
<1>1. /\ Top.idx \in Active(stack) /\ Top.idx \in DOMAIN space /\ Top.idx \in DOMAIN nodes
      /\ len \in Nat /\ gen \in Nat
  <2>1. Len(stack) \in Nat \ {0} /\ Top = stack[Len(stack)]
    BY TopIs
  <2> QED
    BY <2>1, TopFrame DEF Active
<1>2. /\ \A n \in DOMAIN space : n \in DOMAIN nodes /\ n \in 0..len - 1
      /\ IsFiniteSet(DOMAIN space) /\ Cardinality(DOMAIN space) \in Nat
      /\ IsFiniteSet(DoneLeaves) /\ Cardinality(DoneLeaves) \in Nat
  BY SpaceFinite
<1>3. \A n : n \in DoneLeaves <=> /\ n \in DOMAIN space /\ n \notin Active(stack)
                                  /\ nodes[n].child = LEAF
  BY DEF DoneLeaves
<1>4. \A n : n \in DoneLeaves' <=> /\ n \in DOMAIN space' /\ n \notin Active(stack')
                                   /\ nodes'[n].child = LEAF
  BY DEF DoneLeaves
<1>5. /\ info \in InfoType /\ info.NumTreeNode \in Nat /\ info.NumLeafNode \in Nat
      /\ info.NumLeafNode = Cardinality(DoneLeaves)
      /\ info.NumTreeNode + info.NumLeafNode + Begun = Cardinality(DOMAIN space)
  BY DEF Counts, InfoType
<1>6. Begun = IF Top.pc = "enter" THEN 1 ELSE 0
  BY DEF Begun
<1>7. CASE Leaf
  <2> DEFINE e == Depth
             t == Top.idx
             L == DoneLeaves
  <2>1. /\ Top.pc = "enter" /\ Return /\ UNCHANGED <<len, gen, space>>
        /\ nodes'[t].child = LEAF /\ nodes'[t].rules = nodes[t].rules
        /\ \A m \in DOMAIN nodes : m # t => nodes'[m] = nodes[m]
    BY <1>1, <1>7, LeafEffect
  <2>2. Active(stack') = Active(stack) \ {t}
    BY <1>1, <2>1, Popped
  <2>3. Begun' = 0
    BY <1>1, <2>1, PoppedBegun
  <2>4. t \notin L /\ \A n \in L : nodes'[n] = nodes[n]
    BY <1>1, <1>2, <1>3, <2>1
  <2>5. \A n : n \in DoneLeaves' <=> n \in L \/ n = t
    BY <1>1, <1>2, <1>3, <1>4, <2>1, <2>2
  <2>6. DoneLeaves' = L \union {t}
    BY <2>5
  <2> HIDE DEF L
  <2>7. Cardinality(L \union {t}) = Cardinality(L) + 1
    BY <1>2, <2>4, FS_AddElement DEF L
  <2>8. /\ e \in Nat /\ info' \in InfoType /\ nodes'[t].depth = e % 256
        /\ info'.NumLeafNode = info.NumLeafNode + 1 /\ info'.NumTreeNode = info.NumTreeNode
        /\ info'.WstDepth = Max({info.WstDepth, e})
    BY <1>5, <1>7, LeafCounts
  <2>9. info'.NumTreeNode + info'.NumLeafNode + Begun' = Cardinality(DOMAIN space')
    BY <1>5, <1>6, <2>1, <2>3, <2>8
  <2>10. info'.NumLeafNode = Cardinality(DoneLeaves')
    BY <1>5, <2>6, <2>7, <2>8 DEF L
  <2>11. ASSUME info'.WstDepth < 256 PROVE Tally(info', L \union {t}, nodes')
    <3> DEFINE s == Size(Here)
    <3>1. s \in Nat /\ IsFiniteSet(DOMAIN nodes'[t].rules) /\ s = Size(nodes'[t])
      BY <2>1, ListFinite DEF Here, Size
    <3>2. /\ info'.AvgDepth = info.AvgDepth + e /\ info'.RulePointers = info.RulePointers + s
          /\ info'.MaxRulesinLeaf = Max({info.MaxRulesinLeaf, s})
          /\ IF s + e > info.MaxLeafNum
               THEN info'.MaxLeafNum = s + e /\ info'.MaxL_D = e /\ info'.MaxL_N = s
               ELSE /\ info'.MaxLeafNum = info.MaxLeafNum
                    /\ info'.MaxL_D = info.MaxL_D /\ info'.MaxL_N = info.MaxL_N
      BY <1>5, <1>7, LeafCounts
    <3> HIDE DEF s, e
    <3>3. info.WstDepth \in Nat
      BY <1>5 DEF InfoType
    <3>4. info'.WstDepth = IF info.WstDepth >= e THEN info.WstDepth ELSE e
      BY <2>8, <3>3, MaxOfTwo
    <3>5. info.WstDepth < 256 /\ e < 256
      BY <2>8, <2>11, <3>3, <3>4
    <3>6. nodes'[t].depth = e
      BY <2>8, <3>5
    <3>7. Tally(info, L, nodes)
      BY <3>5 DEF Counts, L
    <3> DEFINE i == info
               j == info'
               nds == nodes
               nds2 == nodes'
    <3>8. /\ i \in InfoType /\ j \in InfoType /\ Tally(i, L, nds) /\ t \notin L
          /\ \A n \in L : nds2[n] = nds[n]
          /\ nds2[t].depth = e /\ IsFiniteSet(DOMAIN nds2[t].rules) /\ s = Size(nds2[t])
          /\ j.WstDepth = Max({i.WstDepth, e}) /\ j.AvgDepth = i.AvgDepth + e
          /\ j.RulePointers = i.RulePointers + s /\ j.MaxRulesinLeaf = Max({i.MaxRulesinLeaf, s})
          /\ IF s + e > i.MaxLeafNum
               THEN j.MaxLeafNum = s + e /\ j.MaxL_D = e /\ j.MaxL_N = s
               ELSE j.MaxLeafNum = i.MaxLeafNum /\ j.MaxL_D = i.MaxL_D /\ j.MaxL_N = i.MaxL_N
      BY <1>5, <2>4, <2>8, <3>1, <3>2, <3>6, <3>7
    <3>9. s \in Nat /\ e \in Nat
      BY <2>8, <3>1
    <3> HIDE DEF i, j, nds, nds2, t
    <3>10. Tally(j, L \union {t}, nds2)
      BY <3>8, <3>9, TallyLeaf
    <3> QED
      BY <3>10 DEF j, nds2
  <2> QED
    BY <2>6, <2>8, <2>9, <2>10, <2>11 DEF Counts
<1>8. CASE Split
  <2>1. /\ Top.pc = "enter" /\ UNCHANGED <<pc, space>>
        /\ \A m \in DOMAIN nodes : m # Top.idx => nodes'[m] = nodes[m]
        /\ \A m \in DOMAIN nodes : nodes'[m].child = nodes[m].child
    BY <1>8, SplitEffect
  <2>2. PICK f \in FrameType : stack' = SetTop(f) /\ f.idx = Top.idx /\ f.pc = "child1"
    BY <1>8, SplitEffect
  <2>3. Active(stack') = Active(stack) /\ Top' = f
    BY <2>2, NewTop DEF Top
  <2>4. Begun' = 0
    BY <2>2, <2>3 DEF Begun
  <2>5. \A n : n \in DoneLeaves' <=> n \in DoneLeaves
    BY <1>2, <1>3, <1>4, <2>1, <2>3
  <2>6. \A n \in DoneLeaves : nodes'[n] = nodes[n]
    BY <1>1, <1>2, <1>3, <2>1
  <2>7. info' = [info EXCEPT !.NumTreeNode = @ + 1]
    BY <1>8 DEF Split
  <2>8. info'.NumTreeNode = info.NumTreeNode + 1 /\ info'.NumLeafNode = info.NumLeafNode
    BY <1>5, <2>7 DEF InfoType
  <2>9. info'.NumTreeNode + info'.NumLeafNode + Begun' = Cardinality(DOMAIN space')
    BY <1>5, <1>6, <2>1, <2>4, <2>8
  <2> QED
    BY <2>1, <2>2, <2>3, <2>5, <2>6, <2>7, <2>9, CountsKept DEF Unreturned
<1>9. ASSUME VecGet, UNCHANGED <<pc, info, space>>, Top.pc # "enter", NEW f \in FrameType,
             stack' = SetTop(f), f.idx = Top.idx, f.pc \in {"child2", "left"}
      PROVE  Counts'
  <2>1. \A n \in 0..len - 1 : nodes'[n] = nodes[n]
    BY <1>9, VecGetEffect DEF Tree
  <2>2. Active(stack') = Active(stack) /\ Top' = f
    BY <1>9, NewTop DEF Top
  <2>3. Begun' = 0
    BY <1>9, <2>2 DEF Begun
  <2>4. \A n : n \in DoneLeaves' <=> n \in DoneLeaves
    BY <1>2, <1>3, <1>4, <1>9, <2>1, <2>2
  <2>5. \A n \in DoneLeaves : nodes'[n] = nodes[n]
    BY <1>2, <1>3, <2>1
  <2>6. info'.NumTreeNode + info'.NumLeafNode + Begun' = Cardinality(DOMAIN space')
    BY <1>5, <1>6, <1>9, <2>3
  <2> QED
    BY <1>9, <2>2, <2>4, <2>5, <2>6, CountsKept DEF Unreturned
<1>10. CASE FirstChild
  BY <1>9, <1>10, FirstChildEffect DEF FirstChild
<1>11. CASE SecondChild
  BY <1>9, <1>11, SecondChildEffect DEF SecondChild
<1>12. ASSUME NEW n \in Nat, Pending(Top, n), NEW lo \in Value, NEW hi \in Value, NEW keys,
              NEW next \in {"right", "finish"}, BuildChild(n, lo, hi, keys, next)
       PROVE  Counts'
  <2>0. Shape /\ Tree /\ pc = "building"
    OBVIOUS
  <2>1. /\ n \notin DOMAIN space /\ n \in DOMAIN nodes /\ UNCHANGED pc
        /\ \A m : m \in DOMAIN space' <=> m \in DOMAIN space \/ m = n
        /\ \A m \in DOMAIN nodes : m # n => nodes'[m] = nodes[m]
    BY <2>0, <1>12, ChildEffect
  <2>2. PICK f \in FrameType, g \in FrameType :
          /\ stack' = Append(SetTop(f), g)
          /\ f.idx = Top.idx /\ g.idx = n /\ g.pc = "enter"
    BY <2>0, <1>12, ChildEffect
  <2>3. Active(stack') = Active(stack) \union {n} /\ Top' = g
    BY <2>0, <2>2, Pushed DEF Top
  <2>4. Begun = 0 /\ Begun' = 1
    BY <1>6, <1>12, <2>1, <2>2, <2>3 DEF Begun, Pending
  <2>5. \A m : m \in DoneLeaves' <=> m \in DoneLeaves
    BY <1>2, <1>3, <1>4, <2>1, <2>3
  <2>6. \A m \in DoneLeaves : nodes'[m] = nodes[m]
    BY <1>2, <1>3, <2>1
  <2>7. DOMAIN space' = DOMAIN space \union {n}
    BY <2>1
  <2>8. Cardinality(DOMAIN space') = Cardinality(DOMAIN space) + 1
    <3> DEFINE D == DOMAIN space
               D2 == DOMAIN space'
    <3>1. D2 = D \union {n} /\ n \notin D /\ IsFiniteSet(D)
      BY <1>2, <2>1, <2>7
    <3> HIDE DEF D, D2
    <3>2. Cardinality(D2) = Cardinality(D) + 1
      BY <3>1, FS_AddElement
    <3> QED
      BY <3>2 DEF D, D2
  <2>9. info' = info
    BY <1>12 DEF BuildChild
  <2>10. info'.NumTreeNode + info'.NumLeafNode + Begun' = Cardinality(DOMAIN space')
    BY <1>5, <2>4, <2>8, <2>9
  <2> QED
    BY <2>1, <2>2, <2>3, <2>5, <2>6, <2>9, <2>10, CountsKept DEF Unreturned
<1>13. CASE Left
  BY <1>12, <1>13, LeftEffect
<1>14. CASE Right
  BY <1>12, <1>14, RightEffect
<1>15. CASE Finish
  <2>1. /\ Top.pc = "finish" /\ Return /\ UNCHANGED <<len, gen, space>> /\ Top.child \in Nat
        /\ nodes'[Top.idx].child = Top.child
        /\ \A m \in DOMAIN nodes : m # Top.idx => nodes'[m] = nodes[m]
    BY <1>15, FinishEffect
  <2>2. Active(stack') = Active(stack) \ {Top.idx} /\ Begun' = 0
    BY <1>1, <2>1, Popped, PoppedBegun
  <2>3. nodes'[Top.idx].child # LEAF
    BY <2>1 DEF LEAF
  <2>4. \A n : n \in DoneLeaves' <=> n \in DoneLeaves
    BY <1>1, <1>2, <1>3, <1>4, <2>1, <2>2, <2>3
  <2>5. \A n \in DoneLeaves : nodes'[n] = nodes[n]
    BY <1>1, <1>2, <1>3, <2>1
  <2>6. info' = info
    BY <1>15 DEF Finish
  <2>7. info'.NumTreeNode + info'.NumLeafNode + Begun' = Cardinality(DOMAIN space')
    BY <1>5, <1>6, <2>1, <2>2, <2>6
  <2> QED
    BY <2>1, <2>4, <2>5, <2>6, <2>7, CountsKept DEF Counts, Unreturned
<1>16. ~NoNode /\ ~Overread /\ ~NoRuleList
  BY DEF NoNode, Overread, NoRuleList
<1> QED
  BY <1>7, <1>8, <1>10, <1>11, <1>13, <1>14, <1>15, <1>16 DEF Building

LEMMA StepCounted == IInv /\ Counted /\ [Next]_vars => Counted'
<1> SUFFICES ASSUME IInv, Counted, [Next]_vars, pc' \in {"building", "built"} PROVE Counts'
  BY DEF Counted
<1>1. IInv' /\ Tree'
  BY StepInv DEF IInv
<1>2. ASSUME NEW a \in Acls, NEW b, NEW own, PrepBuild(a, b, own) PROVE Counts'
  <2> DEFINE f == Frame(0, 0)
  <2>1. /\ stack' = <<f>> /\ DOMAIN space' = {0} /\ info' = ZeroInfo /\ pc' = "building"
    BY <1>2 DEF PrepBuild
  <2>2. f.idx = 0 /\ f.pc = "enter"
    BY DEF Frame
  <2> HIDE DEF f
  <2>3. Len(stack') = 1 /\ stack'[1] = f
    BY <2>1
  <2>4. Begun' = 1
    BY <2>1, <2>2, <2>3 DEF Begun, Top
  <2>5. 0 \in Active(stack')
    BY <2>2, <2>3 DEF Active
  <2>6. DoneLeaves' = {}
    BY <2>1, <2>5 DEF DoneLeaves
  <2>7. Cardinality(DOMAIN space') = 1 /\ Cardinality(DoneLeaves') = 0
    BY <2>1, <2>6, FS_Singleton, FS_EmptySet
  <2>8. Tally(ZeroInfo, {}, nodes')
    <3>1. Lists({}, nodes') = {} /\ Levels({}, nodes') = {}
      BY DEF Lists, Levels
    <3>2. IsFiniteSet({}) /\ Cardinality({}) = 0
      BY FS_EmptySet
    <3> QED
      BY <3>1, <3>2 DEF Tally, Highest, ZeroInfo
  <2>9. ZeroInfo \in InfoType /\ ZeroInfo.NumLeafNode = 0 /\ ZeroInfo.NumTreeNode = 0
    BY DEF ZeroInfo, InfoType
  <2> QED
    BY <2>1, <2>2, <2>3, <2>4, <2>6, <2>7, <2>8, <2>9 DEF Counts, Unreturned, Top
<1>3. CASE Building
  <2>1. pc = "building"
    BY <1>3 DEF Building
  <2> QED
    BY <1>1, <1>3, <2>1, BuildingCounts DEF IInv, Counted
<1>4. ASSUME UNCHANGED <<pc, nodes, stack, info, space>> PROVE Counts'
  <2>1. Counts
    BY <1>4 DEF Counted
  <2>2. DoneLeaves' = DoneLeaves /\ Begun' = Begun /\ Unreturned' = Unreturned
    BY <1>4 DEF DoneLeaves, Begun, Unreturned, Top
  <2> QED
    BY <1>4, <2>1, <2>2 DEF Counts
<1>5. ASSUME NEW own, PrepBuildFails(own), pc = "empty" PROVE Counts'
  BY <1>5 DEF PrepBuildFails
<1>6. CASE Lookup \/ UNCHANGED vars
  BY <1>4, <1>6, LookupSame DEF vars
<1>7. CASE FreeAll \/ CleanUp \/ CleanUpCrashes
  BY <1>7 DEF FreeAll, CleanUp, TreeFree, CleanUpCrashes
<1> QED
  BY <1>2, <1>3, <1>4, <1>5, <1>6, <1>7 DEF Next, Running, mem

LEMMA InvCounted == IInv /\ Families /\ Counted /\ info.WstDepth < 256 => CountersMatch
<1> SUFFICES ASSUME IInv, Families, Counted, info.WstDepth < 256, pc = "built"
             PROVE  CountersMatch
  BY DEF CountersMatch
<1> DEFINE L == DoneLeaves
<1>1. /\ len \in Nat /\ Active(stack) = {} /\ DOMAIN space = 0..len - 1 /\ Tree
  BY BuiltNodes DEF IInv
<1>2. Leaves = L /\ Inner = DOMAIN space \ L /\ L \subseteq DOMAIN space
  BY <1>1 DEF Leaves, Inner, DoneLeaves
<1>3. /\ info \in InfoType /\ info.NumLeafNode = Cardinality(L)
      /\ info.NumTreeNode + info.NumLeafNode = Cardinality(DOMAIN space)
      /\ Tally(info, L, nodes)
  <2>1. Counts /\ Begun = 0
    BY DEF Counted, Begun
  <2> QED
    BY <2>1 DEF Counts, InfoType
<1>4. info.NumTreeNode = Cardinality(Inner)
  <2>1. /\ IsFiniteSet(DOMAIN space) /\ Cardinality(DOMAIN space) \in Nat
        /\ IsFiniteSet(L) /\ Cardinality(L) \in Nat
    BY <1>1, SpaceFinite
  <2>2. DOMAIN space \intersect L = L
    BY <1>2
  <2> DEFINE D == DOMAIN space
  <2> HIDE DEF L, D
  <2>3. Cardinality(D \ L) = Cardinality(D) - Cardinality(D \intersect L)
    BY <2>1, FS_Difference DEF D
  <2>4. info.NumTreeNode \in Nat
    BY <1>3 DEF InfoType
  <2>5. Inner = D \ L
    BY ONLY <1>2 DEF D
  <2>6. info.NumTreeNode + Cardinality(L) = Cardinality(D)
    BY ONLY <1>3 DEF D
  <2>7. Cardinality(D) \in Nat /\ Cardinality(L) \in Nat
    BY ONLY <2>1 DEF D
  <2>8. Cardinality(D \ L) = Cardinality(D) - Cardinality(L)
    BY ONLY <2>2, <2>3 DEF D
  <2> QED
    BY ONLY <2>4, <2>5, <2>6, <2>7, <2>8
<1>5. L # {}
  BY DEF Counted, Counts, Unreturned
<1>6. /\ info.WstDepth = Max({nodes[n].depth : n \in L})
      /\ info.MaxRulesinLeaf = Max({Size(nodes[n]) : n \in L})
      /\ info.MaxLeafNum = Max({Size(nodes[n]) + nodes[n].depth : n \in L})
  <2> DEFINE Depths == {nodes[n].depth : n \in L}
             Sizes == {Size(nodes[n]) : n \in L}
             Both == {Size(nodes[n]) + nodes[n].depth : n \in L}
  <2>1. Depths # {} /\ Sizes # {} /\ Both # {}
    BY ONLY <1>5
  <2>2. /\ Highest(info.WstDepth, Depths) /\ Highest(info.MaxRulesinLeaf, Sizes)
        /\ Highest(info.MaxLeafNum, Both)
    BY <1>3 DEF Tally
  <2> HIDE DEF Depths, Sizes, Both
  <2>3. /\ info.WstDepth = Max(Depths) /\ info.MaxRulesinLeaf = Max(Sizes)
        /\ info.MaxLeafNum = Max(Both)
    BY <2>1, <2>2, HighestIsMax
  <2> QED
    BY ONLY <2>3 DEF Depths, Sizes, Both
<1>7. /\ info.AvgDepth = Cardinality(Levels(L, nodes))
      /\ info.RulePointers = Cardinality(Lists(L, nodes))
      /\ \E n \in L : info.MaxL_D = nodes[n].depth /\ info.MaxL_N = Size(nodes[n])
      /\ info.MaxLeafNum = info.MaxL_D + info.MaxL_N
  BY <1>3, <1>5 DEF Tally
<1> HIDE DEF L
<1> QED
  BY <1>2, <1>3, <1>4, <1>6, <1>7 DEF CountersMatch, Size, Lists, Levels

(* What hs_build counted is what the finished tree has: its nodes, leaves, *)
(* rules and depths.  The code keeps a node's depth in a byte, so it can   *)
(* be compared only if hs_tree_info reports less than 256 levels.          *)
THEOREM AlwaysCounted == Spec => [](info.WstDepth < 256 => CountersMatch)
<1>1. Init => Families /\ Counted
  BY DEF Init, Families, Counted
<1>2. IInv /\ Families /\ Counted => (info.WstDepth < 256 => CountersMatch)
  BY InvCounted
<1> QED
  BY <1>1, <1>2, StepFamilies, StepCounted, TreeInvariant, PTL DEF Spec

=============================================================================
