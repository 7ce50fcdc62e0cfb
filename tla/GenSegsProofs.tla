---------------------------- MODULE GenSegsProofs -----------------------------
(***************************************************************************)
(* The segment sweep of GenSegs is proved to compute the segments that     *)
(* SplitRules defines, for any rule list, any heap size and any outcome of *)
(* the allocations.                                                        *)
(***************************************************************************)
EXTENDS GenSegs, WellFoundedInduction, FiniteSetTheorems, TLAPS

USE MaxValAssumption

-----------------------------------------------------------------------------
LEMMA Least ==
  ASSUME NEW S \in SUBSET Nat, S # {}
  PROVE  \E n \in S : \A m \in S : n <= m
<1> DEFINE T == {0..n : n \in S}
           R == StrictSubsetOrdering(Nat)
<1>1. \A n \in S : 0..n \in FiniteSubsetsOf(Nat)
  BY FS_Interval DEF FiniteSubsetsOf
<1>2. T \subseteq FiniteSubsetsOf(Nat) /\ T # {}
  BY <1>1
<1>3. PICK x \in T : \A y \in T : ~ (<<y, x>> \in R)
  <2> HIDE DEF T
  <2> QED
    BY <1>2, FS_StrictSubsetOrderingWellFounded, WFMin
<1>4. PICK n \in S : x = 0..n
  OBVIOUS
<1>5. ASSUME NEW m \in S, m < n PROVE FALSE
  <2>1. 0..m \in T /\ 0..m \subseteq 0..n /\ n \in 0..n /\ n \notin 0..m
    BY <1>5
  <2>2. <<0..m, x>> \in R
    BY <2>1, <1>4 DEF StrictSubsetOrdering
  <2> QED
    BY <2>1, <2>2, <1>3
<1> QED
  BY <1>5

LEMMA MinIs ==
  ASSUME NEW S \in SUBSET Nat, S # {}
  PROVE  Min(S) \in S /\ \A x \in S : Min(S) <= x
  BY Least DEF Min

LEMMA MaxIs ==
  ASSUME NEW m \in Nat, NEW S \in SUBSET (0..m), S # {}
  PROVE  Max(S) \in S /\ \A x \in S : x <= Max(S)
<1> DEFINE T == {m - x : x \in S}
<1>1. \A x \in S : x \in Nat /\ x <= m /\ m - x \in Nat
  OBVIOUS
<1>2. PICK n \in T : \A y \in T : n <= y
  <2>1. T \in SUBSET Nat /\ T # {}
    BY <1>1
  <2> HIDE DEF T
  <2> QED
    BY <2>1, Least
<1>3. PICK x \in S : n = m - x
  OBVIOUS
<1>4. \A y \in S : y <= x
  <2> SUFFICES ASSUME NEW y \in S PROVE y <= x
    OBVIOUS
  <2>1. m - x <= m - y
    BY <1>2, <1>3
  <2> QED
    BY <1>1, <2>1
<1>5. \A y \in S : x >= y
  BY <1>1, <1>4
<1>6. Max(S) \in S /\ \A y \in S : Max(S) >= y
  BY <1>5 DEF Max
<1> QED
  BY <1>1, <1>6

-----------------------------------------------------------------------------
(* The inductive invariant.                                                *)

Slots(h) == UNION {{v} \X (1..h[v]) : v \in {v \in Value : h[v] > 0}}

(* s is the ranges of the rules in dimension d, sorted, each once.         *)
SortOf(rules, d, s) ==
  /\ s \in Seq(Interval) /\ Len(s) \in 1..Cardinality(DOMAIN rules)
  /\ \A k \in DOMAIN s : \E j \in DOMAIN rules : s[k] = rules[j][d]
  /\ \A j \in DOMAIN rules : \E k \in DOMAIN s : s[k] = rules[j][d]
  /\ \A j, k \in DOMAIN s : j < k => Before(s[j], s[k])

Given == l \in Lists /\ dim \in Dims /\ SortOf(l, dim, sort)

HeapOK == /\ heap \in [Value -> Nat] /\ IsFiniteSet(Slots(heap))
          /\ size \in Nat /\ size >= HEAP_SIZE /\ Count <= size

(* The heap holds the highs of some of the ranges before the i-th.         *)
Holds(h, s, P) == /\ \A v \in Value : h[v] = Cardinality({k \in P : s[k][2] = v})
                  /\ Cardinality(Slots(h)) = Cardinality(P)
Held == \E P \in SUBSET (1..i - 1) : IsFiniteSet(P) /\ Holds(heap, sort, P)

(* Where the sweep is: past the lows before the i-th range's and not beyond*)
(* the i-th's, and past the highs that are no longer in the heap.          *)
Front == /\ i \in 2..Len(sort) + 1 /\ start \in 0..MaxVal + 1
         /\ \A k \in 1..i - 1 : sort[k][1] <= start
         /\ \A k \in 1..i - 1 : sort[k][2] < start \/ heap[sort[k][2]] > 0
         /\ i <= Len(sort) => start <= sort[i][1] + 1

(* What is in ranges_output: the segments that end before start, in order. *)
Cuts == /\ out \in Seq(Interval) /\ \A k \in DOMAIN out : out[k][1] <= out[k][2]
        /\ \A j, k \in DOMAIN out : j < k => out[j][2] < out[k][1]
        /\ \A k \in DOMAIN out : /\ out[k][2] \in Ends(l, dim) /\ out[k][2] < start
                                  /\ out[k][1] = SegLow(l, dim, out[k][2])
        /\ \A e \in Ends(l, dim) : e < start => \E k \in DOMAIN out : out[k][2] = e

(* Each range makes at most two segments: one before its low, one at its   *)
(* high, when that leaves the heap.                                        *)
Budget == Len(out) + Count < 2 * (i - 1)

Sweeping == Held /\ Front /\ Cuts /\ Tiles /\ Budget

(* The next call's sweep begins with an empty heap.                        *)
HeapDrained == pc \in {"idle", "done"} => InHeap = {}

IInv == /\ pc \in {"idle", "sweep", "done", "crashed"}
        /\ HeapOK /\ HeapDrained
        /\ pc # "idle" => Given
        /\ pc = "sweep" => Sweeping
        /\ pc # "sweep" => TypeOK /\ (pc # "idle" => Len(out) <= Room)
        /\ SegsMatch /\ CrashNeedsOverlap

-----------------------------------------------------------------------------
(* Sorting.  _range_compare is a strict total order, so the ranges before  *)
(* a range tell it apart, and each place is taken.                         *)

LEMMA BeforeIs ==
  \A p, q, r \in Interval :
    /\ ~Before(p, p)
    /\ p = q \/ Before(p, q) \/ Before(q, p)
    /\ Before(p, q) /\ Before(q, r) => Before(p, r)
<1> SUFFICES ASSUME NEW p \in Interval, NEW q \in Interval, NEW r \in Interval
             PROVE  /\ ~Before(p, p)
                    /\ p = q \/ Before(p, q) \/ Before(q, p)
                    /\ Before(p, q) /\ Before(q, r) => Before(p, r)
  OBVIOUS
<1>1. /\ p[1] \in Int /\ p[2] \in Int /\ q[1] \in Int /\ q[2] \in Int
      /\ r[1] \in Int /\ r[2] \in Int /\ p = <<p[1], p[2]>> /\ q = <<q[1], q[2]>>
  BY DEF Interval, Value
<1>2. p = q \/ p[1] # q[1] \/ p[2] # q[2]
  BY <1>1, Zenon
<1> QED
  BY <1>1, <1>2 DEF Before

LEMMA RangesSortIs ==
  ASSUME NEW S \in SUBSET Interval, IsFiniteSet(S)
  PROVE  /\ RangesSort(S) \in Seq(Interval) /\ Len(RangesSort(S)) = Cardinality(S)
         /\ \A j \in 1..Cardinality(S) : RangesSort(S)[j] \in S
         /\ \A r \in S : \E j \in 1..Cardinality(S) : RangesSort(S)[j] = r
         /\ \A j, k \in 1..Cardinality(S) : j < k => Before(RangesSort(S)[j], RangesSort(S)[k])
<1> DEFINE n       == Cardinality(S)
           Less(r) == {q \in S : Before(q, r)}
           rank(r) == Cardinality(Less(r))
           s       == RangesSort(S)
<1>1. n \in Nat
  BY FS_CardinalityType
<1>2. \A r \in S : r \in Interval
  OBVIOUS
<1>3. \A r \in S : rank(r) \in Nat /\ rank(r) < n
  <2> SUFFICES ASSUME NEW r \in S PROVE rank(r) \in Nat /\ rank(r) < n
    OBVIOUS
  <2>1. Less(r) \in SUBSET S /\ Less(r) # S
    BY <1>2, BeforeIs
  <2>2. IsFiniteSet(Less(r)) /\ rank(r) <= n /\ rank(r) # n
    BY <2>1, FS_Subset
  <2> QED
    BY <1>1, <2>2, FS_CardinalityType
<1>4. \A q, r \in S : Before(q, r) => rank(q) < rank(r)
  <2> SUFFICES ASSUME NEW q \in S, NEW r \in S, Before(q, r) PROVE rank(q) < rank(r)
    OBVIOUS
  <2>1. Less(q) \in SUBSET Less(r) /\ q \in Less(r) /\ q \notin Less(q)
    BY <1>2, BeforeIs
  <2>2. Less(r) \in SUBSET S
    OBVIOUS
  <2>3. IsFiniteSet(Less(r))
    BY <2>2, FS_Subset
  <2>4. rank(q) <= rank(r) /\ rank(q) # rank(r)
    BY <2>1, <2>3, FS_Subset
  <2>5. rank(q) \in Nat /\ rank(r) \in Nat
    BY <1>3
  <2> HIDE DEF rank
  <2> QED
    BY <2>4, <2>5
<1>5. \A q, r \in S : rank(q) = rank(r) => q = r
  <2> SUFFICES ASSUME NEW q \in S, NEW r \in S, rank(q) = rank(r), q # r PROVE FALSE
    OBVIOUS
  <2>1. Before(q, r) \/ Before(r, q)
    BY <1>2, BeforeIs
  <2>2. rank(q) < rank(r) \/ rank(r) < rank(q)
    BY <1>4, <2>1
  <2> HIDE DEF rank
  <2> QED
    BY <1>3, <2>2
<1> HIDE DEF rank
<1>6. \A j \in 1..n : \E r \in S : rank(r) = j - 1
  <2> DEFINE f == [r \in S |-> rank(r) + 1]
  <2>1. \A r \in S : f[r] \in 1..n
    BY <1>1, <1>3
  <2>2. \A q, r \in S : f[q] = f[r] => q = r
    BY <1>3, <1>5
  <2>3. f \in Injection(S, 1..n)
    <3>1. f \in [S -> 1..n]
      BY <2>1
    <3>2. IsInjective(f)
      BY <2>2 DEF IsInjective
    <3> QED
      BY <3>1, <3>2 DEF Injection
  <2>4. IsFiniteSet(1..n) /\ Cardinality(1..n) = n
    BY <1>1, FS_Interval
  <2> HIDE DEF f
  <2>5. f \in Surjection(S, 1..n)
    BY <2>3, <2>4, FS_Injection
  <2>6. \A j \in 1..n : \E r \in S : f[r] = j
    BY <2>5 DEF Surjection
  <2> QED
    BY <1>1, <1>3, <2>6 DEF f
<1>7. \A j \in 1..n : s[j] \in S /\ rank(s[j]) = j - 1
  <2> SUFFICES ASSUME NEW j \in 1..n PROVE s[j] \in S /\ rank(s[j]) = j - 1
    OBVIOUS
  <2>1. s[j] = CHOOSE r \in S : rank(r) = j - 1
    BY DEF RangesSort, rank
  <2>2. \E r \in S : rank(r) = j - 1
    BY <1>6
  <2> HIDE DEF s
  <2> QED
    BY <2>1, <2>2
<1>8. s \in Seq(Interval) /\ Len(s) = n
  <2> DEFINE g(j) == CHOOSE r \in S : Cardinality({q \in S : Before(q, r)}) = j - 1
  <2>1. s = [j \in 1..n |-> g(j)]
    BY DEF RangesSort
  <2>2. \A j \in 1..n : s[j] \in Interval
    BY <1>7
  <2> HIDE DEF s, n, g
  <2>3. s \in [1..n -> Interval]
    BY <2>1, <2>2
  <2> QED
    BY <1>1, <2>3
<1> HIDE DEF s, n
<1>9. \A r \in S : \E j \in 1..n : s[j] = r
  <2> SUFFICES ASSUME NEW r \in S PROVE \E j \in 1..n : s[j] = r
    OBVIOUS
  <2>1. rank(r) + 1 \in 1..n /\ (rank(r) + 1) - 1 = rank(r)
    BY <1>1, <1>3
  <2>2. s[rank(r) + 1] \in S /\ rank(s[rank(r) + 1]) = rank(r)
    BY <1>7, <2>1
  <2> QED
    BY <1>5, <2>1, <2>2
<1>10. \A j, k \in 1..n : j < k => Before(s[j], s[k])
  <2> SUFFICES ASSUME NEW j \in 1..n, NEW k \in 1..n, j < k PROVE Before(s[j], s[k])
    OBVIOUS
  <2>1. s[j] \in S /\ s[k] \in S /\ rank(s[j]) = j - 1 /\ rank(s[k]) = k - 1
    BY <1>7
  <2>2. rank(s[j]) < rank(s[k])
    BY <1>1, <2>1
  <2>3. ~(rank(s[k]) < rank(s[j])) /\ s[j] # s[k]
    BY <1>1, <2>1, <2>2
  <2> QED
    BY <1>2, <1>4, <2>1, <2>3, BeforeIs
<1> QED
  BY <1>7, <1>8, <1>9, <1>10 DEF s, n

-----------------------------------------------------------------------------
(* Counting the heap.                                                      *)

LEMMA SlotsIs ==
  ASSUME NEW h \in [Value -> Nat], NEW p
  PROVE  p \in Slots(h) <=> \E v \in Value : \E n \in 1..h[v] : p = <<v, n>>
<1>1. ASSUME NEW v \in Value, NEW n \in 1..h[v], p = <<v, n>> PROVE p \in Slots(h)
  <2>1. h[v] \in Nat /\ h[v] > 0
    BY <1>1
  <2> QED
    BY <1>1, <2>1 DEF Slots
<1> QED
  BY <1>1 DEF Slots

LEMMA SlotsMore ==
  ASSUME NEW h \in [Value -> Nat], IsFiniteSet(Slots(h)), NEW w \in Value,
         NEW g, g = [h EXCEPT ![w] = @ + 1]
  PROVE  /\ g \in [Value -> Nat] /\ IsFiniteSet(Slots(g)) /\ Cardinality(Slots(h)) \in Nat
         /\ Cardinality(Slots(g)) = Cardinality(Slots(h)) + 1
<1>1. /\ g \in [Value -> Nat] /\ h[w] \in Nat /\ g[w] = h[w] + 1
      /\ \A v \in Value : v # w => g[v] = h[v]
  OBVIOUS
<1>2. <<w, h[w] + 1>> \notin Slots(h)
  BY <1>1, SlotsIs
<1>3. Slots(g) = Slots(h) \union {<<w, h[w] + 1>>}
  <2>1. ASSUME NEW p \in Slots(g) PROVE p \in Slots(h) \union {<<w, h[w] + 1>>}
    <3>0. g \in [Value -> Nat]
      BY <1>1
    <3>1. PICK v \in Value : \E n \in 1..g[v] : p = <<v, n>>
      BY <3>0, SlotsIs
    <3>9. PICK n \in 1..g[v] : p = <<v, n>>
      BY <3>1
    <3>2. n \in 1..h[v] \/ (v = w /\ n = h[w] + 1)
      BY <1>1
    <3> QED
      BY <3>9, <3>2, SlotsIs
  <2>2. ASSUME NEW p \in Slots(h) PROVE p \in Slots(g)
    <3>1. PICK v \in Value : \E n \in 1..h[v] : p = <<v, n>>
      BY SlotsIs
    <3>9. PICK n \in 1..h[v] : p = <<v, n>>
      BY <3>1
    <3>2. n \in 1..g[v]
      BY <1>1
    <3> QED
      BY <1>1, <3>9, <3>2, SlotsIs
  <2>3. <<w, h[w] + 1>> \in Slots(g)
    <3>1. h[w] + 1 \in 1..g[w]
      BY <1>1
    <3> QED
      BY <1>1, <3>1, SlotsIs
  <2> QED
    BY <2>1, <2>2, <2>3
<1>4. Cardinality(Slots(h)) \in Nat
  BY FS_CardinalityType
<1>5. /\ IsFiniteSet(Slots(g))
      /\ Cardinality(Slots(g)) = Cardinality(Slots(h)) + 1
  <2> DEFINE x == <<w, h[w] + 1>>
  <2>1. x \notin Slots(h) /\ Slots(g) = Slots(h) \union {x}
    BY <1>2, <1>3
  <2> HIDE DEF x
  <2>2. /\ IsFiniteSet(Slots(h) \union {x})
        /\ Cardinality(Slots(h) \union {x}) =
             IF x \in Slots(h) THEN Cardinality(Slots(h)) ELSE Cardinality(Slots(h)) + 1
    BY FS_AddElement
  <2> QED
    BY <2>1, <2>2
<1> QED
  BY <1>1, <1>4, <1>5

LEMMA SlotsLess ==
  ASSUME NEW h \in [Value -> Nat], IsFiniteSet(Slots(h)), NEW w \in Value, h[w] > 0,
         NEW g, g = [h EXCEPT ![w] = @ - 1]
  PROVE  /\ g \in [Value -> Nat] /\ IsFiniteSet(Slots(g)) /\ Cardinality(Slots(h)) \in Nat
         /\ Cardinality(Slots(g)) = Cardinality(Slots(h)) - 1
<1>1. /\ g \in [Value -> Nat] /\ IsFiniteSet(Slots(g))
      /\ h = [g EXCEPT ![w] = @ + 1]
  <2>1. g \in [Value -> Nat]
    OBVIOUS
  <2>2. h = [g EXCEPT ![w] = @ + 1]
    <3>1. \A v \in Value : h[v] = [g EXCEPT ![w] = @ + 1][v]
      OBVIOUS
    <3> QED
      BY <2>1, <3>1
  <2>3. Slots(g) \subseteq Slots(h)
    <3> SUFFICES ASSUME NEW p \in Slots(g) PROVE p \in Slots(h)
      OBVIOUS
    <3>1. PICK v \in Value : \E n \in 1..g[v] : p = <<v, n>>
      BY <2>1, SlotsIs
    <3>9. PICK n \in 1..g[v] : p = <<v, n>>
      BY <3>1
    <3>2. n \in 1..h[v]
      OBVIOUS
    <3> QED
      BY <3>9, <3>2, SlotsIs
  <2> QED
    BY <2>1, <2>2, <2>3, FS_Subset
<1>2. Cardinality(Slots(h)) = Cardinality(Slots(g)) + 1 /\ Cardinality(Slots(g)) \in Nat
  BY <1>1, SlotsMore
<1> QED
  BY <1>1, <1>2

(* An empty heap has no slots.                                             *)
LEMMA SlotsNone ==
  ASSUME NEW h \in [Value -> Nat], \A v \in Value : h[v] = 0
  PROVE  Slots(h) = {} /\ IsFiniteSet(Slots(h)) /\ Cardinality(Slots(h)) = 0
<1>1. Slots(h) = {}
  BY SlotsIs
<1> QED
  BY <1>1, FS_EmptySet

LEMMA HoldsMore ==
  ASSUME NEW h \in [Value -> Nat], IsFiniteSet(Slots(h)), NEW s,
         NEW P, IsFiniteSet(P), Holds(h, s, P), NEW j, j \notin P, NEW w \in Value, w = s[j][2],
         NEW g, g = [h EXCEPT ![w] = @ + 1]
  PROVE  Holds(g, s, P \union {j})
<1> DEFINE Q    == P \union {j}
           A(x) == {k \in P : s[k][2] = x}
           B(x) == {k \in Q : s[k][2] = x}
<1>1. IsFiniteSet(P) /\ j \notin P
  OBVIOUS
<1>2. \A v \in Value : IsFiniteSet(A(v)) /\ h[v] = Cardinality(A(v))
  BY <1>1, FS_Subset DEF Holds
<1>3. \A v \in Value : v # w => B(v) = A(v)
  OBVIOUS
<1>4. B(w) = A(w) \union {j} /\ j \notin A(w)
  BY <1>1
<1>5. Cardinality(B(w)) = Cardinality(A(w)) + 1
  BY <1>2, <1>4, FS_AddElement
<1>6. \A v \in Value : g[v] = Cardinality(B(v))
  BY <1>2, <1>3, <1>5
<1>7. Cardinality(Q) = Cardinality(P) + 1
  BY <1>1, FS_AddElement
<1>8. Cardinality(Slots(g)) = Cardinality(Slots(h)) + 1
  BY SlotsMore
<1> QED
  BY <1>6, <1>7, <1>8 DEF Holds

LEMMA HoldsLess ==
  ASSUME NEW h \in [Value -> Nat], IsFiniteSet(Slots(h)), NEW s,
         NEW P, IsFiniteSet(P), Holds(h, s, P), NEW w \in Value, h[w] > 0,
         NEW g, g = [h EXCEPT ![w] = @ - 1]
  PROVE  \E k \in P : Holds(g, s, P \ {k})
<1> DEFINE A(x) == {k \in P : s[k][2] = x}
<1>1. IsFiniteSet(P)
  OBVIOUS
<1>2. \A v \in Value : IsFiniteSet(A(v)) /\ h[v] = Cardinality(A(v))
  BY <1>1, FS_Subset DEF Holds
<1>3. A(w) # {}
  BY <1>2, FS_EmptySet
<1>4. PICK k \in P : s[k][2] = w
  BY <1>3
<1> DEFINE Q    == P \ {k}
           B(x) == {j \in Q : s[j][2] = x}
<1>5. \A v \in Value : v # w => B(v) = A(v)
  BY <1>4
<1>6. B(w) = A(w) \ {k} /\ k \in A(w)
  BY <1>4
<1>7. Cardinality(B(w)) = Cardinality(A(w)) - 1
  BY <1>2, <1>6, FS_RemoveElement
<1>8. \A v \in Value : g[v] = Cardinality(B(v))
  BY <1>2, <1>5, <1>7
<1>9. Cardinality(Q) = Cardinality(P) - 1
  BY <1>1, <1>4, FS_RemoveElement
<1>10. Cardinality(Slots(g)) = Cardinality(Slots(h)) - 1
  BY SlotsLess
<1>11. Holds(g, s, Q)
  BY <1>8, <1>9, <1>10 DEF Holds
<1> QED
  BY <1>11

(* What the heap holds is in it.                                           *)
LEMMA HoldsIn ==
  ASSUME NEW h \in [Value -> Nat], NEW s, NEW P, IsFiniteSet(P), Holds(h, s, P)
  PROVE  /\ \A k \in P : s[k][2] \in Value => h[s[k][2]] > 0
         /\ \A v \in Value : h[v] > 0 => \E k \in P : s[k][2] = v
<1> DEFINE A(x) == {k \in P : s[k][2] = x}
<1>2. \A v \in Value : IsFiniteSet(A(v)) /\ h[v] = Cardinality(A(v)) /\ h[v] \in Nat
  BY FS_Subset DEF Holds
<1>3. \A v \in Value : h[v] = 0 <=> A(v) = {}
  BY <1>2, FS_EmptySet
<1>4. ASSUME NEW k \in P, s[k][2] \in Value PROVE h[s[k][2]] > 0
  <2>1. k \in A(s[k][2])
    OBVIOUS
  <2> QED
    BY <1>2, <1>3, <1>4, <2>1
<1>5. ASSUME NEW v \in Value, h[v] > 0 PROVE \E k \in P : s[k][2] = v
  <2>1. A(v) # {}
    BY <1>3, <1>5
  <2> QED
    BY <2>1
<1> QED
  BY <1>4, <1>5
-----------------------------------------------------------------------------
(* The sorted ranges and the segments' ends.                               *)

LEMMA SortIs ==
  ASSUME NEW rules, NEW d, NEW s, SortOf(rules, d, s)
  PROVE  /\ Len(s) \in Nat \ {0} /\ DOMAIN s = 1..Len(s)
         /\ \A k \in 1..Len(s) : /\ s[k] \in Interval
                                 /\ s[k][1] \in 0..MaxVal /\ s[k][2] \in 0..MaxVal
         /\ \A j, k \in 1..Len(s) : j <= k => s[j][1] <= s[k][1]
         /\ \A k \in 1..Len(s) : \E j \in DOMAIN rules : s[k] = rules[j][d]
         /\ \A j \in DOMAIN rules : \E k \in 1..Len(s) : s[k] = rules[j][d]
<1>1. s \in Seq(Interval) /\ Len(s) \in Nat \ {0} /\ DOMAIN s = 1..Len(s)
  BY DEF SortOf
<1>2. \A k \in 1..Len(s) : s[k] \in Interval /\ s[k][1] \in 0..MaxVal /\ s[k][2] \in 0..MaxVal
  BY <1>1 DEF Interval, Value
<1>3. \A j, k \in 1..Len(s) : j < k => Before(s[j], s[k])
  BY <1>1 DEF SortOf
<1>4. ASSUME NEW j \in 1..Len(s), NEW k \in 1..Len(s), j <= k PROVE s[j][1] <= s[k][1]
  <2>1. s[j][1] \in Int /\ s[k][1] \in Int
    BY <1>2
  <2>2. CASE j = k
    BY <2>1, <2>2
  <2>3. CASE j < k
    BY <1>3, <2>1, <2>3 DEF Before
  <2> QED
    BY <1>4, <2>2, <2>3
<1>5. /\ \A k \in 1..Len(s) : \E j \in DOMAIN rules : s[k] = rules[j][d]
      /\ \A j \in DOMAIN rules : \E k \in 1..Len(s) : s[k] = rules[j][d]
  BY <1>1 DEF SortOf
<1> QED
  BY <1>1, <1>2, <1>4, <1>5

LEMMA LowsBySort ==
  ASSUME NEW rules, NEW d, NEW s, SortOf(rules, d, s)
  PROVE  /\ \A x : x \in Lows(rules, d) <=> \E k \in 1..Len(s) : x = s[k][1]
         /\ Min(Lows(rules, d)) = s[1][1]
<1> DEFINE L == Lows(rules, d)
<1>1. \A x : x \in L <=> \E k \in 1..Len(s) : x = s[k][1]
  <2>1. \A x : x \in L <=> \E j \in DOMAIN rules : x = rules[j][d][1]
    BY DEF Lows
  <2>2. /\ \A k \in 1..Len(s) : \E j \in DOMAIN rules : s[k] = rules[j][d]
        /\ \A j \in DOMAIN rules : \E k \in 1..Len(s) : s[k] = rules[j][d]
    BY SortIs
  <2> HIDE DEF L
  <2> QED
    BY <2>1, <2>2
<1>2. L \in SUBSET Nat /\ s[1][1] \in L /\ \A x \in L : s[1][1] <= x
  <2>1. 1 \in 1..Len(s)
    BY SortIs
  <2>2. \A k \in 1..Len(s) : s[k][1] \in 0..MaxVal /\ 1 <= k
    BY SortIs
  <2>3. \A k \in 1..Len(s) : s[1][1] <= s[k][1]
    BY <2>1, <2>2, SortIs
  <2> HIDE DEF L
  <2> QED
    BY <1>1, <2>1, <2>2, <2>3
<1> HIDE DEF L
<1>3. Min(L) \in L /\ \A x \in L : Min(L) <= x
  BY <1>2, MinIs
<1>4. Min(L) \in Nat /\ s[1][1] \in Nat /\ Min(L) <= s[1][1] /\ s[1][1] <= Min(L)
  BY <1>2, <1>3
<1>5. Min(L) = s[1][1]
  BY <1>4
<1> QED
  BY <1>1, <1>5 DEF L

(* The ends of the segments, read off the sorted ranges.                   *)
EndOf(s, e) ==
  \/ \E k \in 1..Len(s) : s[k][1] <= s[k][2] /\ e = s[k][2]
  \/ \E k \in 1..Len(s) :
       /\ e = s[k][1] - 1 /\ s[k][1] > s[1][1]
       /\ \A j \in 1..Len(s) : ~(s[j][1] < s[k][1] /\ s[j][2] = s[k][1])

LEMMA EndsBySort ==
  ASSUME NEW rules, NEW d, NEW s, SortOf(rules, d, s)
  PROVE  /\ \A e : e \in Ends(rules, d) <=> EndOf(s, e)
         /\ Ends(rules, d) \in SUBSET (0..MaxVal)
         /\ \A e \in Ends(rules, d) : s[1][1] <= e
<1>0. /\ \A k \in 1..Len(s) : \E j \in DOMAIN rules : s[k] = rules[j][d]
      /\ \A j \in DOMAIN rules : \E k \in 1..Len(s) : s[k] = rules[j][d]
  BY SortIs
<1>1. \A e : e \in Highs(rules, d) <=> \E k \in 1..Len(s) : s[k][1] <= s[k][2] /\ e = s[k][2]
  <2>1. \A e : e \in Highs(rules, d) <=>
                 \E j \in DOMAIN rules : rules[j][d][1] <= rules[j][d][2] /\ e = rules[j][d][2]
    BY DEF Highs
  <2> QED
    BY <1>0, <2>1
<1>2. \A x : x \in CutsBefore(rules, d) <=>
               \E k \in 1..Len(s) :
                 /\ x = s[k][1] /\ s[k][1] > s[1][1]
                 /\ \A j \in 1..Len(s) : ~(s[j][1] < s[k][1] /\ s[j][2] = s[k][1])
  <2>1. \A x : x \in CutsBefore(rules, d) <=>
                 /\ x \in Lows(rules, d) /\ x > s[1][1]
                 /\ \A k \in DOMAIN rules : ~(rules[k][d][1] < x /\ rules[k][d][2] = x)
    BY LowsBySort DEF CutsBefore
  <2>2. \A x : (\A k \in DOMAIN rules : ~(rules[k][d][1] < x /\ rules[k][d][2] = x)) <=>
               (\A j \in 1..Len(s) : ~(s[j][1] < x /\ s[j][2] = x))
    BY <1>0
  <2>3. \A x : x \in Lows(rules, d) <=> \E k \in 1..Len(s) : x = s[k][1]
    BY LowsBySort
  <2> DEFINE Clear(x) == \A j \in 1..Len(s) : ~(s[j][1] < x /\ s[j][2] = x)
  <2>4. \A x : x \in CutsBefore(rules, d) <=> x \in Lows(rules, d) /\ x > s[1][1] /\ Clear(x)
    BY <2>1, <2>2
  <2>5. \A k \in 1..Len(s) : Clear(s[k][1]) <=>
            \A j \in 1..Len(s) : ~(s[j][1] < s[k][1] /\ s[j][2] = s[k][1])
    OBVIOUS
  <2> HIDE DEF Clear
  <2> QED
    BY <2>3, <2>4, <2>5
<1>3. \A e : e \in Ends(rules, d) <=>
               e \in Highs(rules, d) \/ \E x \in CutsBefore(rules, d) : e = x - 1
  BY DEF Ends
<1>4. \A e : e \in Ends(rules, d) <=> EndOf(s, e)
  BY <1>1, <1>2, <1>3 DEF EndOf
<1>5. ASSUME NEW e, EndOf(s, e) PROVE e \in 0..MaxVal /\ s[1][1] <= e
  <2>1. 1 \in 1..Len(s) /\ s[1][1] \in 0..MaxVal
    BY SortIs
  <2>2. ASSUME NEW k \in 1..Len(s), s[k][1] <= s[k][2], e = s[k][2]
        PROVE  e \in 0..MaxVal /\ s[1][1] <= e
    <3>1. s[1][1] <= s[k][1] /\ s[k][1] \in 0..MaxVal /\ s[k][2] \in 0..MaxVal
      BY <2>1, SortIs
    <3> QED
      BY <2>1, <2>2, <3>1
  <2>3. ASSUME NEW k \in 1..Len(s), e = s[k][1] - 1, s[k][1] > s[1][1]
        PROVE  e \in 0..MaxVal /\ s[1][1] <= e
    <3>1. s[k][1] \in 0..MaxVal
      BY SortIs
    <3> QED
      BY <2>1, <2>3, <3>1
  <2> QED
    BY <1>5, <2>2, <2>3 DEF EndOf
<1> QED
  BY <1>4, <1>5

LEMMA SegLowIs ==
  ASSUME NEW rules, NEW d, NEW s, SortOf(rules, d, s), NEW e
  PROVE  /\ (\A f \in Ends(rules, d) : ~(f < e)) => SegLow(rules, d, e) = s[1][1]
         /\ \A f \in Ends(rules, d) :
              (f < e /\ \A g \in Ends(rules, d) : g < e => g <= f) => SegLow(rules, d, e) = f + 1
<1> DEFINE B == {f \in Ends(rules, d) : f < e}
<1>1. SegLow(rules, d, e) = IF B = {} THEN s[1][1] ELSE Max(B) + 1
  BY LowsBySort DEF SegLow
<1>2. B \in SUBSET (0..MaxVal)
  BY EndsBySort
<1>3. ASSUME NEW f \in B, \A g \in B : g <= f PROVE Max(B) = f
  <2> HIDE DEF B
  <2>1. Max(B) \in B /\ \A x \in B : x <= Max(B)
    BY <1>2, MaxIs
  <2>2. f <= Max(B) /\ Max(B) <= f
    BY <1>3, <2>1
  <2>3. f \in 0..MaxVal /\ Max(B) \in 0..MaxVal
    BY <1>2, <2>1
  <2> QED
    BY <2>2, <2>3
<1>4. ASSUME NEW f \in Ends(rules, d), f < e, \A g \in Ends(rules, d) : g < e => g <= f
      PROVE  SegLow(rules, d, e) = f + 1
  <2>1. f \in B /\ B # {} /\ \A g \in B : g <= f
    BY <1>4
  <2> HIDE DEF B
  <2> QED
    BY <1>1, <1>3, <2>1
<1> QED
  BY <1>1, <1>4

(* A heap that is not empty has a top.                                     *)
LEMMA TopIs ==
  ASSUME NEW h \in [Value -> Nat], NEW T, T = {v \in Value : h[v] > 0}, T # {}
  PROVE  Min(T) \in 0..MaxVal /\ h[Min(T)] > 0 /\ \A v \in Value : h[v] > 0 => Min(T) <= v
<1>1. T \in SUBSET Nat
  BY DEF Value
<1>2. Min(T) \in T /\ \A x \in T : Min(T) <= x
  BY <1>1, MinIs
<1> QED
  BY <1>2 DEF Value

-----------------------------------------------------------------------------
(* The parts of Tiles: where the output and start are, where the heap is.  *)
Laid ==
  /\ \A k \in 1..Len(out) - 1 : out[k + 1][1] = out[k][2] + 1
  /\ IF out = <<>> THEN start = Min(Lows(l, dim))
                   ELSE out[1][1] = Min(Lows(l, dim)) /\ start = out[Len(out)][2] + 1

Behind ==
  \A v \in InHeap : v >= start - 1 \/ \E k \in DOMAIN l : v = l[k][dim][2] /\ v < l[k][dim][1]

LEMMA TilesIs == Tiles <=> Laid /\ Behind
  BY DEF Tiles, Laid, Behind

LEMMA CountIs == Count = Cardinality(Slots(heap))
  BY DEF Count, Slots, InHeap

(* The top of the heap.                                                    *)
LEMMA HeapTop ==
  ASSUME HeapOK, InHeap # {}
  PROVE  Top \in 0..MaxVal /\ heap[Top] > 0 /\ \A v \in Value : heap[v] > 0 => Top <= v
<1>1. heap \in [Value -> Nat] /\ InHeap = {v \in Value : heap[v] > 0}
  BY DEF HeapOK, InHeap
<1>2. Top = Min(InHeap)
  BY DEF Top
<1> HIDE DEF Top
<1> QED
  BY <1>1, <1>2, TopIs

LEMMA HeldIn ==
  ASSUME HeapOK, Held
  PROVE  \A v \in Value : heap[v] > 0 => \E k \in 1..i - 1 : sort[k][2] = v
<1>1. PICK P : P \subseteq 1..i - 1 /\ IsFiniteSet(P) /\ Holds(heap, sort, P)
  BY DEF Held
<1>2. heap \in [Value -> Nat] /\ IsFiniteSet(P) /\ Holds(heap, sort, P)
  BY <1>1 DEF HeapOK
<1>3. \A v \in Value : heap[v] > 0 => \E k \in P : sort[k][2] = v
  BY <1>2, HoldsIn
<1> QED
  BY <1>1, <1>3

(* A high at the top of the heap and not behind start ends a segment, and  *)
(* the next one.                                                           *)
LEMMA TopEnds ==
  ASSUME Given, HeapOK, Held, Front, InHeap # {}, i <= Len(sort) => Top <= sort[i][1],
         start <= Top
  PROVE  Top \in Ends(l, dim) /\ \A f \in Ends(l, dim) : ~(start <= f /\ f < Top)
<1> DEFINE n == Len(sort)
<1>1. /\ SortOf(l, dim, sort) /\ i \in 2..n + 1 /\ start \in 0..MaxVal + 1 /\ n \in Nat \ {0}
      /\ \A k \in 1..i - 1 : sort[k][1] <= start
      /\ \A k \in 1..i - 1 : sort[k][2] < start \/ heap[sort[k][2]] > 0
  BY SortIs DEF Given, Front
<1>2. /\ \A k \in 1..n : sort[k][1] \in 0..MaxVal /\ sort[k][2] \in 0..MaxVal
      /\ \A j, k \in 1..n : j <= k => sort[j][1] <= sort[k][1]
  BY <1>1, SortIs
<1>3. /\ Top \in 0..MaxVal /\ heap[Top] > 0
      /\ \A v \in 0..MaxVal : heap[v] > 0 => Top <= v
  BY HeapTop DEF Value
<1>4. PICK p \in 1..i - 1 : sort[p][2] = Top
  <2>1. i - 1 \in Nat /\ Top \in Value
    BY <1>1, <1>3 DEF Value
  <2> QED
    BY <1>3, <2>1, HeldIn
<1> HIDE DEF n
<1>5. p \in 1..n /\ sort[p][1] <= Top
  <2>1. p \in 1..n
    BY <1>1
  <2> QED
    BY <1>1, <1>2, <1>3, <2>1
<1>6. EndOf(sort, Top)
  BY <1>4, <1>5 DEF EndOf, n
<1>7. ASSUME NEW k \in 1..n, i <= k PROVE Top <= sort[k][1]
  <2>1. i \in 1..n /\ i <= n
    BY <1>1, <1>7
  <2>2. sort[i][1] <= sort[k][1] /\ Top <= sort[i][1]
    BY <1>2, <1>7, <2>1 DEF n
  <2> QED
    BY <1>2, <1>3, <2>1, <2>2
<1>8. ASSUME NEW f \in Ends(l, dim), start <= f, f < Top PROVE FALSE
  <2>1. EndOf(sort, f) /\ f \in 0..MaxVal
    BY <1>1, EndsBySort
  <2>2. ASSUME NEW k \in 1..n, sort[k][1] <= sort[k][2], f = sort[k][2] PROVE FALSE
    <3>1. CASE k < i
      <4>1. k \in 1..i - 1
        BY <1>1, <3>1
      <4>2. heap[f] > 0
        BY <1>1, <1>8, <2>1, <2>2, <4>1
      <4> QED
        BY <1>3, <1>8, <2>1, <4>2
    <3>2. CASE i <= k
      BY <1>2, <1>3, <1>7, <1>8, <2>2, <3>2
    <3> QED
      BY <1>1, <3>1, <3>2
  <2>3. ASSUME NEW k \in 1..n, f = sort[k][1] - 1,
               \A j \in 1..n : ~(sort[j][1] < sort[k][1] /\ sort[j][2] = sort[k][1])
        PROVE  FALSE
    <3>1. sort[k][1] \in 0..MaxVal
      BY <1>2
    <3>2. CASE k < i
      <4>1. k \in 1..i - 1
        BY <1>1, <3>2
      <4> QED
        BY <1>1, <1>8, <2>3, <3>1, <4>1
    <3>3. CASE i <= k
      <4>1. sort[k][1] = Top
        BY <1>3, <1>7, <1>8, <2>3, <3>1, <3>3
      <4>2. sort[p][1] < Top
        <5>1. p \in 1..i - 1 /\ sort[p][1] <= start /\ sort[p][1] \in 0..MaxVal
          BY <1>1, <1>2, <1>5
        <5> QED
          BY <1>1, <1>3, <1>8, <2>1, <5>1
      <4> QED
        BY <1>4, <1>5, <2>3, <4>1, <4>2
    <3> QED
      BY <1>1, <3>2, <3>3
  <2> QED
    BY <2>1, <2>2, <2>3 DEF EndOf, n
<1> QED
  BY <1>1, <1>6, <1>8, EndsBySort

(* A range that begins ahead of start, below everything in the heap, ends  *)
(* a segment before its low, and the next one.                             *)
LEMMA LowEnds ==
  ASSUME Given, HeapOK, Front, i <= Len(sort), ~Passed(sort[i][1]), start < sort[i][1]
  PROVE  /\ sort[i][1] - 1 \in Ends(l, dim)
         /\ \A f \in Ends(l, dim) : ~(start <= f /\ f < sort[i][1] - 1)
<1> DEFINE n == Len(sort)
           x == sort[i][1]
<1>1. /\ SortOf(l, dim, sort) /\ i \in 1..n /\ start \in 0..MaxVal + 1 /\ n \in Nat \ {0} /\ i >= 2
      /\ \A k \in 1..i - 1 : sort[k][1] <= start
      /\ \A k \in 1..i - 1 : sort[k][2] < start \/ heap[sort[k][2]] > 0
  BY SortIs DEF Given, Front
<1>2. /\ \A k \in 1..n : sort[k][1] \in 0..MaxVal /\ sort[k][2] \in 0..MaxVal
      /\ \A j, k \in 1..n : j <= k => sort[j][1] <= sort[k][1]
  BY <1>1, SortIs
<1>3. \A v \in 0..MaxVal : heap[v] > 0 => x < v
  <2> SUFFICES ASSUME NEW v \in 0..MaxVal, heap[v] > 0 PROVE x < v
    OBVIOUS
  <2>1. v \in InHeap
    BY DEF InHeap, Value
  <2>2. Top \in 0..MaxVal /\ Top <= v
    BY <2>1, HeapTop DEF Value
  <2>3. ~(Top <= x)
    BY <2>1 DEF Passed
  <2> QED
    BY <1>1, <1>2, <2>2, <2>3
<1>4. x \in 0..MaxVal /\ start < x
  BY <1>1, <1>2
<1>5. \A k \in 1..n : k < i => /\ sort[k][1] <= start
                               /\ sort[k][2] < start \/ x < sort[k][2]
  <2> SUFFICES ASSUME NEW k \in 1..n, k < i
               PROVE  sort[k][1] <= start /\ (sort[k][2] < start \/ x < sort[k][2])
    OBVIOUS
  <2>1. k \in 1..i - 1
    BY <1>1
  <2> QED
    BY <1>1, <1>2, <1>3, <2>1
<1>6. \A k \in 1..n : i <= k => x <= sort[k][1]
  BY <1>1, <1>2
<1> HIDE DEF x, n
<1>7. EndOf(sort, x - 1)
  <2>1. x > sort[1][1]
    <3>1. 1 \in 1..n /\ 1 < i
      BY <1>1
    <3> QED
      BY <1>1, <1>2, <1>4, <1>5, <3>1
  <2>2. ASSUME NEW j \in 1..n, sort[j][1] < x, sort[j][2] = x PROVE FALSE
    <3>1. sort[j][1] \in Int /\ j \in Int /\ i \in Int
      BY <1>1, <1>2
    <3>2. j < i
      BY <1>4, <1>6, <2>2, <3>1
    <3> QED
      BY <1>1, <1>4, <1>5, <2>2, <3>2
  <2> QED
    BY <1>1, <2>1, <2>2 DEF EndOf, x, n
<1>8. ASSUME NEW f \in Ends(l, dim), start <= f, f < x - 1 PROVE FALSE
  <2>1. EndOf(sort, f) /\ f \in 0..MaxVal
    BY <1>1, EndsBySort
  <2>2. ASSUME NEW k \in 1..n, sort[k][1] <= sort[k][2], f = sort[k][2] PROVE FALSE
    <3>1. sort[k][1] \in Int /\ k \in Int /\ i \in Int
      BY <1>1, <1>2
    <3>2. CASE k < i
      BY <1>1, <1>4, <1>5, <1>8, <2>1, <2>2, <3>2
    <3>3. CASE i <= k
      BY <1>4, <1>6, <1>8, <2>1, <2>2, <3>1, <3>3
    <3> QED
      BY <3>1, <3>2, <3>3
  <2>3. ASSUME NEW k \in 1..n, f = sort[k][1] - 1 PROVE FALSE
    <3>1. sort[k][1] \in Int /\ k \in Int /\ i \in Int
      BY <1>1, <1>2
    <3>2. CASE k < i
      BY <1>1, <1>5, <1>8, <2>1, <2>3, <3>1, <3>2
    <3>3. CASE i <= k
      BY <1>4, <1>6, <1>8, <2>1, <2>3, <3>1, <3>3
    <3> QED
      BY <3>1, <3>2, <3>3
  <2> QED
    BY <2>1, <2>2, <2>3 DEF EndOf, n
<1> QED
  BY <1>1, <1>7, <1>8, EndsBySort DEF x

(* A segment that ends at the next end keeps the output right.             *)
LEMMA Emit ==
  ASSUME Given, Cuts, Laid, start \in 0..MaxVal + 1, NEW e \in Ends(l, dim), start <= e,
         \A f \in Ends(l, dim) : ~(start <= f /\ f < e),
         out' = Append(out, <<start, e>>), start' = e + 1, l' = l, dim' = dim
  PROVE  Cuts' /\ Laid' /\ start' \in 0..MaxVal + 1 /\ Len(out') = Len(out) + 1
<1> DEFINE n == Len(out)
           E == Ends(l, dim)
           m == Min(Lows(l, dim))
<1>1. /\ out \in Seq(Interval) /\ n \in Nat /\ DOMAIN out = 1..n
      /\ \A k \in 1..n : out[k] \in Interval
      /\ \A k \in 1..n : out[k][1] \in 0..MaxVal /\ out[k][2] \in 0..MaxVal
  <2>1. out \in Seq(Interval) /\ n \in Nat /\ DOMAIN out = 1..n
    BY DEF Cuts
  <2>2. \A k \in 1..n : out[k] \in Interval
    BY <2>1
  <2> QED
    BY <2>1, <2>2 DEF Interval, Value
<1>2. e \in 0..MaxVal /\ <<start, e>> \in Interval /\ E \in SUBSET (0..MaxVal)
  <2>1. e \in 0..MaxVal /\ E \in SUBSET (0..MaxVal)
    BY EndsBySort DEF Given
  <2>2. start \in 0..MaxVal
    BY <2>1
  <2> QED
    BY <2>1, <2>2 DEF Interval, Value
<1>3. /\ out' \in Seq(Interval) /\ Len(out') = n + 1 /\ DOMAIN out' = 1..n + 1
      /\ \A k \in 1..n : out'[k] = out[k]
      /\ out'[n + 1] = <<start, e>>
  BY <1>1, <1>2
<1>4. /\ \A k \in 1..n : /\ out[k][1] <= out[k][2] /\ out[k][2] \in E /\ out[k][2] < start
                         /\ out[k][1] = SegLow(l, dim, out[k][2])
      /\ \A j, k \in 1..n : j < k => out[j][2] < out[k][1]
      /\ \A f \in E : f < start => \E k \in 1..n : out[k][2] = f
  BY <1>1 DEF Cuts
<1>5. SegLow(l, dim, e) = start
  <2>1. m = sort[1][1] /\ SortOf(l, dim, sort)
    BY LowsBySort DEF Given
  <2>2. CASE n = 0
    <3>1. \A f \in E : ~(f < e)
      BY <1>2, <1>4, <2>2
    <3>2. SegLow(l, dim, e) = m
      BY <2>1, <3>1, SegLowIs
    <3>3. out = <<>>
      BY <1>1, <2>2
    <3> QED
      BY <3>2, <3>3 DEF Laid
  <2>3. CASE n # 0
    <3>1. n \in 1..n /\ out # <<>>
      BY <1>1, <2>3
    <3>2. start = out[n][2] + 1 /\ out[n][2] \in E /\ out[n][2] \in 0..MaxVal
      BY <1>1, <1>4, <3>1 DEF Laid
    <3>3. out[n][2] < e
      BY <1>2, <3>2
    <3>4. \A g \in E : g < e => g <= out[n][2]
      BY <1>2, <3>2
    <3>5. SegLow(l, dim, e) = out[n][2] + 1
      BY <2>1, <3>2, <3>3, <3>4, SegLowIs
    <3> QED
      BY <3>2, <3>5
  <2> QED
    BY <2>2, <2>3
<1>6. start' \in 0..MaxVal + 1 /\ start' = e + 1
  BY <1>2
<1> HIDE DEF n, E, m
<1>7. \A k \in 1..n + 1 : k \in 1..n \/ k = n + 1
  BY <1>1
<1>8. Cuts'
  <2>1. \A k \in 1..n + 1 : out'[k][1] <= out'[k][2]
    BY <1>3, <1>4, <1>7
  <2>2. ASSUME NEW j \in 1..n + 1, NEW k \in 1..n + 1, j < k PROVE out'[j][2] < out'[k][1]
    <3>1. j \in 1..n
      BY <1>1, <2>2
    <3>2. CASE k \in 1..n
      BY <1>3, <1>4, <2>2, <3>1, <3>2
    <3>3. CASE k = n + 1
      BY <1>3, <1>4, <3>1, <3>3
    <3> QED
      BY <1>7, <3>2, <3>3
  <2>3. ASSUME NEW k \in 1..n + 1
        PROVE  /\ out'[k][2] \in E /\ out'[k][2] < start'
               /\ out'[k][1] = SegLow(l, dim, out'[k][2])
    <3>1. CASE k \in 1..n
      <4>1. out'[k] = out[k] /\ out[k][2] < start /\ out[k][2] \in 0..MaxVal
        BY <1>1, <1>3, <1>4, <3>1
      <4>2. out[k][2] < e + 1
        BY <1>2, <4>1
      <4> QED
        BY <1>4, <1>6, <3>1, <4>1, <4>2
    <3>2. CASE k = n + 1
      <4>1. out'[k][1] = start /\ out'[k][2] = e /\ e < e + 1
        BY <1>2, <1>3, <3>2
      <4> QED
        BY <1>5, <1>6, <4>1 DEF E
    <3> QED
      BY <1>7, <3>1, <3>2
  <2>4. ASSUME NEW f \in E, f < start' PROVE \E k \in 1..n + 1 : out'[k][2] = f
    <3>1. f < start \/ f = e
      BY <1>2, <1>6, <2>4 DEF E
    <3>2. CASE f < start
      <4>1. PICK k \in 1..n : out[k][2] = f
        BY <1>4, <3>2
      <4>2. k \in 1..n + 1 /\ out'[k] = out[k]
        BY <1>1, <1>3
      <4> QED
        BY <4>1, <4>2
    <3>3. CASE f = e
      <4>1. n + 1 \in 1..n + 1 /\ out'[n + 1][2] = e
        BY <1>1, <1>3
      <4> QED
        BY <3>3, <4>1
    <3> QED
      BY <3>1, <3>2, <3>3
  <2> QED
    BY <1>3, <2>1, <2>2, <2>3, <2>4 DEF Cuts, E
<1>9. Laid'
  <2>1. m' = m
    BY DEF m
  <2>2. out' # <<>>
    BY <1>1, <1>3
  <2>3. start' = out'[Len(out')][2] + 1
    BY <1>3, <1>6
  <2>4. out'[1][1] = m
    <3>1. CASE n = 0
      <4>1. out = <<>>
        BY <1>1, <3>1 DEF n
      <4>2. start = m
        BY <4>1 DEF Laid, m
      <4> QED
        BY <1>3, <3>1, <4>2
    <3>2. CASE n # 0
      <4>1. out # <<>> /\ 1 \in 1..n
        BY <1>1, <3>2 DEF n
      <4>2. out[1][1] = m
        BY <4>1 DEF Laid, m
      <4> QED
        BY <1>3, <4>1, <4>2
    <3> QED
      BY <3>1, <3>2
  <2>5. ASSUME NEW k \in 1..(n + 1) - 1 PROVE out'[k + 1][1] = out'[k][2] + 1
    <3>1. k \in 1..n
      BY <1>1
    <3>2. CASE k = n
      <4>1. out # <<>>
        BY <1>1, <3>1 DEF n
      <4>2. start = out[n][2] + 1
        BY <4>1 DEF Laid, n
      <4> QED
        BY <1>3, <3>1, <3>2, <4>2
    <3>3. CASE k # n
      <4>1. k \in 1..n - 1 /\ k + 1 \in 1..n
        BY <1>1, <3>1, <3>3
      <4>2. out[k + 1][1] = out[k][2] + 1
        BY <4>1 DEF Laid, n
      <4> QED
        BY <1>3, <3>1, <4>1, <4>2
    <3> QED
      BY <3>2, <3>3
  <2> QED
    BY <1>3, <2>1, <2>2, <2>3, <2>4, <2>5 DEF Laid, m
<1> QED
  BY <1>3, <1>6, <1>8, <1>9 DEF n

-----------------------------------------------------------------------------
(* The heap's two calls.                                                   *)

LEMMA OfferIs ==
  ASSUME HeapOK, NEW v \in Value, Offer(v)
  PROVE  /\ HeapOK' /\ heap' = [heap EXCEPT ![v] = @ + 1]
         /\ Count \in Nat /\ Count' = Count + 1
<1>1. /\ heap \in [Value -> Nat] /\ IsFiniteSet(Slots(heap)) /\ size \in Nat /\ size >= HEAP_SIZE
      /\ Count <= size /\ heap' = [heap EXCEPT ![v] = @ + 1]
      /\ size' = IF Count = size THEN size * 2 ELSE size
  BY DEF HeapOK, Offer
<1>2. Count = Cardinality(Slots(heap)) /\ Count' = Cardinality(Slots(heap'))
  BY DEF Count, Slots, InHeap
<1>3. /\ heap' \in [Value -> Nat] /\ IsFiniteSet(Slots(heap')) /\ Cardinality(Slots(heap)) \in Nat
      /\ Cardinality(Slots(heap')) = Cardinality(Slots(heap)) + 1
  BY <1>1, SlotsMore
<1>4. Count \in Nat /\ Count' = Count + 1
  BY <1>2, <1>3
<1>5. size' \in Nat /\ size' >= HEAP_SIZE /\ Count' <= size'
  <2>1. HEAP_SIZE \in Nat \ {0}
    BY HeapAssumption
  <2>2. size * 2 \in Nat /\ size * 2 >= size + 1
    BY <1>1, <2>1
  <2> QED
    BY <1>1, <1>4, <2>1, <2>2
<1> QED
  BY <1>1, <1>3, <1>4, <1>5 DEF HeapOK

LEMMA PollIs ==
  ASSUME HeapOK, InHeap # {}, PollTop, size' = size
  PROVE  /\ HeapOK' /\ Top \in Value /\ heap[Top] > 0 /\ heap' = [heap EXCEPT ![Top] = @ - 1]
         /\ Count \in Nat /\ Count' = Count - 1
<1>1. /\ heap \in [Value -> Nat] /\ IsFiniteSet(Slots(heap)) /\ size \in Nat /\ size >= HEAP_SIZE
      /\ Count <= size /\ heap' = [heap EXCEPT ![Top] = @ - 1]
  BY DEF HeapOK, PollTop
<1>2. Top \in Value /\ heap[Top] > 0
  BY HeapTop DEF Value
<1>3. Count = Cardinality(Slots(heap)) /\ Count' = Cardinality(Slots(heap'))
  BY DEF Count, Slots, InHeap
<1>4. /\ heap' \in [Value -> Nat] /\ IsFiniteSet(Slots(heap')) /\ Cardinality(Slots(heap)) \in Nat
      /\ Cardinality(Slots(heap')) = Cardinality(Slots(heap)) - 1
  BY <1>1, <1>2, SlotsLess
<1>5. Count \in Nat /\ Count' = Count - 1
  BY <1>3, <1>4
<1> QED
  BY <1>1, <1>2, <1>4, <1>5 DEF HeapOK

LEMMA HeldAfterPoll ==
  ASSUME HeapOK, Held, NEW w \in Value, heap[w] > 0,
         heap' = [heap EXCEPT ![w] = @ - 1], sort' = sort, i' = i
  PROVE  Held'
<1>1. PICK P : P \subseteq 1..i - 1 /\ IsFiniteSet(P) /\ Holds(heap, sort, P)
  BY DEF Held
<1> DEFINE g == heap'
<1>2. /\ heap \in [Value -> Nat] /\ IsFiniteSet(Slots(heap)) /\ IsFiniteSet(P)
      /\ Holds(heap, sort, P) /\ g = [heap EXCEPT ![w] = @ - 1]
  BY <1>1 DEF HeapOK
<1> HIDE DEF g
<1>3. PICK k \in P : Holds(g, sort, P \ {k})
  BY <1>2, HoldsLess
<1>4. P \ {k} \in SUBSET (1..i' - 1) /\ IsFiniteSet(P \ {k})
  BY <1>1, <1>2, FS_RemoveElement
<1> QED
  BY <1>3, <1>4 DEF Held, g

LEMMA HeldAfterOffer ==
  ASSUME HeapOK, Held, i \in Nat \ {0}, sort[i][2] \in Value,
         heap' = [heap EXCEPT ![sort[i][2]] = @ + 1], sort' = sort, i' = i + 1
  PROVE  Held'
<1>1. PICK P : P \subseteq 1..i - 1 /\ IsFiniteSet(P) /\ Holds(heap, sort, P)
  BY DEF Held
<1> DEFINE g == heap'
           w == sort[i][2]
<1>2. /\ heap \in [Value -> Nat] /\ IsFiniteSet(Slots(heap)) /\ IsFiniteSet(P)
      /\ Holds(heap, sort, P) /\ w \in Value /\ w = sort[i][2]
      /\ g = [heap EXCEPT ![w] = @ + 1]
  BY <1>1 DEF HeapOK
<1>3. i \notin P /\ P \union {i} \subseteq 1..i
  BY <1>1
<1>4. i' - 1 = i
  OBVIOUS
<1> HIDE DEF g, w
<1>5. Holds(g, sort, P \union {i})
  BY <1>2, <1>3, HoldsMore
<1>6. P \union {i} \in SUBSET (1..i' - 1) /\ IsFiniteSet(P \union {i})
  BY <1>2, <1>3, <1>4, FS_AddElement
<1> QED
  BY <1>5, <1>6 DEF Held, g

(* The bound on the output, from the budget.                               *)
LEMMA SweepTypes ==
  ASSUME pc = "sweep", HeapOK, Given, Sweeping
  PROVE  TypeOK /\ Len(out) <= Room
<1>1. /\ l \in Lists /\ dim \in Dims /\ i \in 2..Len(sort) + 1 /\ start \in 0..MaxVal + 1
      /\ out \in Seq(Interval) /\ \A k \in DOMAIN out : out[k][1] <= out[k][2]
      /\ Len(sort) \in 1..Cardinality(DOMAIN l) /\ Len(out) + Count < 2 * (i - 1)
  BY DEF Given, SortOf, Sweeping, Front, Cuts, Budget
<1>2. DOMAIN l # {} /\ IsFiniteSet(DOMAIN l)
  BY <1>1, ListsAssumption
<1>3. Cardinality(DOMAIN l) \in Nat
  BY <1>2, FS_CardinalityType
<1>4. Count \in Nat
  <2>1. IsFiniteSet(Slots(heap))
    BY DEF HeapOK
  <2> QED
    BY <2>1, CountIs, FS_CardinalityType
<1>5. Len(out) \in Nat /\ Len(out) <= 2 * Cardinality(DOMAIN l)
  BY <1>1, <1>3, <1>4
<1>6. \A k \in DOMAIN out : out[k] \in Interval
  BY <1>1
<1> QED
  BY <1>1, <1>2, <1>3, <1>5, <1>6 DEF TypeOK, Room, HeapOK

LEMMA InvTypes == IInv => TypeOK /\ (pc # "idle" => Len(out) <= Room)
<1>1. CASE pc = "sweep"
  BY <1>1, SweepTypes DEF IInv
<1> QED
  BY <1>1 DEF IInv

-----------------------------------------------------------------------------
(* The steps.                                                              *)

LEMMA PollStep ==
  ASSUME IInv, pc = "sweep", InHeap # {}, i <= Len(sort) => Top <= sort[i][1],
         Close, PollTop, UNCHANGED <<pc, l, dim, sort, i, size>>
  PROVE  IInv'
<1>1. /\ Given /\ HeapOK /\ Held /\ Front /\ Cuts /\ Laid /\ Behind /\ Budget
  BY TilesIs DEF IInv, Sweeping
<1>2. /\ HeapOK' /\ Top \in Value /\ heap[Top] > 0 /\ heap' = [heap EXCEPT ![Top] = @ - 1]
      /\ Count \in Nat /\ Count' = Count - 1
  BY <1>1, PollIs
<1>3. /\ i \in 2..Len(sort) + 1 /\ start \in 0..MaxVal + 1 /\ Len(sort) \in Nat /\ Top \in 0..MaxVal
      /\ heap \in [Value -> Nat] /\ i - 1 \in Nat /\ Len(out) \in Nat
      /\ \A k \in 1..i - 1 : sort[k][1] \in 0..MaxVal /\ sort[k][2] \in 0..MaxVal
      /\ i <= Len(sort) => sort[i][1] \in 0..MaxVal
  <2>1. SortOf(l, dim, sort)
    BY <1>1 DEF Given
  <2>2. /\ Len(sort) \in Nat \ {0}
        /\ \A k \in 1..Len(sort) : sort[k][1] \in 0..MaxVal /\ sort[k][2] \in 0..MaxVal
    BY <2>1, SortIs
  <2>3. i \in 2..Len(sort) + 1 /\ start \in 0..MaxVal + 1 /\ out \in Seq(Interval)
    BY <1>1 DEF Front, Cuts
  <2>4. \A k \in 1..i - 1 : k \in 1..Len(sort)
    BY <2>2, <2>3
  <2>5. heap \in [Value -> Nat] /\ Top \in 0..MaxVal
    BY <1>1, <1>2 DEF HeapOK, Value
  <2>6. i - 1 \in Nat /\ Len(out) \in Nat
    BY <2>2, <2>3
  <2>7. i <= Len(sort) => i \in 1..Len(sort)
    BY <2>2, <2>3
  <2> QED
    BY <2>2, <2>3, <2>4, <2>5, <2>6, <2>7
<1>4. Given'
  BY <1>1 DEF Given
<1>5. Held'
  BY <1>1, <1>2, <1>3, HeldAfterPoll
<1>6. /\ Cuts' /\ Laid' /\ start' \in 0..MaxVal + 1
      /\ Len(out') \in Nat /\ Len(out') <= Len(out) + 1
      /\ start' = start \/ (start <= Top /\ start' = Top + 1)
      /\ Top < start'
  <2>1. CASE start <= Top
    <3>1. Top \in Ends(l, dim) /\ \A f \in Ends(l, dim) : ~(start <= f /\ f < Top)
      BY <1>1, <2>1, TopEnds
    <3>2. out' = Append(out, <<start, Top>>) /\ start' = Top + 1
      BY <2>1 DEF Close, Long
    <3>3. Cuts' /\ Laid' /\ start' \in 0..MaxVal + 1 /\ Len(out') = Len(out) + 1
      BY <1>1, <1>3, <2>1, <3>1, <3>2, Emit
    <3> QED
      BY <1>3, <2>1, <3>2, <3>3
  <2>2. CASE ~(start <= Top)
    <3>1. out' = out /\ start' = start
      BY <2>2 DEF Close
    <3> QED
      BY <1>1, <1>3, <2>2, <3>1 DEF Cuts, Laid
  <2> QED
    BY <2>1, <2>2
<1>7. start <= start'
  BY <1>3, <1>6
<1>8. Front'
  <2>1. ASSUME NEW k \in 1..i - 1 PROVE sort[k][1] <= start'
    <3>1. sort[k][1] <= start
      BY <1>1 DEF Front
    <3> QED
      BY <1>3, <1>6, <1>7, <3>1
  <2>2. ASSUME NEW k \in 1..i - 1 PROVE sort[k][2] < start' \/ heap'[sort[k][2]] > 0
    <3>1. sort[k][2] < start \/ heap[sort[k][2]] > 0
      BY <1>1 DEF Front
    <3>2. sort[k][2] \in 0..MaxVal /\ sort[k][2] \in Value
      BY <1>3 DEF Value
    <3>3. CASE sort[k][2] = Top
      BY <1>6, <3>3
    <3>4. CASE sort[k][2] # Top
      <4>1. heap'[sort[k][2]] = heap[sort[k][2]]
        BY <1>2, <1>3, <3>2, <3>4
      <4> QED
        BY <1>3, <1>6, <1>7, <3>1, <3>2, <4>1
    <3> QED
      BY <3>3, <3>4
  <2>3. i <= Len(sort) => start' <= sort[i][1] + 1
    <3>1. i <= Len(sort) => start <= sort[i][1] + 1
      BY <1>1 DEF Front
    <3> QED
      BY <1>3, <1>6, <3>1
  <2> QED
    BY <1>3, <1>6, <2>1, <2>2, <2>3 DEF Front
<1>9. Behind'
  <2> SUFFICES ASSUME NEW v \in InHeap'
               PROVE  v >= start' - 1 \/ \E k \in DOMAIN l : v = l[k][dim][2] /\ v < l[k][dim][1]
    BY DEF Behind
  <2>1. v \in Value /\ heap'[v] > 0
    BY DEF InHeap
  <2>2. heap[v] > 0
    <3>1. CASE v = Top
      BY <1>2, <3>1
    <3>2. CASE v # Top
      BY <1>2, <1>3, <2>1, <3>2
    <3> QED
      BY <3>1, <3>2
  <2>3. Top <= v /\ v \in InHeap /\ v \in 0..MaxVal
    BY <1>1, <2>1, <2>2, HeapTop DEF InHeap, Value
  <2>4. v >= start - 1 \/ \E k \in DOMAIN l : v = l[k][dim][2] /\ v < l[k][dim][1]
    BY <1>1, <2>3 DEF Behind
  <2>5. CASE start' = start
    BY <2>4, <2>5
  <2>6. CASE start' = Top + 1
    BY <1>3, <2>3, <2>6
  <2> QED
    BY <1>6, <2>5, <2>6
<1>10. Budget'
  <2>1. Len(out) + Count < 2 * (i - 1)
    BY <1>1 DEF Budget
  <2> QED
    BY <1>2, <1>3, <1>6, <2>1 DEF Budget
<1>11. Tiles'
  BY <1>6, <1>9 DEF Tiles, Laid, Behind
<1> QED
  BY <1>2, <1>4, <1>5, <1>6, <1>8, <1>10, <1>11
     DEF IInv, Sweeping, HeapDrained, SegsMatch, CrashNeedsOverlap

LEMMA NextRangeStep ==
  ASSUME IInv, NextRange
  PROVE  IInv'
<1> DEFINE n   == Len(sort)
           low == sort[i][1]
<1>1. /\ Given /\ HeapOK /\ Held /\ Front /\ Cuts /\ Laid /\ Behind /\ Budget
      /\ pc = "sweep" /\ pc' = pc /\ l' = l /\ dim' = dim /\ sort' = sort /\ i' = i + 1
      /\ i <= Len(sort) /\ ~Passed(sort[i][1]) /\ Offer(sort[i][2])
  BY TilesIs DEF IInv, Sweeping, NextRange
<1>2. /\ SortOf(l, dim, sort) /\ i \in 2..n + 1 /\ start \in 0..MaxVal + 1
      /\ out \in Seq(Interval) /\ Len(out) \in Nat
  BY <1>1 DEF Given, Front, Cuts
<1>3. /\ n \in Nat \ {0} /\ i \in 1..n /\ i \in Nat \ {0}
      /\ \A k \in 1..n : sort[k][1] \in 0..MaxVal /\ sort[k][2] \in 0..MaxVal
      /\ \A j, k \in 1..n : j <= k => sort[j][1] <= sort[k][1]
  <2>1. /\ n \in Nat \ {0}
        /\ \A k \in 1..n : sort[k][1] \in 0..MaxVal /\ sort[k][2] \in 0..MaxVal
        /\ \A j, k \in 1..n : j <= k => sort[j][1] <= sort[k][1]
    BY <1>2, SortIs
  <2>2. i \in Nat \ {0} /\ i \in 1..n
    BY <1>1, <1>2, <2>1
  <2> QED
    BY <2>1, <2>2
<1>4. low \in 0..MaxVal /\ sort[i][2] \in 0..MaxVal /\ sort[i][2] \in Value
  BY <1>3 DEF Value
<1>5. /\ HeapOK' /\ heap' = [heap EXCEPT ![sort[i][2]] = @ + 1]
      /\ Count \in Nat /\ Count' = Count + 1 /\ heap \in [Value -> Nat]
  BY <1>1, <1>4, OfferIs DEF HeapOK
<1>6. Given'
  BY <1>1 DEF Given
<1>7. Held'
  BY <1>1, <1>3, <1>4, <1>5, HeldAfterOffer
<1>8. start <= low + 1
  BY <1>1 DEF Front
<1>9. \A v \in Value : heap[v] > 0 => low < v
  <2> SUFFICES ASSUME NEW v \in Value, heap[v] > 0 PROVE low < v
    OBVIOUS
  <2>1. v \in InHeap
    BY DEF InHeap
  <2>2. Top \in 0..MaxVal /\ Top <= v /\ v \in 0..MaxVal
    BY <1>1, <2>1, HeapTop DEF Value
  <2>3. ~(Top <= low)
    BY <1>1, <2>1 DEF Passed
  <2> QED
    BY <1>4, <2>2, <2>3
<1> HIDE DEF n, low
<1>10. /\ Cuts' /\ Laid' /\ start' \in 0..MaxVal + 1
       /\ Len(out') \in Nat /\ Len(out') <= Len(out) + 1
       /\ (start < low /\ start' = low) \/ (low <= start /\ start' = start)
  <2>1. CASE start < low
    <3> DEFINE e == low - 1
    <3>1. e \in Ends(l, dim) /\ \A f \in Ends(l, dim) : ~(start <= f /\ f < e)
      BY <1>1, <2>1, LowEnds DEF low
    <3>2. out' = Append(out, <<start, e>>) /\ start' = low
      BY <2>1 DEF NextRange, low
    <3>3. start <= e /\ start' = e + 1
      BY <1>2, <1>4, <2>1, <3>2
    <3> HIDE DEF e
    <3>4. Cuts' /\ Laid' /\ start' \in 0..MaxVal + 1 /\ Len(out') = Len(out) + 1
      BY <1>1, <1>2, <3>1, <3>2, <3>3, Emit
    <3> QED
      BY <1>2, <2>1, <3>2, <3>4
  <2>2. CASE ~(start < low)
    <3>1. out' = out /\ start' = start
      BY <2>2 DEF NextRange, low
    <3>2. low <= start
      BY <1>2, <1>4, <2>2
    <3> QED
      BY <1>1, <1>2, <3>1, <3>2 DEF Cuts, Laid
  <2> QED
    BY <2>1, <2>2
<1>11. start <= start' /\ low <= start' /\ start' <= low + 1
  BY <1>2, <1>4, <1>8, <1>10
<1>12. Front'
  <2>1. \A k \in 1..i : k \in 1..i - 1 \/ k = i
    BY <1>3
  <2>2. ASSUME NEW k \in 1..i PROVE sort[k][1] <= start'
    <3>1. CASE k \in 1..i - 1
      <4>1. sort[k][1] <= start /\ k \in 1..n
        BY <1>1, <1>3, <3>1 DEF Front
      <4>2. sort[k][1] \in 0..MaxVal
        BY <1>3, <4>1
      <4> QED
        BY <1>2, <1>10, <1>11, <4>1, <4>2
    <3>2. CASE k = i
      BY <1>11, <3>2 DEF low
    <3> QED
      BY <2>1, <3>1, <3>2
  <2>3. ASSUME NEW k \in 1..i PROVE sort[k][2] < start' \/ heap'[sort[k][2]] > 0
    <3>1. k \in 1..n
      BY <1>3
    <3>2. sort[k][2] \in 0..MaxVal /\ sort[k][2] \in Value /\ heap[sort[k][2]] \in Nat
      BY <1>3, <1>5, <3>1 DEF Value
    <3>3. CASE sort[k][2] = sort[i][2]
      <4>1. heap'[sort[k][2]] = heap[sort[k][2]] + 1
        BY <1>5, <3>2, <3>3
      <4> QED
        BY <3>2, <4>1
    <3>4. CASE sort[k][2] # sort[i][2]
      <4>1. k \in 1..i - 1
        BY <2>1, <3>4
      <4>2. sort[k][2] < start \/ heap[sort[k][2]] > 0
        BY <1>1, <4>1 DEF Front
      <4>3. heap'[sort[k][2]] = heap[sort[k][2]]
        BY <1>5, <3>2, <3>4
      <4> QED
        BY <1>2, <1>10, <1>11, <3>2, <4>2, <4>3
    <3> QED
      BY <3>3, <3>4
  <2>4. i + 1 <= n => start' <= sort[i + 1][1] + 1
    <3> SUFFICES ASSUME i + 1 <= n PROVE start' <= sort[i + 1][1] + 1
      OBVIOUS
    <3>1. i + 1 \in 1..n /\ i <= i + 1
      BY <1>3
    <3>2. low <= sort[i + 1][1] /\ sort[i + 1][1] \in 0..MaxVal
      BY <1>3, <3>1 DEF low
    <3> QED
      BY <1>4, <1>10, <1>11, <3>2
  <2>5. i + 1 \in 2..n + 1 /\ (i + 1) - 1 = i
    BY <1>3
  <2> QED
    BY <1>1, <1>10, <2>2, <2>3, <2>4, <2>5 DEF Front, n
<1>13. Behind'
  <2> SUFFICES ASSUME NEW v \in InHeap'
               PROVE  v >= start' - 1 \/ \E k \in DOMAIN l : v = l[k][dim][2] /\ v < l[k][dim][1]
    BY <1>1 DEF Behind
  <2>1. v \in Value /\ v \in 0..MaxVal /\ heap'[v] > 0
    BY DEF InHeap, Value
  <2>2. CASE v # sort[i][2]
    <3>1. heap[v] > 0
      BY <1>4, <1>5, <2>1, <2>2
    <3>2. low < v
      BY <1>9, <2>1, <3>1
    <3> QED
      BY <1>4, <1>10, <1>11, <2>1, <3>2
  <2>3. CASE v = sort[i][2] /\ low <= v
    BY <1>4, <1>10, <1>11, <2>1, <2>3
  <2>4. CASE v = sort[i][2] /\ v < low
    <3>1. PICK k \in DOMAIN l : sort[i] = l[k][dim]
      BY <1>2, <1>3, SortIs DEF n
    <3> QED
      BY <2>4, <3>1 DEF low
  <2> QED
    BY <1>4, <2>1, <2>2, <2>3, <2>4
<1>14. Budget'
  <2>1. Len(out) + Count < 2 * (i - 1)
    BY <1>1 DEF Budget
  <2>2. i' - 1 = i
    BY <1>1, <1>3
  <2> QED
    BY <1>2, <1>3, <1>5, <1>10, <2>1, <2>2 DEF Budget
<1>15. Tiles'
  BY <1>10, <1>13 DEF Tiles, Laid, Behind
<1> QED
  BY <1>1, <1>5, <1>6, <1>7, <1>10, <1>12, <1>14, <1>15
     DEF IInv, Sweeping, HeapDrained, SegsMatch, CrashNeedsOverlap

LEMMA NextRangeFailsStep ==
  ASSUME IInv, NextRangeFails
  PROVE  IInv'
<1>1. /\ Given /\ HeapOK /\ Held /\ Front /\ TypeOK /\ Len(out) <= Room
      /\ pc = "sweep" /\ pc' = "crashed"
      /\ UNCHANGED <<l, dim, sort, i, start, out, heap, size>>
      /\ i <= Len(sort) /\ ~Passed(sort[i][1]) /\ Count = size
  BY InvTypes DEF IInv, Sweeping, NextRangeFails, OfferFails
<1>2. /\ SortOf(l, dim, sort) /\ i \in 2..Len(sort) + 1
  BY <1>1 DEF Given, Front
<1> DEFINE n    == Len(sort)
           x    == sort[i][1]
           Over == {k \in DOMAIN sort : sort[k][1] <= x /\ x < sort[k][2]}
<1>3. /\ n \in Nat \ {0} /\ i \in 1..n /\ DOMAIN sort = 1..n
      /\ \A k \in 1..n : sort[k][1] \in 0..MaxVal /\ sort[k][2] \in 0..MaxVal
      /\ \A j, k \in 1..n : j <= k => sort[j][1] <= sort[k][1]
  <2>1. /\ n \in Nat \ {0} /\ DOMAIN sort = 1..n
        /\ \A k \in 1..n : sort[k][1] \in 0..MaxVal /\ sort[k][2] \in 0..MaxVal
        /\ \A j, k \in 1..n : j <= k => sort[j][1] <= sort[k][1]
    BY <1>2, SortIs
  <2> QED
    BY <1>1, <1>2, <2>1
<1>4. PICK P : P \subseteq 1..i - 1 /\ IsFiniteSet(P) /\ Holds(heap, sort, P)
  BY <1>1 DEF Held
<1>5. P \subseteq Over
  <2> SUFFICES ASSUME NEW k \in P PROVE k \in 1..n /\ sort[k][1] <= x /\ x < sort[k][2]
    BY <1>3
  <2>1. k \in 1..n /\ k <= i
    BY <1>3, <1>4
  <2>2. sort[k][1] <= x /\ sort[k][2] \in Value /\ x \in 0..MaxVal
    BY <1>3, <2>1 DEF Value
  <2>3. heap[sort[k][2]] > 0
    <3>1. heap \in [Value -> Nat] /\ IsFiniteSet(P) /\ Holds(heap, sort, P)
      BY <1>1, <1>4 DEF HeapOK
    <3>2. \A j \in P : sort[j][2] \in Value => heap[sort[j][2]] > 0
      BY <3>1, HoldsIn
    <3> QED
      BY <2>2, <3>2
  <2>4. sort[k][2] \in InHeap
    BY <2>2, <2>3 DEF InHeap
  <2>5. Top \in 0..MaxVal /\ Top <= sort[k][2] /\ sort[k][2] \in 0..MaxVal
    BY <1>1, <2>2, <2>3, <2>4, HeapTop DEF Value
  <2>6. ~(Top <= x)
    BY <1>1, <2>4 DEF Passed
  <2> QED
    BY <2>1, <2>2, <2>5, <2>6
<1>6. IsFiniteSet(Over) /\ Cardinality(Over) \in Nat
  <2>1. IsFiniteSet(1..n)
    BY <1>3, FS_Interval
  <2>2. Over \in SUBSET (1..n)
    BY <1>3
  <2> HIDE DEF Over
  <2> QED
    BY <2>1, <2>2, FS_Subset, FS_CardinalityType
<1>7. Cardinality(P) <= Cardinality(Over)
  <2> HIDE DEF Over
  <2>1. P \in SUBSET Over
    BY <1>5
  <2> QED
    BY <1>6, <2>1, FS_Subset
<1>8. Cardinality(P) = size /\ size \in Nat /\ size >= HEAP_SIZE
  BY <1>1, <1>4, CountIs DEF Holds, HeapOK
<1>9. Cardinality(Over) >= HEAP_SIZE
  <2> HIDE DEF Over
  <2> QED
    BY <1>6, <1>7, <1>8, HeapAssumption
<1>10. x \in Lows(l, dim)
  BY <1>2, <1>3, LowsBySort
<1>11. CrashNeedsOverlap'
  BY <1>1, <1>9, <1>10 DEF CrashNeedsOverlap, Lows
<1> QED
  BY <1>1, <1>11 DEF IInv, HeapOK, HeapDrained, Given, TypeOK, SegsMatch, Room, Count, InHeap

LEMMA ReturnStep ==
  ASSUME IInv, Return
  PROVE  IInv'
<1>1. /\ Given /\ HeapOK /\ Front /\ Cuts /\ TypeOK /\ Len(out) <= Room
      /\ pc = "sweep" /\ pc' = "done" /\ InHeap = {} /\ ~(i <= Len(sort))
      /\ UNCHANGED <<l, dim, sort, i, start, out, heap, size>>
  <2>1. /\ pc = "sweep" /\ pc' = "done" /\ InHeap = {} /\ i > Len(sort)
        /\ UNCHANGED <<l, dim, sort, i, start, out, heap, size>>
    BY DEF Return, Drained
  <2>2. Given /\ HeapOK /\ Front /\ Cuts /\ TypeOK /\ Len(out) <= Room
    BY <2>1, InvTypes DEF IInv, Sweeping
  <2>3. i \in Nat /\ Len(sort) \in Nat
    BY <2>2 DEF Given, SortOf, Front
  <2> QED
    BY <2>1, <2>2, <2>3
<1>2. /\ SortOf(l, dim, sort) /\ i = Len(sort) + 1 /\ start \in 0..MaxVal + 1
      /\ \A k \in 1..Len(sort) : sort[k][1] <= start
      /\ \A k \in 1..Len(sort) : sort[k][2] < start \/ heap[sort[k][2]] > 0
  <2>1. SortOf(l, dim, sort) /\ i \in 2..Len(sort) + 1 /\ start \in 0..MaxVal + 1
    BY <1>1 DEF Given, Front
  <2>2. Len(sort) \in Nat
    BY <2>1, SortIs
  <2>3. i = Len(sort) + 1 /\ i - 1 = Len(sort)
    BY <1>1, <2>1, <2>2
  <2> QED
    BY <1>1, <2>1, <2>3 DEF Front
<1>3. \A k \in 1..Len(sort) : sort[k][1] \in 0..MaxVal /\ sort[k][2] \in 0..MaxVal
  BY <1>2, SortIs
<1>4. \A k \in 1..Len(sort) : sort[k][2] < start
  BY <1>1, <1>2, <1>3 DEF InHeap, Value
<1>5. \A e \in Ends(l, dim) : e < start
  <2> SUFFICES ASSUME NEW e \in Ends(l, dim) PROVE e < start
    OBVIOUS
  <2>1. EndOf(sort, e)
    BY <1>2, EndsBySort
  <2>2. ASSUME NEW k \in 1..Len(sort), e = sort[k][1] - 1 PROVE e < start
    BY <1>2, <1>3, <2>2
  <2> QED
    BY <1>4, <2>1, <2>2 DEF EndOf
<1>6. SegsMatch'
  <2>1. /\ \A k \in DOMAIN out : out[k] \in Interval /\ out[k] = <<out[k][1], out[k][2]>>
        /\ \A j, k \in DOMAIN out : j < k => out[j][2] < out[k][1]
        /\ \A k \in DOMAIN out : out[k][2] \in Ends(l, dim) /\ out[k][1] = SegLow(l, dim, out[k][2])
        /\ \A e \in Ends(l, dim) : \E k \in DOMAIN out : out[k][2] = e
    <3>1. out \in Seq(Interval)
      BY <1>1 DEF Cuts
    <3>2. \A k \in DOMAIN out : out[k] \in Interval
      BY <3>1
    <3>3. \A k \in DOMAIN out : out[k] = <<out[k][1], out[k][2]>>
      BY <3>2 DEF Interval
    <3> QED
      BY <1>1, <1>5, <3>2, <3>3 DEF Cuts
  <2> DEFINE seg(e) == <<SegLow(l, dim, e), e>>
  <2>2. \A k \in DOMAIN out : out[k] = seg(out[k][2])
    BY <2>1
  <2> HIDE DEF seg
  <2>3. {out[k] : k \in DOMAIN out} = {seg(e) : e \in Ends(l, dim)}
    BY <2>1, <2>2
  <2> QED
    BY <1>1, <2>1, <2>3 DEF SegsMatch, seg
<1> QED
  BY <1>1, <1>6 DEF IInv, HeapOK, HeapDrained, Given, TypeOK, CrashNeedsOverlap, Room, Count, InHeap

LEMMA UseStep ==
  ASSUME IInv, Use
  PROVE  IInv'
<1>1. /\ HeapOK /\ HeapDrained /\ pc = "done" /\ pc' = "idle" /\ UNCHANGED <<heap, size>>
      /\ sort' = <<>> /\ i' = 0 /\ start' = 0 /\ out' = <<>>
  BY DEF IInv, Use
<1>2. HeapOK'
  BY <1>1 DEF HeapOK, Count, InHeap
<1>3. TypeOK'
  BY <1>1, <1>2 DEF TypeOK, HeapOK
<1> QED
  BY <1>1, <1>2, <1>3 DEF IInv, HeapDrained, InHeap, SegsMatch, CrashNeedsOverlap

LEMMA CallStep ==
  ASSUME IInv, pc = "idle", NEW rules \in Lists, NEW d \in Dims, Call(rules, d)
  PROVE  IInv'
<1> DEFINE S == {rules[k][d] : k \in DOMAIN rules}
           s == RangesSort(S)
           n == Cardinality(S)
<1>1. /\ pc' = "sweep" /\ l' = rules /\ dim' = d /\ sort' = s
      /\ start' = sort'[1][1] /\ Offer(sort'[1][2]) /\ i' = 2 /\ out' = <<>>
      /\ HeapOK /\ InHeap = {}
  BY DEF Call, IInv, HeapDrained
<1>2. /\ DOMAIN rules # {} /\ IsFiniteSet(DOMAIN rules)
      /\ \A k \in DOMAIN rules : rules[k][d] \in Interval
  BY ListsAssumption DEF Box
<1>3. S \in SUBSET Interval /\ IsFiniteSet(S) /\ n \in 1..Cardinality(DOMAIN rules) /\ n \in Nat
  <2> DEFINE f == [k \in DOMAIN rules |-> rules[k][d]]
  <2>1. f \in Surjection(DOMAIN rules, S)
    BY DEF Surjection
  <2>2. S \in SUBSET Interval /\ S # {}
    BY <1>2
  <2> HIDE DEF f, S
  <2>3. IsFiniteSet(S) /\ n <= Cardinality(DOMAIN rules)
    BY <1>2, <2>1, FS_Surjection
  <2>4. n \in Nat /\ Cardinality(DOMAIN rules) \in Nat /\ n # 0
    BY <1>2, <2>2, <2>3, FS_CardinalityType, FS_EmptySet
  <2> QED
    BY <2>2, <2>3, <2>4
<1>4. SortOf(rules, d, s)
  <2>1. /\ s \in Seq(Interval) /\ Len(s) = n /\ DOMAIN s = 1..n
        /\ \A j \in 1..n : s[j] \in S
        /\ \A r \in S : \E j \in 1..n : s[j] = r
        /\ \A j, k \in 1..n : j < k => Before(s[j], s[k])
    <3> HIDE DEF S
    <3>1. /\ s \in Seq(Interval) /\ Len(s) = n
          /\ \A j \in 1..n : s[j] \in S
          /\ \A r \in S : \E j \in 1..n : s[j] = r
          /\ \A j, k \in 1..n : j < k => Before(s[j], s[k])
      BY <1>3, RangesSortIs
    <3>2. DOMAIN s = 1..n
      BY <3>1
    <3> QED
      BY <3>1, <3>2
  <2> HIDE DEF s, n
  <2>2. \A k \in DOMAIN s : \E j \in DOMAIN rules : s[k] = rules[j][d]
    BY <2>1
  <2>3. \A j \in DOMAIN rules : \E k \in DOMAIN s : s[k] = rules[j][d]
    BY <2>1
  <2> QED
    BY <1>3, <2>1, <2>2, <2>3 DEF SortOf
<1> HIDE DEF S, s, n
<1>5. Given'
  BY <1>1, <1>4 DEF Given
<1>6. /\ Len(s) \in Nat \ {0} /\ 1 \in 1..Len(s)
      /\ \A k \in 1..Len(s) : s[k][1] \in 0..MaxVal /\ s[k][2] \in 0..MaxVal
      /\ \A j, k \in 1..Len(s) : j <= k => s[j][1] <= s[k][1]
  <2>1. /\ Len(s) \in Nat \ {0}
        /\ \A k \in 1..Len(s) : s[k][1] \in 0..MaxVal /\ s[k][2] \in 0..MaxVal
        /\ \A j, k \in 1..Len(s) : j <= k => s[j][1] <= s[k][1]
    BY <1>4, SortIs
  <2> QED
    BY <2>1
<1>7. s[1][1] \in 0..MaxVal /\ s[1][2] \in 0..MaxVal /\ s[1][2] \in Value
  BY <1>6 DEF Value
<1>8. /\ HeapOK' /\ heap' = [heap EXCEPT ![s[1][2]] = @ + 1]
      /\ Count \in Nat /\ Count' = Count + 1 /\ heap \in [Value -> Nat] /\ IsFiniteSet(Slots(heap))
  BY <1>1, <1>7, OfferIs DEF HeapOK
<1>9. /\ \A v \in Value : heap[v] = 0
      /\ Cardinality(Slots(heap)) = 0
  <2>1. \A v \in Value : heap[v] = 0
    BY <1>1, <1>8 DEF InHeap
  <2> QED
    BY <1>8, <2>1, SlotsNone
<1>10. Holds(heap, s, {})
  BY <1>9, FS_EmptySet DEF Holds
<1>11. Held'
  <2> DEFINE g == heap'
             w == s[1][2]
             P == {}
  <2>1. /\ IsFiniteSet(P) /\ Holds(heap, s, P) /\ w \in Value /\ w = s[1][2] /\ 1 \notin P
        /\ g = [heap EXCEPT ![w] = @ + 1] /\ heap \in [Value -> Nat] /\ IsFiniteSet(Slots(heap))
    BY <1>7, <1>8, <1>10, FS_EmptySet
  <2>2. P \union {1} = {1}
    OBVIOUS
  <2> HIDE DEF g, w, P
  <2>3. Holds(g, s, P \union {1})
    BY <2>1, HoldsMore
  <2>4. {1} \in SUBSET (1..i' - 1) /\ IsFiniteSet({1})
    <3>1. i' - 1 = 1 /\ 1 \in 1..1
      BY <1>1
    <3> QED
      BY <3>1, FS_Singleton
  <2> QED
    BY <1>1, <2>2, <2>3, <2>4 DEF Held, g
<1>12. Front'
  <2>1. \A k \in 1..2 - 1 : k = 1
    OBVIOUS
  <2>2. heap'[s[1][2]] > 0
    BY <1>7, <1>8, <1>9
  <2>3. 2 <= Len(s) => s[1][1] <= s[2][1] + 1
    <3> SUFFICES ASSUME 2 <= Len(s) PROVE s[1][1] <= s[2][1] + 1
      OBVIOUS
    <3>1. 2 \in 1..Len(s)
      BY <1>6
    <3>2. s[1][1] <= s[2][1] /\ s[2][1] \in 0..MaxVal
      BY <1>6, <3>1
    <3> QED
      BY <1>7, <3>2
  <2>4. 2 \in 2..Len(s) + 1 /\ s[1][1] \in 0..MaxVal + 1 /\ s[1][1] <= s[1][1]
    BY <1>6, <1>7
  <2> QED
    BY <1>1, <2>1, <2>2, <2>3, <2>4 DEF Front
<1>13. Cuts'
  <2>1. \A e \in Ends(rules, d) : s[1][1] <= e /\ e \in 0..MaxVal
    BY <1>4, EndsBySort
  <2>2. \A e \in Ends(rules, d) : ~(e < s[1][1])
    BY <1>7, <2>1
  <2> QED
    BY <1>1, <2>2 DEF Cuts
<1>14. Laid'
  <2>1. s[1][1] = Min(Lows(rules, d))
    BY <1>4, LowsBySort
  <2> QED
    BY <1>1, <2>1 DEF Laid
<1>15. Behind'
  <2> SUFFICES ASSUME NEW v \in InHeap'
               PROVE  \/ v >= start' - 1
                      \/ \E k \in DOMAIN rules : v = rules[k][d][2] /\ v < rules[k][d][1]
    BY <1>1 DEF Behind
  <2>1. v \in Value /\ heap'[v] > 0
    BY DEF InHeap
  <2>2. v = s[1][2]
    BY <1>7, <1>8, <1>9, <2>1
  <2>3. PICK k \in DOMAIN rules : s[1] = rules[k][d]
    BY <1>4, <1>6, SortIs
  <2> QED
    BY <1>1, <1>7, <2>2, <2>3
<1>16. Budget'
  <2>1. Count = 0
    BY <1>9, CountIs
  <2> QED
    BY <1>1, <1>8, <2>1 DEF Budget
<1>17. Tiles'
  BY <1>14, <1>15 DEF Tiles, Laid, Behind
<1> QED
  BY <1>1, <1>5, <1>8, <1>11, <1>12, <1>13, <1>16, <1>17
     DEF IInv, Sweeping, HeapDrained, SegsMatch, CrashNeedsOverlap

-----------------------------------------------------------------------------
(* The theorems.                                                           *)

(* The sweep's inductive invariant.                                        *)
THEOREM SweepInvariant == Spec => []IInv
<1>1. Init => IInv
  <2> SUFFICES ASSUME Init PROVE IInv
    OBVIOUS
  <2>1. /\ pc = "idle" /\ sort = <<>> /\ i = 0 /\ start = 0 /\ out = <<>>
        /\ heap = EmptyHeap /\ size = HEAP_SIZE
    BY DEF Init
  <2>2. heap \in [Value -> Nat] /\ \A v \in Value : heap[v] = 0
    BY <2>1 DEF EmptyHeap
  <2>3. IsFiniteSet(Slots(heap)) /\ Count = 0
    BY <2>2, SlotsNone, CountIs
  <2>4. InHeap = {}
    BY <2>2 DEF InHeap
  <2>5. HeapOK
    BY <2>1, <2>2, <2>3, HeapAssumption DEF HeapOK
  <2>6. TypeOK
    BY <2>1, <2>5 DEF TypeOK, HeapOK
  <2> QED
    BY <2>1, <2>4, <2>5, <2>6 DEF IInv, HeapDrained, SegsMatch, CrashNeedsOverlap
<1>2. IInv /\ [Next]_vars => IInv'
  <2> SUFFICES ASSUME IInv, [Next]_vars PROVE IInv'
    OBVIOUS
  <2>1. ASSUME NEW rules \in Lists, NEW d \in Dims, pc = "idle", Call(rules, d) PROVE IInv'
    BY <2>1, CallStep
  <2>2. CASE Poll
    BY <2>2, PollStep DEF Poll, Passed
  <2>3. CASE NextRange
    BY <2>3, NextRangeStep
  <2>4. CASE NextRangeFails
    BY <2>4, NextRangeFailsStep
  <2>5. CASE Drain
    <3>1. /\ pc = "sweep" /\ i > Len(sort) /\ InHeap # {} /\ Close /\ PollTop
          /\ UNCHANGED <<pc, l, dim, sort, i, size>>
      BY <2>5 DEF Drain, Drained
    <3>2. i \in Nat /\ Len(sort) \in Nat
      BY <3>1 DEF IInv, Given, SortOf, Sweeping, Front
    <3> QED
      BY <3>1, <3>2, PollStep
  <2>6. CASE Return
    BY <2>6, ReturnStep
  <2>7. CASE Use
    BY <2>7, UseStep
  <2>8. CASE UNCHANGED vars
    <3>1. UNCHANGED <<pc, l, dim, sort, i, start, out, heap, size>>
      BY <2>8 DEF vars
    <3>2. HeapOK' = HeapOK /\ HeapDrained' = HeapDrained /\ Given' = Given
      BY <3>1 DEF HeapOK, HeapDrained, Given, Count, InHeap
    <3>3. Held' = Held /\ Front' = Front /\ Cuts' = Cuts
      BY <3>1 DEF Held, Front, Cuts
    <3>4. Tiles' = Tiles /\ Budget' = Budget
      BY <3>1 DEF Tiles, Budget, Count, InHeap
    <3>5. TypeOK' = TypeOK /\ Room' = Room
      BY <3>1 DEF TypeOK, Room
    <3>6. SegsMatch' = SegsMatch /\ CrashNeedsOverlap' = CrashNeedsOverlap
      BY <3>1 DEF SegsMatch, CrashNeedsOverlap
    <3> QED
      BY <3>1, <3>2, <3>3, <3>4, <3>5, <3>6 DEF IInv, Sweeping
  <2> QED
    BY <2>1, <2>2, <2>3, <2>4, <2>5, <2>6, <2>7, <2>8 DEF Next, Running
<1> QED
  BY <1>1, <1>2, PTL DEF Spec

(* The segments so far tile the space, ranges_output and the heap's array  *)
(* are large enough, and start never runs further than one past the field. *)
THEOREM AlwaysSweepOK == Spec => []SweepOK
<1>1. IInv => SweepOK
  <2> SUFFICES ASSUME IInv PROVE SweepOK
    OBVIOUS
  <2>1. TypeOK /\ (pc # "idle" => Len(out) <= Room) /\ Count <= size
    BY InvTypes DEF IInv, HeapOK
  <2>2. pc = "sweep" => Tiles
    BY DEF IInv, Sweeping
  <2> QED
    BY <2>1, <2>2 DEF SweepOK, BuffersFit
<1> QED
  BY <1>1, SweepInvariant, PTL

(* What the sweep returns is what SplitRules, and with it the tree, takes  *)
(* for the segments of the dimension.                                      *)
THEOREM AlwaysSegsMatch == Spec => []SegsMatch
<1>1. IInv => SegsMatch
  BY DEF IInv
<1> QED
  BY <1>1, SweepInvariant, PTL

(* Only the overlap of HEAP_SIZE ranges makes the heap grow.               *)
THEOREM AlwaysCrashNeedsOverlap == Spec => []CrashNeedsOverlap
<1>1. IInv => CrashNeedsOverlap
  BY DEF IInv
<1> QED
  BY <1>1, SweepInvariant, PTL
=============================================================================
