------------------------------- MODULE GenSegs --------------------------------
(***************************************************************************)
(* hs_gen_segs: the sweep that cuts one dimension of a node's rules into   *)
(* segments, one iteration of its loops per step.  The ranges are taken in *)
(* order of their lows; a heap, least high first, holds the highs of the   *)
(* ranges seen and not yet passed, duplicates included.  SplitRules says   *)
(* what the segments are; here they are computed, in ranges_output.        *)
(*                                                                         *)
(* The heap outlives a call: it is part of the caller's hs_build_aux_t and *)
(* is used for the next dimension and the next node as it was left.  It is *)
(* a bag here; its array and its sifting are heap.c's.                     *)
(***************************************************************************)
EXTENDS SplitRules, Sequences

CONSTANTS Lists,      \* the rule lists of the nodes
          HEAP_SIZE,  \* DEFAULT_CAPACITY of heap.c
          MayFail     \* whether the allocator may return NULL

ASSUME ListsAssumption ==
  \A l \in Lists : DOMAIN l # {} /\ IsFiniteSet(DOMAIN l) /\ \A k \in DOMAIN l : l[k] \in Box
ASSUME HeapAssumption  == HEAP_SIZE \in Nat \ {0}
ASSUME FailAssumption  == MayFail \in BOOLEAN

VARIABLES
  pc,     \* "idle", "sweep", "done" (the caller reads the output) or "crashed"
  l, dim, \* the node's rules and the dimension
  sort,   \* ranges_sort, sorted and without duplicates
  i,      \* the next range, counted from 1
  start,  \* where the next segment begins; an unsigned long
  out,    \* ranges_output up to rout
  heap,   \* how often each high is in aux->heap
  size    \* the heap's capacity

vars == <<pc, l, dim, sort, i, start, out, heap, size>>

EmptyHeap == [v \in Value |-> 0]
InHeap    == {v \in Value : heap[v] > 0}
Count     == Cardinality(UNION {{v} \X (1..heap[v]) : v \in InHeap})
Top       == Min(InHeap)

-----------------------------------------------------------------------------
(* Mutants (see PROJECT.json): slips the runs must notice.                 *)
Long_32Bits(x) == x % (MaxVal + 1)
Passed_Strictly(low) == InHeap # {} /\ Top < low
PollTop_PeeksOnly == UNCHANGED heap
Drained_Early == i > Len(sort) /\ Cardinality(InHeap) <= 1

-----------------------------------------------------------------------------
Init == /\ pc = "idle" /\ l = <<>> /\ dim = 0 /\ sort = <<>> /\ i = 0
        /\ start = 0 /\ out = <<>> /\ heap = EmptyHeap /\ size = HEAP_SIZE

(* The slots of ranges_output: hs_build_aux_init allocates two per rule of *)
(* the rule set, so at least two per rule of the node.                     *)
Room == 2 * Cardinality(DOMAIN l)

(* _range_compare: by low, then by high.                                   *)
Before(r1, r2) == r1[1] < r2[1] \/ (r1[1] = r2[1] /\ r1[2] < r2[2])

(* heap_offer; the array doubles when it is full.                          *)
Offer(v) ==
  /\ heap' = [heap EXCEPT ![v] = @ + 1]
  /\ size' = IF Count = size THEN size * 2 ELSE size

(* heap_offer's result is not looked at: the array that could not grow has *)
(* become a null heap, and the loops' next heap_count reads through it.    *)
OfferFails ==
  /\ Count = size /\ MayFail
  /\ pc' = "crashed"
  /\ UNCHANGED <<l, dim, sort, i, start, out, heap, size>>

(* qsort and unique_ranges: the ranges of S in that order, each once; the  *)
(* j-th of them is the one with j - 1 before it.                           *)
RangesSort(S) ==
  [j \in 1..Cardinality(S) |->
     CHOOSE r \in S : Cardinality({q \in S : Before(q, r)}) = j - 1]

Call(rules, d) ==
  /\ pc' = "sweep" /\ l' = rules /\ dim' = d
  /\ sort' = RangesSort({rules[k][d] : k \in DOMAIN rules})
  /\ start' = sort'[1][1] /\ Offer(sort'[1][2])
  /\ i' = 2 /\ out' = <<>>

-----------------------------------------------------------------------------
(* The arithmetic is that of an unsigned long, wider than the 32-bit high. *)
Long(x) == x

(* A segment up to the top of the heap, unless an equal high made it.      *)
Close ==
  IF start <= Top
    THEN out' = Append(out, <<start, Top>>) /\ start' = Long(Top + 1)
    ELSE UNCHANGED <<out, start>>

PollTop == heap' = [heap EXCEPT ![Top] = @ - 1]

Passed(low) == InHeap # {} /\ Top <= low

Poll ==
  /\ pc = "sweep"
  /\ i <= Len(sort) /\ Passed(sort[i][1])
  /\ Close /\ PollTop
  /\ UNCHANGED <<pc, l, dim, sort, i, size>>

(* The heap's highs lie beyond the next range's low: the range joins them, *)
(* and a segment ends before it begins.                                    *)
NextRange ==
  /\ pc = "sweep"
  /\ i <= Len(sort) /\ ~Passed(sort[i][1])
  /\ Offer(sort[i][2])
  /\ i' = i + 1
  /\ LET low == sort[i][1]
     IN  IF start < low
           THEN out' = Append(out, <<start, low - 1>>) /\ start' = low
           ELSE UNCHANGED <<out, start>>
  /\ UNCHANGED <<pc, l, dim, sort>>

NextRangeFails ==
  /\ pc = "sweep"
  /\ i <= Len(sort) /\ ~Passed(sort[i][1])
  /\ OfferFails

Drained == i > Len(sort) /\ InHeap = {}

Drain ==
  /\ pc = "sweep"
  /\ i > Len(sort) /\ ~Drained
  /\ Close /\ PollTop
  /\ UNCHANGED <<pc, l, dim, sort, i, size>>

Return ==
  /\ pc = "sweep" /\ Drained
  /\ pc' = "done"
  /\ UNCHANGED <<l, dim, sort, i, start, out, heap, size>>

(* The caller has used the segments.                                       *)
Use ==
  /\ pc = "done"
  /\ pc' = "idle" /\ l' = <<>> /\ dim' = 0 /\ sort' = <<>> /\ i' = 0
  /\ start' = 0 /\ out' = <<>>
  /\ UNCHANGED <<heap, size>>

Running == Poll \/ NextRange \/ NextRangeFails \/ Drain \/ Return

Next == \/ pc = "idle" /\ \E rules \in Lists, d \in Dims : Call(rules, d)
        \/ Running
        \/ Use

Spec == Init /\ [][Next]_vars

(* A call that was entered is executed: nothing suspends it.               *)
FairSpec == Spec /\ WF_vars(Running)

-----------------------------------------------------------------------------
(* The sweep yields the segments SplitRules defines, in order, each once:  *)
(* whatever the multiplicity and the order of equal highs.                 *)
SegsMatch ==
  pc = "done" =>
    /\ {out[k] : k \in DOMAIN out} = {<<SegLow(l, dim, e), e>> : e \in Ends(l, dim)}
    /\ \A j, k \in DOMAIN out : j < k => out[j][2] < out[k][1]

TypeOK ==
  /\ pc \in {"idle", "sweep", "done", "crashed"}
  /\ pc # "idle" => DOMAIN l # {} /\ dim \in Dims
  /\ i \in 0..Len(sort) + 1
  /\ start \in 0..MaxVal + 1
  /\ \A k \in DOMAIN out : out[k] \in Interval /\ out[k][1] <= out[k][2]
  /\ heap \in [Value -> Nat] /\ size \in Nat

BuffersFit == Len(out) <= Room /\ Count <= size

Tiles ==
  /\ \A k \in 1..Len(out) - 1 : out[k + 1][1] = out[k][2] + 1
  /\ IF out = <<>> THEN start = Min(Lows(l, dim))
                   ELSE out[1][1] = Min(Lows(l, dim)) /\ start = out[Len(out)][2] + 1
  /\ \A v \in InHeap : v >= start - 1 \/ \E k \in DOMAIN l : v = l[k][dim][2] /\ v < l[k][dim][1]

(* While the sweep runs, the segments so far tile the space from the least *)
(* low up to start, which may lie one beyond the largest value of a field; *)
(* no high in the heap is further back than just before start, unless it is*)
(* below its own low.  Neither ranges_output, allocated for two segments   *)
(* per rule, nor the heap's array is written past its end.                 *)
SweepOK == TypeOK /\ (pc # "idle" => BuffersFit) /\ (pc = "sweep" => Tiles)

(* A heap that cannot grow brings the program down only where it had to:  *)
(* where at least HEAP_SIZE ranges overlap, however many were swept before *)
(* and whatever earlier calls did to the heap.                             *)
CrashNeedsOverlap ==
  pc = "crashed" =>
    \E x \in Lows(l, dim) :
      Cardinality({k \in DOMAIN sort : sort[k][1] <= x /\ x < sort[k][2]}) >= HEAP_SIZE

(* The sweep ends: every iteration of the inner loop takes a high out.     *)
SweepEnds == pc = "sweep" ~> pc # "sweep"
=============================================================================
