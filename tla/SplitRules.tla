----------------------------- MODULE SplitRules -------------------------------
(***************************************************************************)
(* The pure part of hs.c: what hs_build computes from a node's rule list.  *)
(*                                                                         *)
(* A rule list is a function from ranks to boxes.  The rank of a rule is   *)
(* its position in the list the tree is built from, so the order of the    *)
(* C array is the order of the ranks, a child's list is a function on some *)
(* of its parent's ranks, and two lists can be compared rule by rule.      *)
(*                                                                         *)
(* hs_gen_segs appears here by its result, the set of the segments' ends;  *)
(* GenSegs is the sweep that computes it.  The costs are summed in floats  *)
(* in the code; they are whole numbers here, and averages are compared by  *)
(* cross multiplication.                                                   *)
(***************************************************************************)
EXTENDS AclRules, FiniteSetsExt

Lows(l, d)  == {l[k][d][1] : k \in DOMAIN l}
Highs(l, d) == {l[k][d][2] : k \in {k \in DOMAIN l : l[k][d][1] <= l[k][d][2]}}

Matches(box, key) == \A d \in Dims : box[d][1] <= key[d] /\ key[d] <= box[d][2]

Hits(l, key) == {k \in DOMAIN l : Matches(l[k], key)}

(* linear_search: the rank of the first rule that matches, 0 for none.     *)
LinearSearch(l, key) == IF Hits(l, key) = {} THEN 0 ELSE Min(Hits(l, key))

-----------------------------------------------------------------------------
(* Mutants (see PROJECT.json): slips the runs must notice.                 *)
Threshold_LastEnd(l, d) == Max({l[k][d][2] : k \in DOMAIN l})
Overlaps_Strict(iv, lo, hi) == iv[1] < hi /\ iv[2] > lo
Contained_Swapped(a, b) == \A d \in Dims : a[d][1] >= b[d][1] /\ a[d][2] <= b[d][2]

-----------------------------------------------------------------------------
(* The segments of a dimension.  Every high that is not below its own low  *)
(* ends one; every low but the smallest begins one, and so ends the one    *)
(* before it, unless a range that began earlier ends exactly there:        *)
(* hs_gen_segs then closes the segment at the low itself (it polls while   *)
(* top <= low).                                                            *)

CutsBefore(l, d) ==
  {x \in Lows(l, d) :
     /\ x > Min(Lows(l, d))
     /\ \A k \in DOMAIN l : ~(l[k][d][1] < x /\ l[k][d][2] = x)}

Ends(l, d) == Highs(l, d) \union {x - 1 : x \in CutsBefore(l, d)}

SegLow(l, d, e) ==
  LET before == {f \in Ends(l, d) : f < e}
  IN  IF before = {} THEN Min(Lows(l, d)) ELSE Max(before) + 1

(* The rules that cover a segment cost it one each; this is the cost of    *)
(* the segments that end at a point of E.                                  *)
Covers(iv, lo, hi) == iv[1] <= lo /\ iv[2] >= hi

Height(l, d, E) ==
  Cardinality(UNION {LET lo == SegLow(l, d, e)
                     IN  {<<k, e>> : k \in {k \in DOMAIN l : Covers(l[k][d], lo, e)}} : e \in E})

(* The dimension to split, a singleton: the first of the lowest average.   *)
Splittable(l) == {d \in Dims : Cardinality(Ends(l, d)) >= 2}

LowerAvg(l, d, e) ==
  Height(l, d, Ends(l, d)) * Cardinality(Ends(l, e))
    < Height(l, e, Ends(l, e)) * Cardinality(Ends(l, d))

SplitDims(l) ==
  {d \in Splittable(l) : \A e \in Splittable(l) \ {d} :
                           ~LowerAvg(l, e, d) /\ (e < d => LowerAvg(l, d, e))}

(* The split point: the end of the first segments that carry more than     *)
(* half of the cost, and at the latest of the last segment but one.        *)
Heavy(l, d, e) == 2 * Height(l, d, {f \in Ends(l, d) : f <= e}) > Height(l, d, Ends(l, d))

Threshold(l, d) ==
  LET cuts == Ends(l, d) \ {Max(Ends(l, d))}
  IN  Min({Max(cuts)} \union {e \in cuts : Heavy(l, d, e)})

-----------------------------------------------------------------------------
(* The rule lists of the children.                                         *)

Overlaps(iv, lo, hi) == iv[1] <= hi /\ iv[2] >= lo

Clip(iv, lo, hi) == <<IF iv[1] < lo THEN lo ELSE iv[1], IF iv[2] > hi THEN hi ELSE iv[2]>>

(* The rules that reach into lo..hi, trimmed to it.                        *)
Trimmed(l, d, lo, hi) ==
  [k \in {k \in DOMAIN l : Overlaps(l[k][d], lo, hi)} |->
     [l[k] EXCEPT ![d] = Clip(l[k][d], lo, hi)]]

(* rule_contained: b lies inside a.                                        *)
Contained(a, b) == \A d \in Dims : a[d][1] <= b[d][1] /\ a[d][2] >= b[d][2]

(* remove_redund keeps the first rule, and of the others those no earlier  *)
(* rule contains.  It marks a rule to drop with the priority UINT32_MAX,   *)
(* so it also drops the rules the user gave that priority.                 *)
Kept(l, pri) ==
  {k \in DOMAIN l :
     \A j \in DOMAIN l : j < k => ~Contained(l[j], l[k]) /\ pri[k] # UINT32_MAX}

RemoveRedund(l, pri) == [k \in Kept(l, pri) |-> l[k]]
=============================================================================
