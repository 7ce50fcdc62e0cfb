----------------------------- MODULE HyperSplit -------------------------------
(***************************************************************************)
(* The decision tree of hs.c: hs_build_tree, the recursion of hs_build, a  *)
(* lookup and hs_free_all, with the memory they work in.                   *)
(*                                                                         *)
(* The nodes live in a growable vector.  hs_node_vec_get may move it, so a *)
(* pointer to a node is good only for the block it was taken from: "gen"   *)
(* numbers the blocks, and a stack frame remembers the block its currNode  *)
(* points into.  Every allocation in MayFail may return NULL; "live" is    *)
(* the set of blocks allocated and not freed.  What the vector holds       *)
(* beyond its calloc'd start is uninitialised until written.               *)
(***************************************************************************)
EXTENDS SplitRules, Sequences

CONSTANTS Acls,        \* the rule sets a tree is built from, best rule first
          BucketSizes, \* values of params.bucketSize
          Keys,        \* the keys looked up
          VEC_SIZE,    \* initial size of the node vector, 16 in the code
          OwnAux,      \* {TRUE}: aux = NULL is passed; {FALSE}: the user's
          MayFail      \* the allocations that may fail

ASSUME AclsAssumption == \A acl \in Acls : acl \in Seq(Rule)
ASSUME KeysAssumption == Keys \subseteq Key
ASSUME VecAssumption  == VEC_SIZE \in Nat \ {0}
ASSUME AuxAssumption  == OwnAux \subseteq BOOLEAN
ASSUME FailAssumption == MayFail \subseteq {"vec", "aux", "grow", "rules"}

VARIABLES
  pc,      \* "empty", "building", "failed", "built", "crashed" or "overread"
  acl,     \* the rule set the tree was built from
  bucket,  \* tree->params.bucketSize
  nodes,   \* node_vec.hs_nodes, a function on 0..cap-1
  len,     \* node_vec.len
  gen,     \* which block nodes is; -1 for the null pointer
  stack,   \* the activations of hs_build, the innermost last
  info,    \* tree->tree_info
  live,    \* the blocks allocated
  walk,    \* the lookup in progress or just answered
  space    \* auxiliary: the keys each node answers for

mem  == <<nodes, len, gen, live>>
vars == <<pc, acl, bucket, nodes, len, gen, stack, info, live, walk, space>>

(* child_idx of a leaf, UINT32_MAX in the code.                            *)
LEAF == -1

NoRules == [k \in {} |-> <<>>]

(* An uninitialised rule list: none the code makes, whose ranks begin at 1.*)
Wild == [k \in {0} |-> <<>>]

(* An empty list after remove_redund, which counts one rule in it: the one *)
(* it then seems to hold lies behind a block of no bytes.                  *)
Stray == [k \in {-1} |-> <<>>]

Zeroed  == [d2s |-> 0, depth |-> 0, thresh |-> 0, child |-> 0, rules |-> NoRules]
Unset   == [Zeroed EXCEPT !.rules = Wild]

ZeroInfo == [NumTreeNode |-> 0, NumLeafNode |-> 0, WstDepth |-> 0, AvgDepth |-> 0,
             MaxLeafNum |-> 0, MaxL_D |-> 0, MaxL_N |-> 0, MaxRulesinLeaf |-> 0,
             RulePointers |-> 0]

NoWalk == [key |-> <<>>, at |-> 0, ret |-> -1]

cap == Cardinality(DOMAIN nodes)
Top == stack[Len(stack)]
Depth == Len(stack) - 1
Here == nodes[Top.idx]

SetTop(f) == [stack EXCEPT ![Len(stack)] = f]

Frame(idx, g) == [idx |-> idx, at |-> g, pc |-> "enter", d2s |-> 0, thresh |-> 0,
                  low |-> 0, high |-> 0, child |-> 0]

RootRules(a) == [k \in DOMAIN a |-> a[k].range]
PriOf(k) == acl[k].pri

-----------------------------------------------------------------------------
(* Mutants (see PROJECT.json): slips the runs must notice.                 *)
Fetch_Forgotten(frame) == frame
ToRight_Inclusive(n, key) == key[n.d2s] >= n.thresh
FreshNode_Malloc == Unset
DropsRules_Never(n) == FALSE
CountLeaf_NoWorst(n) ==
  [info EXCEPT !.NumLeafNode = @ + 1, !.RulePointers = @ + n, !.AvgDepth = @ + Depth,
               !.MaxRulesinLeaf = Max({@, n})]
MarkLeaf_Unmarked(node) == [node EXCEPT !.depth = Depth % 256]
IsLeaf_BucketOnly(l) == Cardinality(DOMAIN l) <= bucket

-----------------------------------------------------------------------------
Init == /\ pc = "empty" /\ acl = <<>> /\ bucket = 0
        /\ nodes = [n \in {} |-> Zeroed] /\ len = 0 /\ gen = -1
        /\ stack = <<>> /\ info = ZeroInfo /\ live = {}
        /\ walk = NoWalk /\ space = [n \in {} |-> {}]

-----------------------------------------------------------------------------
(* hs_build_tree up to its call of hs_build: hs_prep_build and the root.   *)

(* hs_node_vec_init: calloc zeroes the nodes.                              *)
FreshNode == Zeroed

PrepBuild(a, b, own) ==
  /\ pc' = "building"
  /\ acl' = a /\ bucket' = b /\ info' = ZeroInfo
  /\ nodes' = [n \in 0..VEC_SIZE - 1 |->
                 IF n = 0 THEN [FreshNode EXCEPT !.rules = RootRules(a)] ELSE FreshNode]
  /\ len' = 1 /\ gen' = 0
  /\ live' = live \union {<<"nodes", 0>>} \union (IF own THEN {<<"aux", 0>>} ELSE {})
  /\ stack' = <<Frame(0, 0)>>
  /\ space' = [n \in {0} |-> Keys]
  /\ UNCHANGED walk

PrepBuildFails(own) ==
  /\ "vec" \in MayFail \/ (own /\ "aux" \in MayFail)
  /\ info' = ZeroInfo
  /\ UNCHANGED <<pc, acl, bucket, stack, walk, space>> /\ UNCHANGED mem

-----------------------------------------------------------------------------
(* An activation of hs_build, step by step.                                *)

(* A small list is not looked into.                                        *)
IsLeaf(l) == Cardinality(DOMAIN l) <= bucket \/ (l # Stray /\ Splittable(l) = {})

(* tree_info for a leaf of n rules.                                        *)
CountLeaf(n) ==
  LET deeper == n + Depth > info.MaxLeafNum
  IN  [info EXCEPT !.NumLeafNode = @ + 1, !.RulePointers = @ + n,
                   !.WstDepth = Max({@, Depth}), !.AvgDepth = @ + Depth,
                   !.MaxLeafNum = IF deeper THEN n + Depth ELSE @,
                   !.MaxL_D = IF deeper THEN Depth ELSE @,
                   !.MaxL_N = IF deeper THEN n ELSE @,
                   !.MaxRulesinLeaf = Max({@, n})]

(* currNode = hs_node_vec_at(&tree->node_vec, idx)                         *)
Fetch(frame) == [frame EXCEPT !.at = gen']

(* Back to the caller, which fetches its currNode again; from the root's   *)
(* activation the tree is built.                                           *)
Return ==
  IF Len(stack) = 1
    THEN pc' = "built" /\ stack' = <<>>
    ELSE /\ stack' = [k \in 1..Len(stack) - 1 |->
                        IF k = Len(stack) - 1 THEN Fetch(stack[k]) ELSE stack[k]]
         /\ UNCHANGED pc

MarkLeaf(node) == [node EXCEPT !.depth = Depth % 256, !.child = LEAF]

Leaf ==
  /\ Top.pc = "enter" /\ IsLeaf(Here.rules)
  /\ nodes' = [nodes EXCEPT ![Top.idx] = MarkLeaf(@)]
  /\ info' = CountLeaf(Cardinality(DOMAIN Here.rules))
  /\ UNCHANGED <<len, gen, live, space>>
  /\ Return

(* The split is chosen.  The code would return HS_BUILD_INTERNAL_ERR for a *)
(* split point at the end of the space; FramesOK shows it never is.        *)
Split ==
  /\ Top.pc = "enter" /\ Here.rules # Stray /\ ~IsLeaf(Here.rules)
  /\ \E d \in SplitDims(Here.rules) : \E t \in {Threshold(Here.rules, d)} :
       /\ nodes' = [nodes EXCEPT ![Top.idx].d2s = d, ![Top.idx].thresh = t,
                                 ![Top.idx].depth = Depth % 256]
       /\ stack' = SetTop([Top EXCEPT !.pc = "child1", !.d2s = d, !.thresh = t,
                                      !.low = Min(Lows(Here.rules, d)),
                                      !.high = Max(Ends(Here.rules, d))])
  /\ info' = [info EXCEPT !.NumTreeNode = @ + 1]
  /\ UNCHANGED <<pc, len, gen, live, space>>

(* hs_gen_segs reads the rule that is not there: what follows is undefined.*)
Overread ==
  /\ Top.pc = "enter" /\ Here.rules = Stray /\ ~IsLeaf(Stray)
  /\ pc' = "overread" /\ stack' = <<>>
  /\ UNCHANGED <<nodes, len, gen, live, info, space>>

(* hs_node_vec_get; a realloc moves the vector and leaves its new half     *)
(* uninitialised.                                                          *)
VecGet ==
  /\ len' = len + 1
  /\ \/ /\ len < cap
        /\ UNCHANGED <<nodes, gen, live>>
     \/ /\ len = cap
        /\ nodes' = [n \in 0..2 * cap - 1 |-> IF n < cap THEN nodes[n] ELSE Unset]
        /\ gen' = gen + 1
        /\ live' = (live \ {<<"nodes", gen>>}) \union {<<"nodes", gen + 1>>}

FirstChild ==
  /\ Top.pc = "child1"
  /\ VecGet
  /\ stack' = SetTop([Top EXCEPT !.pc = "child2", !.child = len])
  /\ UNCHANGED <<pc, info, space>>

SecondChild ==
  /\ Top.pc = "child2"
  /\ VecGet
  /\ stack' = SetTop(Fetch([Top EXCEPT !.pc = "left"]))
  /\ UNCHANGED <<pc, info, space>>

(* hs_realloc returns NULL and the vector's address is overwritten with it.*)
NoNode ==
  /\ Top.pc \in {"child1", "child2"}
  /\ len = cap /\ "grow" \in MayFail
  /\ nodes' = [n \in {} |-> Zeroed] /\ gen' = -1
  /\ pc' = "failed" /\ stack' = <<>>
  /\ UNCHANGED <<len, live, info, space>>

(* The child's rule list is made from currNode's, and hs_build called.     *)
Reduced(l) ==
  IF DOMAIN l = {} THEN Stray ELSE RemoveRedund(l, [k \in DOMAIN l |-> PriOf(k)])

BuildChild(n, lo, hi, keys, next) ==
  /\ nodes' = [nodes EXCEPT ![n].rules = Reduced(Trimmed(Here.rules, Top.d2s, lo, hi))]
  /\ live' = live \union {<<"rules", n>>}
  /\ space' = [m \in DOMAIN space \union {n} |-> IF m = n THEN keys ELSE space[m]]
  /\ stack' = Append(SetTop([Top EXCEPT !.pc = next]), Frame(n, gen))
  /\ UNCHANGED <<pc, len, gen, info>>

ToRight(n, key) == key[n.d2s] > n.thresh

Left ==
  /\ Top.pc = "left"
  /\ BuildChild(Top.child, Top.low, Top.thresh,
                {key \in space[Top.idx] : ~ToRight(Here, key)}, "right")

Right ==
  /\ Top.pc = "right"
  /\ BuildChild(Top.child + 1, Top.thresh + 1, Top.high,
                {key \in space[Top.idx] : ToRight(Here, key)}, "finish")

(* hs_malloc of the child's list fails; the child now has a null list.     *)
NoRuleList ==
  /\ Top.pc \in {"left", "right"}
  /\ "rules" \in MayFail
  /\ LET n == IF Top.pc = "left" THEN Top.child ELSE Top.child + 1
     IN  nodes' = [nodes EXCEPT ![n].rules = NoRules]
  /\ pc' = "failed" /\ stack' = <<>>
  /\ UNCHANGED <<len, gen, live, info, space>>

(* Both subtrees are there: an inner node but the root drops its rules.    *)
DropsRules(n) == n # 0

Finish ==
  /\ Top.pc = "finish"
  /\ nodes' = [nodes EXCEPT ![Top.idx].child = Top.child,
                            ![Top.idx].rules = IF DropsRules(Top.idx) THEN NoRules ELSE @]
  /\ live' = IF DropsRules(Top.idx) THEN live \ {<<"rules", Top.idx>>} ELSE live
  /\ UNCHANGED <<len, gen, info, space>>
  /\ Return

-----------------------------------------------------------------------------
(* hs_free_all, called by the user or by hs_build_tree when hs_build fails.*)

Owned == {<<"rules", n>> : n \in {n \in 1..len - 1 : nodes[n].rules # NoRules}}
           \union {<<"nodes", gen>>}

TreeFree ==
  /\ pc' = "empty" /\ acl' = <<>>
  /\ nodes' = [n \in {} |-> Zeroed] /\ len' = 0 /\ gen' = -1
  /\ live' = live \ Owned
  /\ walk' = NoWalk /\ space' = [n \in {} |-> {}]
  /\ UNCHANGED <<bucket, stack, info>>

Answered == walk = NoWalk \/ walk.ret >= 0

FreeAll == pc = "built" /\ Answered /\ TreeFree

NullVec == gen = -1 /\ len > 1
WildLists == {n \in 1..len - 1 : n \in DOMAIN nodes /\ nodes[n].rules = Wild}

(* An uninitialised node is passed over when its rule count happens to be  *)
(* zero; otherwise a wild pointer is freed.                                *)
CleanUp == pc = "failed" /\ ~NullVec /\ TreeFree

CleanUpCrashes ==
  /\ pc = "failed" /\ (NullVec \/ WildLists # {})
  /\ pc' = "crashed"
  /\ UNCHANGED <<acl, bucket, stack, info, walk, space>> /\ UNCHANGED mem

-----------------------------------------------------------------------------
(* hs_lookup and hs_lookup_entry, one node per step.                       *)

LookupStart(key) ==
  /\ pc = "built" /\ Answered
  /\ walk' = [key |-> key, at |-> 0, ret |-> -1]

LookupDown ==
  /\ ~Answered /\ nodes[walk.at].child # LEAF
  /\ walk' = [walk EXCEPT !.at = nodes[walk.at].child
                                   + IF ToRight(nodes[walk.at], walk.key) THEN 1 ELSE 0]

LookupReturn ==
  /\ ~Answered /\ nodes[walk.at].child = LEAF /\ nodes[walk.at].rules # Stray
  /\ walk' = [walk EXCEPT !.ret = LinearSearch(nodes[walk.at].rules, walk.key)]

(* The leaf of an empty list holds one rule to compare, behind the block.  *)
LookupOverreads ==
  /\ ~Answered /\ nodes[walk.at].child = LEAF /\ nodes[walk.at].rules = Stray
  /\ pc' = "overread" /\ walk' = NoWalk

-----------------------------------------------------------------------------
Building ==
  /\ pc = "building"
  /\ \/ Leaf \/ Split \/ Overread \/ FirstChild \/ SecondChild \/ NoNode
     \/ Left \/ Right \/ NoRuleList \/ Finish
  /\ UNCHANGED <<acl, bucket, walk>>

Lookup ==
  /\ \/ (LookupDown \/ LookupReturn) /\ UNCHANGED pc
     \/ LookupOverreads
  /\ UNCHANGED <<acl, bucket, stack, info, space>> /\ UNCHANGED mem

Running == Building \/ CleanUp \/ CleanUpCrashes \/ Lookup

Next ==
  \/ /\ pc = "empty"
     /\ \E own \in OwnAux : \/ \E a \in Acls, b \in BucketSizes : PrepBuild(a, b, own)
                            \/ PrepBuildFails(own)
  \/ FreeAll
  \/ \E key \in Keys : /\ LookupStart(key)
                       /\ UNCHANGED <<pc, acl, bucket, stack, info, space>> /\ UNCHANGED mem
  \/ Running

Spec == Init /\ [][Next]_vars

(* A call that was entered is executed: nothing suspends it.               *)
FairSpec == Spec /\ WF_vars(Running)

-----------------------------------------------------------------------------
TypeOK ==
  /\ pc \in {"empty", "building", "failed", "built", "crashed", "overread"}
  /\ (pc = "building") <=> (stack # <<>>)
  /\ len \in Nat /\ gen \in Nat \union {-1}
  /\ gen # -1 => len <= cap
  /\ \A k \in DOMAIN stack : stack[k].idx \in 0..len - 1 /\ stack[k].at \in 0..gen
  /\ \A n \in DOMAIN space : n < len /\ space[n] \subseteq Keys

(* The recursion hands each activation a node of the vector, and its split *)
(* point lies inside the space: both halves hold a value, and the path the *)
(* code marks "should be carefully considered" is never taken.             *)
FramesOK ==
  /\ TypeOK
  /\ \A k \in DOMAIN stack :
       stack[k].pc # "enter" => stack[k].low <= stack[k].thresh /\ stack[k].thresh < stack[k].high

(* hs_lookup_entry's promise, which test_rule.c tries on examples: the     *)
(* tree answers with the very rule linear_search finds in the rule set.    *)
LookupAgrees ==
  walk.ret >= 0 => walk.ret = LinearSearch(RootRules(acl), walk.key)

(* What makes it so: trimming a list to a child's part of the space and    *)
(* dropping the rules an earlier one contains changes no answer there.     *)
NodesAnswerAlike ==
  \A n \in DOMAIN space :
    nodes # <<>> /\ nodes[n].rules \notin {Wild, Stray, NoRules} =>
      \A key \in space[n] :
        LinearSearch(nodes[n].rules, key) = LinearSearch(RootRules(acl), key)

(* No child gets an empty list, which would be read past its end by a build*)
(* of bucketSize 0 or by a lookup, unless a rule has a range from high to  *)
(* low: the reader takes one as it stands.                                 *)
ListsNotEmpty ==
  pc = "overread" \/ (\E n \in DOMAIN space \intersect DOMAIN nodes : nodes[n].rules = Stray) =>
    \E k \in DOMAIN acl, d \in Dims : acl[k].range[d][1] > acl[k].range[d][2]

(* currNode points into the vector's present block wherever the code goes  *)
(* on to use it, although the subtrees may have moved the vector.          *)
PointersFresh ==
  stack # <<>> /\ Top.pc # "child2" => Top.at = gen

Leaves == {n \in 0..len - 1 : nodes[n].child = LEAF}
Inner  == (0..len - 1) \ Leaves

(* The finished tree is a tree: every node but the root is a child of just *)
(* one node, so each is freed once and each leaf is reached by one path.   *)
TreeShaped ==
  pc = "built" =>
    \A n \in 1..len - 1 :
      Cardinality({p \in Inner : n \in {nodes[p].child, nodes[p].child + 1}}) = 1

(* hs_tree_info's numbers are those of the finished tree.                  *)
CountersMatch ==
  pc = "built" =>
    LET Rules(n) == Cardinality(DOMAIN nodes[n].rules)
        depth(n) == nodes[n].depth
    IN  /\ info.NumLeafNode = Cardinality(Leaves)
        /\ info.NumTreeNode = Cardinality(Inner)
        /\ info.WstDepth = Max({depth(n) : n \in Leaves})
        /\ info.AvgDepth = Cardinality(UNION {{n} \X (1..depth(n)) : n \in Leaves})
        /\ info.RulePointers = Cardinality(UNION {{n} \X DOMAIN nodes[n].rules : n \in Leaves})
        /\ info.MaxRulesinLeaf = Max({Rules(n) : n \in Leaves})
        /\ info.MaxLeafNum = Max({Rules(n) + depth(n) : n \in Leaves})
        /\ \E n \in Leaves : info.MaxL_D = depth(n) /\ info.MaxL_N = Rules(n)
        /\ info.MaxLeafNum = info.MaxL_D + info.MaxL_N

(* A finished tree holds the vector's present block and one list per leaf: *)
(* no list of an inner node and no older block is left behind.  Freed, or  *)
(* given up half way, it leaves nothing.  (The auxiliaries it made for     *)
(* itself stay behind: nothing frees them.)                                *)
MemoryOwned ==
  LET held == live \ {<<"aux", 0>>}
  IN  /\ pc = "built" => held = {<<"nodes", gen>>} \union {<<"rules", n>> : n \in Leaves \ {0}}
      /\ pc = "empty" => held = {}

(* A failing allocation makes hs_build_tree fail, not the program ...      *)
NoCrash == pc # "crashed"

(* ... at least while the tree fits the vector as it was first allocated.  *)
CrashNeedsGrowth == pc = "crashed" => gen # 0

(* hs_build_tree returns, with a tree or without: the recursion ends; and  *)
(* a lookup comes to a leaf.                                               *)
CallsReturn ==
  /\ pc \in {"building", "failed"} ~> pc \in {"built", "empty", "crashed", "overread"}
  /\ ~Answered ~> Answered
=============================================================================
