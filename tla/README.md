# A verification project for acl_search_lib

`acl_search_lib` is a C library for packet classification: a table of rules
(a priority and one interval per header field), and the HyperSplit decision
tree that finds the best rule for a packet. These modules model its table, its
tree, its segment sweep, its heap and build buffers, the program's rule file
reader, and table, view and tree used together. TLC checks them on
small instances. TLAPS proves, for every value of the constants, the invariants
of the table and that it implements an abstract list; that a lookup in the tree
answers as the linear search; the heap's order and that it implements a priority
bag until an item is removed from its middle; that the capacity of a table of sound
initial size is backed by memory at any integer widths; and that the build buffers are
neither freed twice nor lost.

The library is sequential. It has no threads and no network, so its hard
behaviour is not interleaving, but for one callback. It is cursors at boundaries,
arrays that move while something points into them, allocations that fail half way through a
construction, buffers reused from call to call, and the claim everything else is
for: that after cutting, trimming and dropping rules the tree still gives the
answer a plain scan of the rule set gives.

## 1. Inventory

| Component | Source | State | Operations | Used by / uses |
|---|---|---|---|---|
| Rules, predicates | `rule.h`, `rule.c`, `utils.c`, `hs.h` | none | `rule_is_equal`, `rule_contained`, `linear_search[_entry]` | everything |
| Rule table `hs_acl_ctx_t` | `rule.c` | `rs_slice`: array, length, capacity | init, free, add, find, exist, del (with callback), del by index | user |
| Rule set view `rule_set_t` | `rule.c` | alias of the table's array and length | `rule_set_init`, `rule_set_free` | tree root |
| Segment sweep | `hs.c` `hs_gen_segs` | `ranges_sort`, `ranges_output`, heap, `start` | one call per node and dimension | `hs_build`; uses the heap |
| Decision tree `hs_tree_t` | `hs.c`, `hs.h` | node vector, counters, root, aux | `hs_build_tree` (recursive `hs_build`), `hs_lookup[_entry]`, `hs_free_all`, `hs_tree_info` | user; uses sweep, vector, allocator |
| Build auxiliaries `hs_build_aux_t` | `hs.c` | two range buffers, a heap | init, reinit, free | user or `hs_prep_build` |
| Priority heap `heap_t` | `heap.c` | array, count, size | new, init, offer, offerx, poll, peek, clear, contains, remove, free | sweep |
| Allocator hooks | `mem.c` | none | weak `hs_malloc`, `hs_calloc`, `hs_realloc`, `hs_free` | all of the above |
| Rule file reader | `utils.c`, `utils-inl.h` | filter array, line count | `ReadFilterFile`, `ReadFilterFile6` | `main.c` only |
| Program | `main.c` | rule set, keys, tree | read, build, `sample_rules`, look up, free | library, reader |
| Tests, build files, rule sets | `test_rule.c`, `Makefile`, `fw1K`, `ipv6` | - | - | library |

What is hard about each, and what makes it correct:

- **Rule table.** The binary search, the backward scan over one priority and
  the `memmove`s work on indices that are right only in concert. Correct: the
  array is always in priority order, has no duplicate, holds only rules that
  were added, has room when it inserts; and every call answers as a list in
  priority order would, for the wildcard priority `UINT32_MAX` too.
- **Segment sweep.** Equal highs, touching and nested ranges, a high at the top
  of the value range, and a heap that outlives the call. Correct: the segments
  are exactly those between the ranges' ends, within `2 * num` slots, call after
  call.
- **Tree.** A recursion over a vector that moves. Each activation keeps
  `currNode` across calls that may move it; the build can fail between taking a
  node and filling it; `remove_redund` drops rules. Correct: a lookup answers as
  `linear_search` on the rule set; each recursion gets a smaller problem and a
  non-empty list; pointers are fresh when used; the tree owns each block once;
  a failed build leaves nothing behind and does not crash.
- **Table, view and tree together.** `rule_set_init` and the root of a tree alias
  the table's array, which the table moves, shifts and frees; `hs_rule_del` runs
  the user's callback between finding and removing. Correct: nobody but the table
  frees its array, an unmoved array is still readable, and a deleted rule is gone.
- **Build auxiliaries.** Two arrays and a heap whose allocations fail one by one,
  used for rule sets of changing size. Correct: each block freed once, none lost,
  no build in arrays too small.
- **Table growth.** An `unsigned` capacity, an `int` product, a `size_t` request.
  Correct: the capacity is never more than the memory behind it, which the code
  ensures for some initial sizes only (section 6).
- **Rule file reader.** Loops that end by `feof`, a local read uninitialised, a
  fixed array; octet masks at the edges of an octet. Correct: all rules, in
  order, ranked by place; intervals that are the prefixes.
- **Program.** A key type of size 0. Correct would be one key per sample; it is
  not modelled, and section 6 says what the code does instead.
- **Heap.** Sifting at the boundaries (one child, two items, a full array),
  replacement of a removed item. Correct: it is a bag of which the best item is
  taken, removals or not.

Every place where these can go wrong is a row of `hazards` in `PROJECT.json`,
with the properties that cover it.

## 2. Modules

| Module | Models | Lines stand for |
|---|---|---|
| `AclRules` | rules, boxes, `rule_is_equal` | `rule.h`, `rule.c:176-192` |
| `AclList` | **abstract**: a list of rules in priority order and the answers of the calls | what a user of the table is promised |
| `RuleTable` | `hs_acl_ctx_t`, one step per loop iteration | `rule.c:8-251` |
| `RuleTableProofs` | the theorems about `RuleTable`, and that it implements `AclList` | |
| `SplitRules` | the pure operators of `hs_build`: segments, costs, choice of dimension and split point, trimming, `remove_redund`, `linear_search` | `hs.c:184-455`, `hs.h:93-135`, `utils.c:40-55` |
| `GenSegs` | `hs_gen_segs`, one step per loop iteration | `hs.c:150-244` |
| `GenSegsProofs` | the theorems about `GenSegs` | |
| `HyperSplit` | `hs_build_tree`, `hs_build`, node vector, `hs_lookup`, `hs_free_all` | `hs.c:13-47, 121-148, 275-599` |
| `HyperSplitProofs` | the theorems about `SplitRules` and `HyperSplit` | |
| `PriorityBag` | **abstract**: a bag with a best item | what a user of the heap is promised |
| `Heap` | `heap.c`, one step per level of sifting | `heap.c` |
| `HeapProofs` | the theorems about `Heap`, and that it implements `PriorityBag` while in order | |
| `AclSystem` | table, view and tree over a memory of addresses, with the delete callback | `rule.c:8-60, 125-174, 229-248`, `hs.c:513-554` |
| `AclSystemProofs` | the theorems about `AclSystem` | |
| `BuildAux` | `hs_build_aux_init`, `_reinit`, `_free`, builds, and the rest of the program's memory | `hs.c:62-148` |
| `BuildAuxProofs` | the theorems about `BuildAux` | |
| `TableMemory` | the table's sizes at machine widths | `rule.c:8-46, 125-132`, `mem.c` |
| `TableMemoryProofs` | the theorems about `TableMemory` | |
| `PrefixRange` | prefix to interval, operators only | `utils.c:65-193` |
| `FilterFile` | `ReadFilterFile[6]`, `LoadFilters`, `ReadFilter` | `utils.c:239-387` |
| `FilterFileProofs` | the theorems about `FilterFile` | |
| `MC...` | the rules, lists, files TLC runs on | |

How they compose. `RuleTable` implements `AclList` (`ImplementsList`) and `Heap`
implements `PriorityBag` as long as no removal put it out of order
(`BagWhileOrdered`), each through an `INSTANCE ... WITH`. `SplitRules` says
declaratively what the sweep computes, a set of ends; `GenSegs` computes it and is
checked against it (`SegsMatch`), and `HyperSplit` uses the declarative form, so the
sweep need not be replayed in every node of every tree. `GenSegs` in turn uses a bag
for the heap, which is what `Heap` is shown to be for a user who, like the sweep,
never removes. `AclSystem` puts the table and the tree together: a call is one step
there, because `RuleTable` and `HyperSplit` have taken the calls apart, and it
implements `AclList` once more (`TableIsList`), callbacks included. `FilterFile`
reads with `PrefixRange`.

### State and actions against the code

**RuleTable.** `list`, `len` and `cap` are `rs_slice`. A call enters with
`AddRule`, `AddRuleNoMemory` or `Ask`; `idx` and `count` are `upper_bound`'s
locals (`UpperBoundStep` is one iteration); `i` is the cursor of the backward
scan (`ScanHit`, `ScanNext`, `ScanMiss`, shared by add, find, exist and del, which
have the same loop) or of the forward scan for the wildcard (`SweepHit`,
`SweepNext`, `SweepMiss`). The last step of a scan contains what the call
then does: the insertion with its `memmove`, the deletion, the return value. A
slot that holds no rule is `Blank`.

**GenSegs.** `Call` sorts and offers the first high; `Poll` and `NextRange` are
the two things an iteration over the sorted ranges can do; `Drain` is the
last loop. `heap` counts how often a high is in the heap, since equal highs are
offered again and again. `start` is an `unsigned long` and may pass the largest
field value by one; `Long` is where that width enters.

**HyperSplit.** The C stack is `stack`; a frame holds `hs_build`'s locals, and
`at`, the block its `currNode` points into. `gen` numbers the blocks of the node
vector: a `realloc` makes a new one, and a pointer into an older one is stale.
`Fetch` is `hs_node_vec_at`. `live` is the set of allocated blocks. The steps of
an activation are `Leaf`, or `Split`, `FirstChild`, `SecondChild`, `Left`, (the
left subtree), `Right`, (the right one), `Finish`. A failing allocation is
`PrepBuildFails`, `NoNode` or `NoRuleList`, followed by `CleanUp`
(`hs_free_all`) or `CleanUpCrashes`. What a `realloc` adds is uninitialised, so
a rule list there is `Wild`, a list no code makes: `hs_free_all` may find a zero
count and pass it over, or free a wild pointer, and both happen in the model.
A child may get no rule at all when a range goes from high to low. `remove_redund`
sets the count of such a list to 1 (`hs.c:258, 272`) and the build goes on: the list is
`Stray`, a rule for which no byte was allocated. `Overread` is a build of bucket
size 0 whose `hs_gen_segs` reads that rule, `LookupOverreads` a lookup that arrives at its
leaf; what follows is undefined, and the model ends there. Everything else works with
such trees as with any other. `space` is auxiliary: the keys a node answers for.

**Heap.** `array` and `count` are the struct's; `PushUp` and `PushDown` are one
iteration of `__pushup` and `__pushdown`. `RemoveItem` is `heap_remove_item`, and
`RemoveLast` the same for the last slot of several, where `__pushup` begins at the slot
just set to `NULL` and crashes. `ordered` is auxiliary: since the heap was new or
cleared, every item a remove put into a hole was above nothing greater (`Fits`). While it
holds, the heap order holds and the best item is polled.

**AclSystem.** `mem` says what array lies at an address; `tab` and `len` are
`rs_slice`. A freed address may be handed out again, so an old pointer can come
to point at another table's array; `cur` remembers whether a pointer was taken
since the last `hs_acl_ctx_init`. `DelFind` runs up to the callback and `DelRemove` is the
rest of `hs_rule_del`. In between any `Call` may happen: nothing in `rule.c:244-245`
limits what `delf` does to the table, and nothing in the model does. So
`hs_rule_del_with_idx` removes whatever is at the index by then, another rule too
(`astray` remembers the one that stayed), and with nothing there calls `memmove`
with a negative length (`DelCrash`). A delete that `delf` begins is a `DelWithIdx`.

**BuildAux.** `mem` says what block lies at an address, or `Other` for the rest of
the program's. The three `AuxInitNo...` are the failing allocations of
`hs_build_aux_init`; `Reinit` has its three outcomes. After a failed reinit
(`failed`) the user may try again or free. Freeing a pointer that is not one's own
is a `fault`, as is a build whose arrays are too small. `GrowHeap` is the heap
doubling, and perhaps moving, during a build.

**TableMemory.** Only numbers: `cap`, `len`, the bytes behind the array. An
`int` product that overflows is undefined, so `wraps` chooses, once per
behaviour, between a compiler that wraps and one that widens.

**FilterFile.** A file is a sequence of items (`@` and a well-formed rule, `@` and
something else, another character), ending in an end of file or an error that
persists. `LoadNext`, `Skip`, `TakeRule`, `Reject`, `NoMoreRules` are the branches
of `LoadFilters` and `ReadFilter`; `validfilter` starts as anything, as an
uninitialised `char` does. `Copy` makes and sorts the rule set: any arrangement of the
rules that has no later one before an earlier, which is all `qsort` promises. Addresses are
four digits of `Bits` bits: octets for IPv4, words for IPv6.

### Abstractions

- Field widths, dimension count and `UINT32_MAX` are constants. IPv4 and IPv6
  layouts differ only in the number of dimensions.
- The `entry` pointer of a rule is the user's and never read.
- Costs are counts of rules in segments, which the code adds up and divides in floats.
  They are whole numbers here, and averages are compared by cross multiplication. A
  float is exact up to 2^24 only, so for thousands of rules the code may choose another
  dimension or split point than the model. No property says which is chosen: the
  proofs use of the split point that it is an end below the last one (`ThresholdIs`).
- A rule in a tree is known by its rank in the rule set, and a lookup's answer
  is a rank (0 for none), which says which rule answers and not only its
  priority.
- `LEAF` (`UINT32_MAX` as `child_idx`) is -1.
- `hs_build` returns `HS_BUILD_INTERNAL_ERR` for a split at the end of the
  space; the model has no such step because `FramesOK` shows it is not taken.
- `tree->ruleset`, which only `hs_rule_count` reads, and the prints of
  `hs_tree_info` are left out; the counters it prints are checked.
- In `RuleTable` the delete callback leaves the table alone; `AclSystem` has the
  callback that may not.
- `heap_init` on the user's memory is a heap of another capacity, and
  `heap_free` the end of a behaviour.

## 3. Runs

Properties are stated where they are defined, in a comment each.

| Run | Bounds | Shows |
|---|---|---|
| `RuleTable` | 2 boxes that differ in the second dimension only, priorities 0, 1 and the wildcard 2 (six rules), initial sizes 1 and 2 | the array's invariants, the search's and the scans' (`Bracket`, `ScanPassed`), `ImplementsList`, and that every call returns |
| `GenSegs` | every multiset of up to 4 ranges over 0..5, empty ones (from > to) included, heap of capacity 2, growth may fail | the segments are those of `SplitRules`, they tile and fit the buffers, the sweep ends; it crashes for want of memory only where two ranges overlap |
| `HyperSplit` | every list of up to 3 of 12 boxes over 0..3 x 0..3, one of them empty; bucket sizes 0 and 2; all 16 keys; a vector of 4; every allocation may fail | `LookupAgrees` and what makes it so, fresh pointers, shape, counters, memory, that builds and lookups end, and what a crash needs |
| `HyperSplitCrash` | the same, bucket size 1 | **violation**: an allocation failing half way crashes `hs_free_all` |
| `HyperSplitLowest` | `UINT32_MAX` = 2, so that a third rule has it | **violation**: the tree misses a rule of the lowest priority |
| `AclSystem` | 3 rules of which 2 share a priority, a table for one rule, 2 interchangeable addresses | who owns the shared array, which pointers may still be read, deletes whose callback does anything; `TableIsList` |
| `BuildAux` | sizes 1 to 3, 5 addresses, every allocation may fail but `ranges_output`'s in a reinit | nothing is freed twice, overrun or lost |
| `BuildAuxReinit` | 4 addresses, that one may fail too | **violation**: a failed reinit leaves a dangling pointer that is freed again |
| `TableMemory` | an `int` of 6 bits, a `size_t` of 12, rule sizes 3, 4, 7, initial sizes up to 64 and 0, an allocator of 256 bytes | a table made with a size above 0, whose first array an `int` can measure, never believes in slots it does not have |
| `FilterFile` | every file of up to 5 items, 4 filters; every rule of any prefix at 2 bits per digit | what is read, in which order, why reading stops, and that it stops; the prefixes' intervals |
| `Heap` | items 0..2, capacity 2, at most 6 items | heap order between and during calls and a priority bag, until a removal leaves an item above a greater one; no item lost or made then either; sifting ends |
| `HeapRemove` | the same | **violation**: after such a removal `heap_poll` and `heap_peek` give another item than the top |

Why the bounds are enough. The table: six rules make two doublings from size 1,
windows of every parity in the binary search, runs of two equal priorities in
front, middle and end, and wildcards that hit the first, a later and no rule. The
sweep: four ranges are what it takes for two highs to be equal while a third
lies around them and a fourth begins where they end, and 0..5 is enough values
for gaps, touching and point ranges between them; a high at the largest value is
included. The tree: the boxes are nested, touching, crossing, full, points and
one empty, so that a list of three gives trees of several levels whose right
subtrees move the vector, rules that become redundant only after trimming, and
both dimensions chosen; the first pair of children fits a vector of 4, the second
makes it grow. The system: a table for one rule grows to hold
two and grows again for the third, two addresses let the array move, and its old place be
taken by the next table, and a delete with two hits meets a callback that adds before,
deletes or frees what it found. The addresses are interchangeable (`MCSymmetry`): no
definition tells one from another, and the run checks safety only. The buffers: two arrays, a heap, a heap
while it moves and one block of someone else's are five. The table's widths: the
rule sizes divide the range or do not, and the initial sizes lie on both sides of
the largest an `int` can measure. The reader: five items have rules, noise and a
bad rule in every order and one rule more than there are filters; two bits per
digit have all lengths at, before and behind an edge, 0 and all included. The heap:
six items are three levels, the last parent with one and with two children,
and two doublings.

`CHECK_DEADLOCK FALSE` appears only where the system really stops: a crashed
program takes no step, nor does one that has read where nothing is or whose file
is read.

### Fairness

Only one assumption is made, weak fairness of `Running` (`Sifting` in the heap):
a call that was entered is executed, since nothing in this code waits for
anything. In `FilterFile`, which is one call from beginning to end, it is weak
fairness of `Next`. No call is ever assumed to be made, and no allocation to
succeed.

## 4. What is proved

**The table.** `RuleTableProofs` proves, for every set of rules, every initial
size above 0, any number of dimensions, any `UINT32_MAX` above 0 and whatever the
allocator answers: `TypeCorrect`, `SlotsAlwaysSound`, `AlwaysSorted`,
`NeverDuplicates`, `SearchBrackets` and `ScansMissNothing`, each
`Spec => []P` for an invariant of the run `RuleTable`, all from `TableInvariant`.

The argument is one inductive invariant, `IInv`. None of the invariants is
inductive alone. That the array stays sorted needs to know where the search
ended, which is `Bracket`: everything below the cursor is not larger, everything
beyond the window is; and the search's next iteration keeps `Bracket` only
because the array is sorted. That a rule is new, although it is compared with the
rules of one priority next to its place only, needs `ScanPassed`: what the scan
has passed does not have its ranges. By `Sorted` and `Bracket` nothing further
away has its priority (lemma `NoTwin`). That there is room needs `AddHasRoom`,
which `Full` makes true before the search and which nothing in between spoils.
`CallLocals` says the locals belong to a call. There is a lemma per action, and
the assumptions are the named ones of `AclRules` and `RuleTable`, which TLC also
evaluates.

**The table is the list.** `RuleTableProofs` also proves `TableImplementsList ==
Spec => ImplementsList`: every step of the array is a step of `AclList`, or a
stutter. The list's `Hits` and first hit are sets over the whole list, so the
proof needs `IInv`: a hit of the backward scan is the first hit because the
table has no duplicates (`FoundFirst`), a scan that missed has left no hit
anywhere (`MissNone`), and the two `memmove`s are the list's insertion and
removal (`InsertedIs`, `RemovedIs`). One strengthening is added, `AskedPri`: a call
that searches by priority was not asked with the wildcard, unless it adds.

**The sweep.** `GenSegsProofs` proves, for any rule list, field width, heap size and
outcome of the heap's allocations: `AlwaysSegsMatch` (`SegsMatch`),
`AlwaysSweepOK` (`SweepOK`) and
`AlwaysCrashNeedsOverlap` (`CrashNeedsOverlap`), all from `SweepInvariant`. So what
`SplitRules` calls the segments of a dimension is what the loops of `hs_gen_segs`
leave in their buffer, empty ranges and ranges that meet included.

`SegsMatch` speaks of the end of a call only; the invariant says the same of
every moment of it. `Cuts`: what has been written is exactly the declarative
segments that end before `start`, each with its declarative low, in order. That the next
step keeps this needs to know what may still end a segment: `Front` says that every
high of a range already offered is behind `start` or in the heap, and that `start`
has not run past the next low. `Held` says what the heap is, a count for every
high: there is a set of ranges among those offered whose highs it holds, one for
each entry. The set is existentially quantified because the sweep does not know which of
several ranges with one high it has polled. From `Held` follow both
`Budget` (each range makes at most two segments, so the output fits in `Room`) and
`CrashNeedsOverlap`: when the heap is full and refuses, the ranges in the set all
reach over the low being offered. That the sort yields every range once and in
order (`SortOf`) is proved from ranks: the j-th range is the one with j - 1
ranges before it, and counting leaves no gap and no tie.

**The tree.** `HyperSplitProofs` proves, for any rule sets, keys, dimensions,
value range, bucket sizes, size of the first vector and outcome of every
allocation: `AlwaysAgrees` (`LookupAgrees`), `AlwaysAnswerAlike`
(`NodesAnswerAlike`), `AlwaysFrames` (`FramesOK`), `AlwaysNotEmpty`
(`ListsNotEmpty`) and `AlwaysFresh` (`PointersFresh`). The first two have one
hypothesis, `NoLowest`: no rule has the priority `UINT32_MAX`. The run
`HyperSplitLowest` shows that it is needed.

Its first part is about one node. `HitsInside`: a key that
matches a rule of a list lies between the list's smallest low and its last end, so
the halves lose no key. `ThresholdIs`: the split point is an end and below the last
one. `TrimmedHits`: of a key inside the half, the same rules match after trimming.
`RedundAnswers`: `remove_redund` keeps the first rule that matches, since an earlier
one that contained it would match too. Together they are `ChildAnswersAlike`.
`HalvesNotEmpty` says that neither half is without rules when no range goes from
high to low, and `ChildProper` that trimming makes no such range.

The inductive invariant is about the recursion. `Frames` says of every activation
that its node's list answers the keys in `space` as the rule set does, that its
locals are its node's split (`Chosen`), how far it has got with its children
(`Children`), and that the children it has not begun are untouched (`Pending`).
`Apart` keeps activations out of each other's nodes: this is what lets an outer
activation find its node as it left it, although the inner ones write into the
same vector. `Finished` says of every other node that it is a leaf, or shares its
keys out to its two children and has given its list back, which is what makes a
walk down the tree arrive with the right answer (`WalkOK`). When a build
is given up, `Wreck` is what remains. `SetTopTree`, `PushTree` and `PopTree` prove
once what going on, calling and returning keep, and there is a lemma per action.

Four more invariants stand on `IInv`, each inductive with it.

- `Clean` gives `AlwaysCrashNeedsGrowth` (`CrashNeedsGrowth`): until the vector
  moves, all its nodes came zeroed from the first block, so giving up meets no wild
  rule list; and after it moved, no crash can be of a tree that did not grow.
- `Families` gives `AlwaysShaped` (`TreeShaped`): at any moment of a build every
  node that was handed out, except the root, has exactly one parent, which is the
  activation that asked for it (`Claims`) or the finished node that points to it;
  and it is built, being built, or waits for its parent (`Reached`). The lemmas
  `FamilyOn`, `FamilyPush` and `FamilyPop` say how going on, calling and returning
  change that. When the stack is empty only finished nodes are left to be parents.
- `Memory` gives `AlwaysMemoryOwned` (`MemoryOwned`): besides the auxiliaries, the
  allocated blocks are the vector and one rule list for every node but the root that is
  being built or is a leaf, neither fewer nor more. So what `hs_free_all` finds by
  walking the vector is all there is. The theorem asks for `VEC_SIZE > 1`:
  a vector of one node that fails to grow would be lost without a crash, for there
  is no second node whose list the loop would read. The code begins with 16.
- `Counted` gives `AlwaysCounted` (`CountersMatch`): at any moment of a build the
  counters are those of the leaves finished so far (`Tally`), and every node begun is a
  leaf, split, or the one being looked at. Sums are compared as sets of pairs, one per
  leaf and rule or leaf and level, which are disjoint (`TallyLeaf`). The theorem says
  so while `WstDepth` is below 256: the counters use `hs_build`'s own `depth`, an
  `unsigned int`, but a node keeps it in a byte, so in a deeper tree the
  nodes no longer tell.

**The heap.** `HeapProofs` proves `AlwaysOrdered` (`[]HeapOrder`) for any items and
capacity. `HeapOrder` excepts the sifted position and so is not inductive: a swap
puts the parent's item above the children of the sifted one, to which nothing yet
relates it. The invariant adds that the children of the sifted position are in order
with its parent (`Siblings`), and that the position is in use unless
`heap_remove_item` has just emptied it (`Cursor`). `HeapImplementsBag` proves
`BagWhileOrdered`: every step after which the heap is in order is one of
`PriorityBag` or a stutter, removals that left nothing to move down included.
`HeapKeepsItems` proves `ItemsKept`, which needs no order. Sifting is a stutter
because a swap is a bijection of the slots (`SwapCount`); taking an item out is an
exchange with the last slot, which is then forgotten. That the root is the best
item, however deep the heap is, follows from the least slot that holds a better one:
its parent would hold a better one too (`RootIsBest`).

**Table, view and tree together.** `AclSystemProofs` proves, for any rules, sizes,
addresses and outcomes of the allocations: `AlwaysTableOwned` (`TableOwned`),
`AlwaysSamePointerReads` (`SamePointerReads`), `AlwaysReleasedGone`
(`ReleasedGone`) and `AlwaysTableIsList` (`TableIsList`, the refinement of
`AclList`), all from `SystemInvariant`. The invariant drops the address from
`SamePointerReads`, which is what makes it inductive: `Reaches` says of every
pointer taken since the last `hs_acl_ctx_init`, whether it still is the table's or
not, that the table's present array has rules as far as the pointer's count goes. Growing
copies that part, removing leaves the last slot as it was, inserting writes
rules only; so whatever array the table comes back to, an old count fits it.
`Released` says that a rule the callback was given, and that is in the table, is the one
of a delete not yet over (`del.found`) or of one that removed another rule (`astray`).
For the refinement, `AddEffect` and `RemoveEffect` say what the two `memmove`s do to an
ordered array, with the search's result from `UpperBoundIs` (a set of slots closed
downwards is known by its size, `PrefixCount`). The callback may do anything: if the
index is still that of the first rule asked for, the delete is the list's, and if not,
the step is `RemovesAnother`. `LowestAssumption` is needed because a stored rule of
priority `UINT32_MAX` would match any delete of its box.

**The table's widths.** `TableMemoryProofs` proves `AlwaysBacked`
(`[]CapacityIsBacked`) and `NeverOverruns` (`[]NoFault`) for any widths of `int` and
`size_t` that `WidthAssumption` admits, for the tables `WellMade` describes: made with a
size above 0, and with a first array of fewer bytes than an `int` can count. For these a
doubled capacity makes a request that is either exact or a negative `int`, which as a
`size_t` no allocator grants, so the unchecked product is never small and positive. For
other tables it may be, and nothing is claimed. `ZeroCap` says how the one bad
capacity can come about without a fault: from the size the table was made with.

**The build auxiliaries.** `BuildAuxProofs` proves `FreesOnce` (`[]NoFault`) and
`LosesNothing` (`[]NothingLost`) for all sizes, any number of addresses and any
behaviour of the rest of the program, under the one assumption that a
reinit's allocation of `ranges_output` does not fail; the run `BuildAuxReinit` shows that
without it both are false. The inductive invariant adds `Owns`: every field
that is not `NULL` has a block, no two fields the same, and in a ready structure
the arrays have the sizes of the last successful call.

**The reader.** `FilterFileProofs` proves `AlwaysLoaded` (`FileLoaded`),
`AlwaysForReason` (`RejectedForReason`) and `AlwaysPrefixRead` (`PrefixRead`) for any
set of files, any number of slots and any `Bits`.
`Taken` says what has been read: the rules up to `pos`, each once and in order, the
k-th with cost k - 1, and nothing ill-formed. That the cost is the place among
the rules, although it counts calls of `ReadFilter`, needs `line = Len(filters)` while
calls go on; the one call that takes no rule but counts (`NoMoreRules`) is the last.
That the reader does not exit at the end of a sound file needs `AtEnd`: a call that gets
there comes behind a character, for a rule at the end would have set `feof`, so
`validfilter` is that character and not what the stack held. The copy is sorted
by a numbering without gaps, so any order `qsort` may choose is the file's
(`AscendingIsSame`).

The run enumerates prefixes of two bits per digit; the theorem is about the code's 8 and
32 as well. The prover knows of `2^n` only that it counts the subsets of a set of n
things, which is enough: a subset of a union of two disjoint sets is a pair of subsets, so
`2^(m+n) = 2^m * 2^n` (`PowSum`). A prefix length then cuts an address at a digit p
and r bits of it (`Cut`): two addresses agree on the prefix if and only if their digits
above p are the same and the digits at p have the same quotient by `2^r` (`PrefixIs`).
`RangeIs` then shows
that the two ends the code puts together from masked octets are the least and the
greatest address of the prefix, length 0 and full length included (`ReadV4`), and `ReadV6`
that the box of words lies inside the prefix, and is all of it exactly if the digits
behind the prefix, and the last r bits at p, are 0: otherwise the address with those bits
cleared is in the prefix and below a low. The invariant this rests on is `Translated`: what
is stored in `filtArr`, and what the copy returns, is the translation of the prefix of the
file's rule it is stored for.

## 5. What is only model-checked

- That a tree is less than 256 deep, which `AlwaysCounted` asks for: in general it
  need not be, and for given rules it is an induction over their lists.
- Liveness (`CallsReturn`, `SweepEnds`, `SiftingEnds`, `LoadEnds`): fairness and
  ENABLED are beyond the prover.

## 6. What the checks show about the code

Four disagreements with what the repository says of itself are rows of
`findings`, each with a run that shows it:

1. `HyperSplitCrash`: an allocation that fails after the vector has grown, or has
   to, crashes `hs_free_all` instead of failing `hs_build_tree` (`hs.c:35`, and
   `hs.c:436` with `522`). Before that it fails cleanly (`CrashNeedsGrowth`).
2. `HyperSplitLowest`: a rule of priority `UINT32_MAX` is in the table and the
   linear search but not in the tree (`hs.c:256, 265`).
3. `BuildAuxReinit`: a failed `hs_build_aux_reinit` leaves `ranges_sort` dangling
   (`hs.c:107`).
4. `HeapRemove`: `heap_remove_item` moves the item it puts into the hole up but never
   down (`heap.c:233`), so that a greater one may end up below it: offer 0, 1 and 2
   (the smaller number is the greater item), remove 0, and `heap_poll` gives 2. The header
   promises the top item. Nothing in the repository removes items; `BagWhileOrdered` says
   what holds for a user who does not, and `ItemsKept` what holds for one who does.

Other limits of the code that the passing properties state or that the models
assume away, by name:

- A heap that cannot grow crashes the sweep (`hs.c:222` does not look at
  `heap_offer`); `CrashNeedsOverlap` says when.
- The auxiliaries of `hs_prep_build` (`hs.c:132`) are never freed, since
  `hs_free_all` only forgets them (`hs.c:531`): `MemoryOwned` excepts them.
- `heap_remove_item` compares through `NULL` when the last of several slots is the
  one removed (`heap.c:228-233`): `RemoveLast`.
- A delete callback may move the rule it was called for. `hs_rule_del` then removes
  the rule that stands at the old index, or, with none there, calls `memmove` with a
  negative length (`rule.c:245-246`). No doc says what a callback may do, so this is no
  finding; `ReleasedGone` and `TableIsList` state the exception, and `DelCrash` is the
  second case.
- A range from high to low is taken as it stands (`utils.c:204`): it may give
  a child an empty list, in which `remove_redund` counts one rule (`hs.c:272`). The build
  succeeds, and a lookup that reaches the leaf reads behind a block of no bytes; with a
  bucket size of 0 the build does. `ListsNotEmpty` says nothing else leads there.
- A table of size 0 can never grow: its first add asks `realloc` for no bytes, which may
  free the array and leave the pointer, or succeed and have the rule written behind the
  block (`rule.c:14, 36`). A table whose first array has 2^31 bytes or more is past what
  the `int` product can say: its request wraps, and may come out small and positive.
  `TableMemory` has both tables, but its properties say nothing of them (`WellMade`);
  `RuleTable` and `AclSystem` assume sizes above 0 (`SizesAssumption`).
- `hs_free_all` twice frees the old vector again (`hs.c:529`): a caller's error.
- `validfilter` is read uninitialised when nothing can be scanned
  (`utils.c:245-249`), and a persistent read error loops forever;
  `RejectedForReason` and `LoadEnds` say for which files.
- The filter array has 65535 slots, and its comment speaks of 64K rules
  (`utils-inl.h:5`): a file of one rule more writes past it.
- IPv6 lows keep the host bits of the file and only boxes of whole words are the
  prefix (`PrefixRead`).
- `hs_key_t` has size 0, so that `key[i * samples_cnt + j]` is one address for all i and
  j (`main.c:83`), and all lookups of the program use the last sample drawn. Lows and highs
  enter the draw as an `unsigned long` (`main.c:84`): a range from high to low gives a
  key outside the rule, or, for a high one below the low, a modulus of 0.

### Not modelled

- The number scanning of `fscanf`, `ReadPort`'s and `ReadProtocol`'s plain
  assignments, `ReadPri` (compiled for `HS_DIM` 3 only), and prefix lengths out
  of range, which `utils.c:95` does not refuse: a rule in a file is well-formed
  or not.
- `main.c`: it calls the reader, the build, the lookups and `hs_free_all` one after the
  other, each of which is modelled; `load_ft` and the `TRACE` part are not compiled.
- The tests, build files and sample rule sets.
- `hs_tree_info`'s prints; the numbers it prints are checked (`CountersMatch`).

## 7. What could follow

The plan of the modules is done, and every safety property of a passing run has its
theorem. What is left is what `TableMemory` exempts: a statement of what a table of size 0,
or one whose first array an `int` cannot measure, still gives its caller would need a
model of what `memmove` and `realloc` do behind the end of a block.
