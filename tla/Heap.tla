--------------------------------- MODULE Heap ---------------------------------
(***************************************************************************)
(* The binary heap of heap.c: an array of items, the children of index k   *)
(* at 2k + 1 and 2k + 2, no parent smaller than its child.  __pushup and   *)
(* __pushdown run one level per step.                                      *)
(*                                                                         *)
(* Items are the numbers hs.c keeps in it, compared by __uint_compare,     *)
(* under which the smaller number is the greater item.  heap_remove_item   *)
(* only ever moves an item up: "ordered" remembers whether one it put into *)
(* a hole should have gone down.                                           *)
(***************************************************************************)
EXTENDS Integers, FiniteSets

CONSTANTS Items,      \* the items, numbers
          SIZE,       \* capacity of a new heap, DEFAULT_CAPACITY in the code
          MaxItems,   \* bound: no call adds to a heap of this many items
          None        \* NULL

ASSUME ItemsAssumption == Items \subseteq Nat /\ IsFiniteSet(Items)
ASSUME SizeAssumption  == SIZE \in Nat \ {0}
ASSUME NoneAssumption  == None \notin Items

VARIABLES
  pc,      \* "ready", "up", "down", or "crashed"
  array,   \* h->array, a function on 0..size-1
  count,   \* h->count
  idx,     \* the item on its way up or down
  last,    \* [op, item, ret]: the last call and its answer
  ordered  \* auxiliary: no remove left an item above greater ones, or crashed,
           \* since the heap was new or cleared

vars == <<pc, array, count, idx, last, ordered>>

size == Cardinality(DOMAIN array)

Answer(op, v, ret) == [op |-> op, item |-> v, ret |-> ret]

(* h->cmp(a, b) < 0                                                        *)
Below(a, b) == a > b

Parent(k) == (k - 1) \div 2

-----------------------------------------------------------------------------
(* Mutants (see PROJECT.json): slips the runs must notice.                 *)
BiggerChild_Left(l, r) == l
Swapped_Overwrites(j, k) == [array EXCEPT ![k] = array[j]]

-----------------------------------------------------------------------------
Init == /\ pc = "ready" /\ array = [k \in 0..SIZE - 1 |-> None] /\ count = 0 /\ idx = 0
        /\ last = Answer("new", None, 0) /\ ordered = TRUE

Full == count = size

(* __heap_offerx: the item goes to the end and from there up.              *)
Place(a, v) ==
  /\ array' = [a EXCEPT ![count] = v] /\ count' = count + 1
  /\ pc' = "up" /\ idx' = count
  /\ UNCHANGED ordered

(* heap_offer doubles a full array; what is beyond the old end is unset.   *)
Offer(v) ==
  /\ pc = "ready" /\ count < MaxItems
  /\ last' = Answer("offer", v, 0)
  /\ IF Full
       THEN Place([k \in 0..2 * size - 1 |-> IF k < size THEN array[k] ELSE None], v)
       ELSE Place(array, v)

(* heap_offerx refuses an item for a full array.                           *)
OfferX(v) ==
  /\ pc = "ready" /\ count < MaxItems
  /\ IF Full
       THEN last' = Answer("offerx", v, -1) /\ UNCHANGED <<pc, array, count, idx, ordered>>
       ELSE last' = Answer("offerx", v, 0) /\ Place(array, v)

(* A realloc that fails returns -1, but the caller's heap pointer is NULL  *)
(* by then: the items are lost and the next call crashes.                  *)
OfferFails(v) ==
  /\ pc = "ready" /\ Full /\ count < MaxItems
  /\ pc' = "crashed" /\ last' = Answer("offer", v, -1)
  /\ UNCHANGED <<array, count, idx, ordered>>

-----------------------------------------------------------------------------
(* __swap                                                                  *)
Swapped(j, k) == [array EXCEPT ![j] = array[k], ![k] = array[j]]

(* __pushup: the item rises past every parent that is not greater.         *)

Climbs(k) == ~Below(array[k], array[Parent(k)])

(* Mutant: the cursor stays behind.                                        *)
PushUp_Stays ==
  /\ pc = "up" /\ idx # 0 /\ ~Below(array[idx], array[Parent(idx)])
  /\ array' = Swapped(idx, Parent(idx))
  /\ UNCHANGED <<pc, count, idx, last, ordered>>

PushUp ==
  /\ pc = "up" /\ idx # 0 /\ Climbs(idx)
  /\ array' = Swapped(idx, Parent(idx))
  /\ idx' = Parent(idx)
  /\ UNCHANGED <<pc, count, last, ordered>>

PushUpDone ==
  /\ pc = "up" /\ (idx # 0 => ~Climbs(idx))
  /\ pc' = "ready" /\ idx' = 0
  /\ UNCHANGED <<array, count, last, ordered>>

(* __pushdown: the item sinks below the bigger child while that is greater.*)

BiggerChild(l, r) == IF r < count /\ Below(array[l], array[r]) THEN r ELSE l

Child(k) == BiggerChild(2 * k + 1, 2 * k + 2)

(* Mutant: a child without a sibling is not looked at.                     *)
Sinks_TwoChildren(k) == 2 * k + 2 < count /\ Below(array[k], array[Child(k)])

Sinks(k) == 2 * k + 1 < count /\ Below(array[k], array[Child(k)])

PushDown ==
  /\ pc = "down" /\ Sinks(idx)
  /\ array' = Swapped(idx, Child(idx))
  /\ idx' = Child(idx)
  /\ UNCHANGED <<pc, count, last, ordered>>

PushDownDone ==
  /\ pc = "down" /\ ~Sinks(idx)
  /\ pc' = "ready" /\ idx' = 0
  /\ UNCHANGED <<array, count, last, ordered>>

-----------------------------------------------------------------------------
SinkFrom == [array EXCEPT ![0] = array[count - 1]]

(* heap_poll: the last item takes the place of the first and sinks.        *)
Poll ==
  /\ pc = "ready" /\ count > 0
  /\ array' = SinkFrom
  /\ count' = count - 1
  /\ pc' = IF count' > 1 THEN "down" ELSE "ready"
  /\ last' = Answer("poll", None, array[0])
  /\ UNCHANGED <<idx, ordered>>

PollEmpty ==
  /\ pc = "ready" /\ count = 0
  /\ last' = Answer("poll", None, None)
  /\ UNCHANGED <<pc, array, count, idx, ordered>>

Peek ==
  /\ pc = "ready"
  /\ last' = Answer("peek", None, IF count = 0 THEN None ELSE array[0])
  /\ UNCHANGED <<pc, array, count, idx, ordered>>

Clear ==
  /\ pc = "ready"
  /\ count' = 0
  /\ ordered' = TRUE
  /\ last' = Answer("clear", None, 0)
  /\ UNCHANGED <<pc, array, idx>>

(* __item_get_idx: the first index of an equal item.                       *)
At(v) == {k \in 0..count - 1 : array[k] = v}
GetIdx(v) == CHOOSE k \in At(v) : \A j \in At(v) : k <= j

Contains(v) ==
  /\ pc = "ready"
  /\ last' = Answer("contains", v, IF At(v) = {} THEN 0 ELSE 1)
  /\ UNCHANGED <<pc, array, count, idx, ordered>>

(* heap_remove_item: the last item takes the place of the one removed, and *)
(* is moved up, never down.                                                *)
RemoveMissing(v) ==
  /\ pc = "ready" /\ At(v) = {}
  /\ last' = Answer("remove", v, None)
  /\ UNCHANGED <<pc, array, count, idx, ordered>>

(* The last item is above nothing that is greater when it fills slot k.    *)
Fits(k) == \A c \in {2 * k + 1, 2 * k + 2} : c < count - 1 => ~Below(array[count - 1], array[c])

TakeOut(k) ==
  /\ array' = [array EXCEPT ![k] = array[count - 1], ![count - 1] = None]
  /\ count' = count - 1
  /\ idx' = k

RemoveItem(v) ==
  /\ pc = "ready" /\ At(v) # {}
  /\ LET k == GetIdx(v)
     IN  /\ k = count - 1 => k = 0
         /\ TakeOut(k)
         /\ ordered' = (ordered /\ Fits(k))
  /\ pc' = "up"
  /\ last' = Answer("remove", v, v)

(* The item removed is the last one: its slot is set to NULL and __pushup, *)
(* begun there, has cmp read through it.  The call never answers.          *)
RemoveLast(v) ==
  /\ pc = "ready" /\ At(v) # {}
  /\ GetIdx(v) = count - 1 /\ count > 1
  /\ TakeOut(count - 1)
  /\ pc' = "crashed" /\ ordered' = FALSE
  /\ UNCHANGED last

-----------------------------------------------------------------------------
Sifting == PushUp \/ PushUpDone \/ PushDown \/ PushDownDone

Next == \/ \E v \in Items : \/ Offer(v) \/ OfferX(v) \/ OfferFails(v)
                            \/ Contains(v) \/ RemoveMissing(v) \/ RemoveItem(v) \/ RemoveLast(v)
        \/ Poll \/ PollEmpty \/ Peek \/ Clear
        \/ Sifting

Spec == Init /\ [][Next]_vars

(* A call that was entered is executed: nothing suspends it.               *)
FairSpec == Spec /\ WF_vars(Sifting)

-----------------------------------------------------------------------------
Used == 0..count - 1

TypeOK ==
  /\ pc \in {"ready", "up", "down", "crashed"}
  /\ count \in 0..size
  /\ \A k \in Used : array[k] \in Items
  /\ pc \in {"up", "down"} => idx \in 0..count

(* Between calls no parent is below its child, so the first item is the    *)
(* best, whatever mixture of calls made the heap, removes that left nothing*)
(* to move down among them.  While an item rises only it may stand below   *)
(* what it should be above; while it sinks, only its children may be       *)
(* greater.                                                                *)
HeapOrder ==
  /\ TypeOK
  /\ ordered => \A k \in Used \ {0} :
       Below(array[Parent(k)], array[k]) =>
         (pc = "up" /\ k = idx) \/ (pc = "down" /\ Parent(k) = idx)

-----------------------------------------------------------------------------
Smallest(S) == CHOOSE v \in S : \A w \in S : v <= w

Held(v) == Cardinality(At(v))

Abstract == INSTANCE PriorityBag WITH Best <- Smallest, bag <- [v \in Items |-> Held(v)]

(* While no remove left an item above greater ones, the array implements a *)
(* priority bag: heap_poll and heap_peek give the best item, heap_offer    *)
(* and heap_remove_item add and take the one they are called for, and      *)
(* sifting never shows.                                                    *)
BagWhileOrdered == Abstract!Init /\ [][ordered' => Abstract!Next]_(Abstract!vars)

(* heap.h:62-69 promises the top item of heap_poll and heap_peek without   *)
(* regard to heap_remove_item, and heap.c:232 says that it ensures the heap*)
(* property.  It does not move an item down.                               *)
ImplementsBag == Abstract!Init /\ [][pc' # "crashed" => Abstract!Next]_(Abstract!vars)

Offered(v) == IF last'.op \in {"offer", "offerx"} /\ last'.item = v /\ last'.ret = 0 THEN 1 ELSE 0
Taken(v)   == IF last'.op \in {"poll", "remove"} /\ last'.ret = v THEN 1 ELSE 0

(* In order or not, no call that returns loses an item or makes one: the   *)
(* array holds what was offered and not yet polled, removed or cleared, and*)
(* sifting only moves items about.                                         *)
ItemsKept ==
  [][\A v \in Items :
       \/ pc' = "crashed"
       \/ Held(v)' = IF pc # "ready" THEN Held(v)
                     ELSE IF last'.op = "clear" THEN 0 ELSE Held(v) + Offered(v) - Taken(v)]_vars

(* An item comes to rest.                                                  *)
SiftingEnds == pc \in {"up", "down"} ~> pc = "ready"
=============================================================================
