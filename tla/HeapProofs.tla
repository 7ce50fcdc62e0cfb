------------------------------ MODULE HeapProofs ------------------------------
(***************************************************************************)
(* Proofs about Heap for any items and any capacity of a new heap: sifting *)
(* restores the heap order, whatever calls made the heap, removes that left*)
(* nothing to move down among them; Heap implements PriorityBag as long as *)
(* that is so; and, in order or not, it loses no item and makes none.      *)
(***************************************************************************)
EXTENDS Heap, WellFoundedInduction, FiniteSetTheorems, TLAPS

(* The array has size slots, and a sifted item is one of those in use.     *)
Slots ==
  /\ pc \in {"ready", "up", "down", "crashed"} /\ ordered \in BOOLEAN
  /\ size \in Nat \ {0} /\ array \in [0..size - 1 -> Items \union {None}]
  /\ count \in 0..size
  /\ \A k \in Used : array[k] \in Items

Cursor ==
  /\ idx \in 0..count
  /\ pc = "ready" => idx = 0
  /\ pc = "up" /\ idx # 0 => idx < count
  /\ pc = "down" => idx < count

(* HeapOrder, said with <=, and what makes a swap keep it: the children of *)
(* the sifted item are in order with its parent.                           *)
InOrder(k) == array[Parent(k)] <= array[k]

Exempt(k) == (pc = "up" /\ k = idx) \/ (pc = "down" /\ Parent(k) = idx)

Siblings ==
  /\ \A k \in Used \ {0} : Exempt(k) \/ InOrder(k)
  /\ pc \in {"up", "down"} /\ idx # 0 =>
       \A k \in Used \ {0} : Parent(k) = idx => array[Parent(idx)] <= array[k]

IInv == Slots /\ Cursor /\ (ordered => Siblings)

-----------------------------------------------------------------------------
LEMMA ParentBelow ==
  ASSUME NEW k \in Nat \ {0}
  PROVE  Parent(k) \in 0..k - 1 /\ (k = 2 * Parent(k) + 1 \/ k = 2 * Parent(k) + 2)
  BY DEF Parent

LEMMA SizeIs == ASSUME NEW n \in Nat, DOMAIN array = 0..n - 1 PROVE size = n
  BY FS_Interval DEF size

LEMMA SizeNext == ASSUME NEW n \in Nat, DOMAIN array' = 0..n - 1 PROVE size' = n
  BY FS_Interval DEF size

LEMMA UsedInside == ASSUME Slots PROVE Used \subseteq 0..size - 1 /\ Used \subseteq Nat
  BY DEF Slots, Used

LEMMA ItemsAreNumbers == Items \subseteq Nat
  BY ItemsAssumption

LEMMA InitInv == Init => IInv
<1> SUFFICES ASSUME Init PROVE IInv
  OBVIOUS
<1>1. SIZE \in Nat /\ size = SIZE
  BY SizeIs, SizeAssumption DEF Init
<1> QED
  BY <1>1, SizeAssumption DEF Init, IInv, Slots, Cursor, Siblings, Used

(* A call that leaves the array alone.                                     *)
LEMMA QuietInv ==
  ASSUME IInv, pc = "ready", UNCHANGED <<array, count, idx, ordered>>, pc' \in {"ready", "crashed"}
  PROVE  IInv'
<1>1. size' = size
  BY DEF size
<1> QED
  BY <1>1 DEF IInv, Slots, Cursor, Siblings, Exempt, InOrder, Used

LEMMA ClearInv == IInv /\ Clear => IInv'
<1> SUFFICES ASSUME IInv, Clear PROVE IInv'
  OBVIOUS
<1>1. size' = size
  BY DEF size, Clear
<1> QED
  BY <1>1 DEF Clear, IInv, Slots, Cursor, Siblings, Used

(* The item placed at the end is the one exempt while it rises.            *)
LEMMA PlaceInv ==
  ASSUME IInv, pc = "ready", NEW v \in Items, NEW a, NEW n \in Nat, count < n,
         a \in [0..n - 1 -> Items \union {None}], \A k \in Used : a[k] = array[k],
         Place(a, v)
  PROVE  IInv'
<1>1. count \in Nat /\ Used = 0..count - 1 /\ Used' = 0..count
  BY DEF IInv, Slots, Used, Place
<1>2. array' \in [0..n - 1 -> Items \union {None}] /\ size' = n
  BY SizeNext DEF Place
<1>3. array'[count] = v /\ \A k \in Used : array'[k] = array[k]
  BY <1>1 DEF Place
<1>4. pc' = "up" /\ idx' = count /\ count' = count + 1 /\ ordered' = ordered
  BY DEF Place
<1>5. Slots' /\ Cursor'
  BY <1>1, <1>2, <1>3, <1>4 DEF IInv, Slots, Cursor
<1>6. ASSUME ordered, NEW k \in Used' \ {0} PROVE Exempt(k)' \/ InOrder(k)'
  <2>1. CASE k = count
    BY <2>1, <1>4 DEF Exempt
  <2>2. CASE k # count
    <3>1. k \in Used \ {0} /\ k \in Nat \ {0}
      BY <2>2, <1>1, <1>6
    <3>2. Parent(k) \in Used
      BY <3>1, <1>1, ParentBelow
    <3>3. InOrder(k)
      BY <1>6, <3>1 DEF IInv, Siblings, Exempt
    <3> QED
      BY <1>3, <3>1, <3>2, <3>3 DEF InOrder
  <2> QED
    BY <2>1, <2>2
<1>7. \A k \in Used' \ {0} : Parent(k) # idx'
  BY <1>1, <1>4, ParentBelow
<1> QED
  BY <1>4, <1>5, <1>6, <1>7 DEF IInv, Siblings

LEMMA OfferInv == ASSUME NEW v \in Items, IInv, Offer(v) PROVE IInv'
<1>1. size \in Nat \ {0} /\ count \in 0..size /\ pc = "ready"
  BY DEF IInv, Slots, Offer
<1>2. array \in [0..size - 1 -> Items \union {None}]
  BY DEF IInv, Slots
<1>3. CASE Full
  <2> DEFINE a == [k \in 0..2 * size - 1 |-> IF k < size THEN array[k] ELSE None]
  <2>1. a \in [0..2 * size - 1 -> Items \union {None}] /\ \A k \in Used : a[k] = array[k]
    BY <1>1, <1>2 DEF Used
  <2>2. Place(a, v)
    BY <1>3 DEF Offer
  <2> HIDE DEF a
  <2> QED
    BY <1>1, <1>3, <2>1, <2>2, PlaceInv DEF Full
<1>4. CASE ~Full
  BY <1>1, <1>2, <1>4, PlaceInv DEF Offer, Full
<1> QED
  BY <1>3, <1>4

-----------------------------------------------------------------------------
LEMMA SwapIs ==
  ASSUME Slots, NEW j \in Used, NEW k \in Used, j # k, array' = Swapped(j, k),
         UNCHANGED <<count, ordered>>, pc' \in {"ready", "up", "down", "crashed"}
  PROVE  /\ Slots' /\ Used' = Used
         /\ array'[j] = array[k] /\ array'[k] = array[j]
         /\ \A m \in Used \ {j, k} : array'[m] = array[m]
<1>1. /\ Used' = Used /\ Used \subseteq 0..size - 1
      /\ size \in Nat \ {0} /\ array \in [0..size - 1 -> Items \union {None}]
  BY UsedInside DEF Used, Slots
<1>2. array[j] \in Items /\ array[k] \in Items
  BY DEF Slots
<1>3. array' \in [0..size - 1 -> Items \union {None}]
  BY <1>1, <1>2 DEF Swapped
<1>4. size' = size
  BY <1>1, <1>3, SizeNext
<1>5. array'[j] = array[k] /\ array'[k] = array[j] /\ \A m \in Used \ {j, k} : array'[m] = array[m]
  BY <1>1 DEF Swapped
<1> QED
  BY <1>1, <1>2, <1>3, <1>4, <1>5 DEF Slots

(* The risen item is not greater than what it displaced, nor is that       *)
(* greater than its new children: they were in order with it before.       *)
LEMMA PushUpInv == IInv /\ PushUp => IInv'
<1> SUFFICES ASSUME IInv, PushUp PROVE IInv'
  OBVIOUS
<1> DEFINE p == Parent(idx)
<1>1. /\ pc = "up" /\ idx # 0 /\ Climbs(idx)
      /\ array' = Swapped(idx, p) /\ idx' = p
      /\ UNCHANGED <<pc, count, ordered>> /\ Slots /\ Cursor
  BY DEF PushUp, IInv
<1>2. count \in Nat /\ Used = 0..count - 1 /\ idx \in Used /\ idx \in Nat \ {0}
  BY <1>1 DEF Cursor, Slots, Used
<1>3. p \in Used /\ p \in Nat /\ p < idx
  BY <1>2, ParentBelow
<1>4. /\ Slots' /\ Used' = Used
      /\ array'[idx] = array[p] /\ array'[p] = array[idx]
      /\ \A m \in Used \ {idx, p} : array'[m] = array[m]
  BY <1>1, <1>2, <1>3, SwapIs
<1>5. \A k \in Used : array[k] \in Nat
  BY <1>1, ItemsAreNumbers DEF Slots
<1>6. array[idx] <= array[p]
  BY <1>1, <1>2, <1>3, <1>5 DEF Climbs, Below
<1>7. Cursor'
  BY <1>1, <1>2, <1>3 DEF Cursor
<1> HIDE DEF p
<1>8. ASSUME ordered PROVE Siblings'
  <2>1. \A k \in Used \ {0} : k # idx => InOrder(k)
    BY <1>1, <1>8 DEF IInv, Siblings, Exempt
  <2>2. \A k \in Used \ {0} : Parent(k) = idx => array[p] <= array[k]
    BY <1>1, <1>8 DEF IInv, Siblings, p
  <2>3. \A k \in Used \ {0} : Parent(k) \in Used /\ Parent(k) # k
    BY <1>2, ParentBelow
  <2>4. ASSUME NEW k \in Used \ {0}, k # p PROVE array'[Parent(k)] <= array'[k]
    <3>1. CASE k = idx
      BY <3>1, <1>4, <1>6 DEF p
    <3>2. CASE k # idx /\ Parent(k) = idx
      BY <3>2, <2>2, <2>4, <1>4
    <3>3. CASE k # idx /\ Parent(k) = p
      BY <3>3, <2>1, <2>4, <1>2, <1>3, <1>4, <1>5, <1>6 DEF InOrder
    <3>4. CASE k # idx /\ Parent(k) # idx /\ Parent(k) # p
      BY <3>4, <2>1, <2>3, <2>4, <1>4 DEF InOrder
    <3> QED
      BY <3>1, <3>2, <3>3, <3>4
  <2>5. ASSUME p # 0, NEW k \in Used \ {0}, Parent(k) = p PROVE array'[Parent(p)] <= array'[k]
    <3>1. array[Parent(p)] <= array[p] /\ Parent(p) \in Used /\ Parent(p) < p
      BY <2>1, <2>5, <1>2, <1>3, ParentBelow DEF InOrder
    <3>2. array'[Parent(p)] = array[Parent(p)]
      BY <3>1, <1>2, <1>3, <1>4
    <3>3. CASE k = idx
      BY <3>1, <3>2, <3>3, <1>4
    <3>4. CASE k # idx
      <4>1. array[p] <= array[k] /\ array'[k] = array[k]
        BY <2>1, <2>3, <2>5, <3>4, <1>4 DEF InOrder
      <4>2. array[Parent(p)] \in Nat /\ array[p] \in Nat /\ array[k] \in Nat
        BY <3>1, <1>3, <1>5
      <4> QED
        BY <4>1, <4>2, <3>1, <3>2
    <3> QED
      BY <3>3, <3>4
  <2> QED
    BY <2>4, <2>5, <1>1, <1>4 DEF Siblings, Exempt, InOrder, p
<1> QED
  BY <1>1, <1>4, <1>7, <1>8 DEF IInv

LEMMA PushUpDoneInv == IInv /\ PushUpDone => IInv'
<1> SUFFICES ASSUME IInv, PushUpDone PROVE IInv'
  OBVIOUS
<1>1. /\ pc = "up" /\ pc' = "ready" /\ idx' = 0
      /\ idx # 0 => ~Climbs(idx)
      /\ UNCHANGED <<array, count, ordered>> /\ Slots /\ Cursor
  BY DEF PushUpDone, IInv
<1>2. size' = size /\ Used' = Used /\ count \in Nat
  BY <1>1 DEF size, Used, Slots
<1>3. Slots' /\ Cursor'
  BY <1>1, <1>2 DEF Slots, Cursor
<1>4. ASSUME ordered, NEW k \in Used \ {0} PROVE InOrder(k)
  <2>1. CASE k # idx
    BY <2>1, <1>1, <1>4 DEF IInv, Siblings, Exempt
  <2>2. CASE k = idx
    <3>1. Parent(k) \in Used /\ k \in Used
      BY <1>2, <1>4, ParentBelow DEF Used
    <3>2. array[k] \in Nat /\ array[Parent(k)] \in Nat
      BY <3>1, <1>1, ItemsAreNumbers DEF Slots
    <3> QED
      BY <3>2, <2>2, <1>1, <1>4 DEF Climbs, Below, InOrder
  <2> QED
    BY <2>1, <2>2
<1> QED
  BY <1>1, <1>2, <1>3, <1>4 DEF IInv, Siblings, InOrder

(* The child chosen is in use, and not above its sibling.                  *)
LEMMA ChildIs ==
  ASSUME Slots, NEW j \in Used, 2 * j + 1 < count
  PROVE  /\ Child(j) \in Used /\ Parent(Child(j)) = j /\ j < Child(j)
         /\ \A k \in Used \ {0} : Parent(k) = j => array[Child(j)] <= array[k]
<1>1. count \in Nat /\ Used = 0..count - 1 /\ j \in Nat
  BY DEF Slots, Used
<1>2. \A k \in Used : array[k] \in Nat
  BY ItemsAreNumbers DEF Slots
<1> DEFINE l == 2 * j + 1
           r == 2 * j + 2
<1>3. l \in Used /\ Parent(l) = j /\ Parent(r) = j /\ j < l /\ j < r
  <2>1. l \in Used /\ j < l /\ j < r
    BY <1>1
  <2>2. Parent(l) = j /\ Parent(r) = j
    BY <1>1 DEF Parent
  <2> QED
    BY <2>1, <2>2
<1>4. Child(j) = IF r < count /\ array[l] > array[r] THEN r ELSE l
  BY <1>1 DEF Child, BiggerChild, Below
<1>5. r < count => r \in Used
  BY <1>1
<1>6. ASSUME NEW k \in Used \ {0}, Parent(k) = j PROVE k = l \/ (k = r /\ r < count)
  <2>1. k \in Nat \ {0} /\ k < count
    BY <1>1, <1>6
  <2>2. k = 2 * j + 1 \/ k = 2 * j + 2
    BY <2>1, <1>6, ParentBelow
  <2> QED
    BY <2>1, <2>2
<1> HIDE DEF l, r
<1>7. CASE r < count /\ array[l] > array[r]
  <2>1. Child(j) = r
    BY <1>4, <1>7
  <2>2. array[r] \in Nat /\ array[l] \in Nat
    BY <1>2, <1>3, <1>5, <1>7
  <2> QED
    BY <1>3, <1>5, <1>6, <1>7, <2>1, <2>2
<1>8. CASE ~(r < count /\ array[l] > array[r])
  <2>1. Child(j) = l
    BY <1>4, <1>8
  <2>2. r < count => array[r] \in Nat /\ array[l] \in Nat
    BY <1>2, <1>3, <1>5
  <2>3. array[l] <= array[l]
    BY <1>2, <1>3
  <2> QED
    BY <1>3, <1>6, <1>8, <2>1, <2>2, <2>3
<1> QED
  BY <1>7, <1>8

LEMMA PushDownInv == IInv /\ PushDown => IInv'
<1> SUFFICES ASSUME IInv, PushDown PROVE IInv'
  OBVIOUS
<1> DEFINE c == Child(idx)
<1>1. /\ pc = "down" /\ 2 * idx + 1 < count /\ Below(array[idx], array[c])
      /\ array' = Swapped(idx, c) /\ idx' = c
      /\ UNCHANGED <<pc, count, ordered>> /\ Slots /\ Cursor
  BY DEF PushDown, Sinks, IInv
<1>2. count \in Nat /\ Used = 0..count - 1 /\ idx \in Used /\ idx \in Nat
  BY <1>1 DEF Cursor, Slots, Used
<1>3. /\ c \in Used /\ Parent(c) = idx /\ idx < c
      /\ \A k \in Used \ {0} : Parent(k) = idx => array[c] <= array[k]
  BY <1>1, <1>2, ChildIs
<1> HIDE DEF c
<1>4. c \in Nat \ {0} /\ c # idx /\ c < count
  BY <1>2, <1>3
<1>5. /\ Slots' /\ Used' = Used
      /\ array'[idx] = array[c] /\ array'[c] = array[idx]
      /\ \A m \in Used \ {idx, c} : array'[m] = array[m]
  BY <1>1, <1>2, <1>3, <1>4, SwapIs
<1>6. array[c] <= array[idx]
  <2>1. array[c] \in Nat /\ array[idx] \in Nat
    BY <1>1, <1>2, <1>3, ItemsAreNumbers DEF Slots
  <2> QED
    BY <1>1, <2>1 DEF Below
<1>7. Cursor'
  BY <1>1, <1>4, <1>2 DEF Cursor
<1>8. ASSUME ordered PROVE Siblings'
  <2>1. \A k \in Used \ {0} : Parent(k) # idx => InOrder(k)
    BY <1>1, <1>8 DEF IInv, Siblings, Exempt
  <2>2. idx # 0 => array[Parent(idx)] <= array[c]
    BY <1>1, <1>3, <1>4, <1>8 DEF IInv, Siblings
  <2>3. \A k \in Used \ {0} : Parent(k) \in Used /\ Parent(k) # k
    BY <1>2, ParentBelow
  <2>4. ASSUME NEW k \in Used \ {0}, Parent(k) # c PROVE array'[Parent(k)] <= array'[k]
    <3>1. CASE k = c
      BY <3>1, <1>3, <1>5, <1>6
    <3>2. CASE k = idx
      <4>1. array'[k] = array[c] /\ Parent(k) \in Used \ {idx, c}
        BY <3>2, <1>5, <2>3, <2>4
      <4> QED
        BY <4>1, <3>2, <1>5, <2>2, <2>4
    <3>3. CASE k # c /\ Parent(k) = idx
      BY <3>3, <1>3, <1>5, <2>3, <2>4
    <3>4. CASE k # c /\ k # idx /\ Parent(k) # idx
      BY <3>4, <2>1, <2>3, <2>4, <1>5 DEF InOrder
    <3> QED
      BY <3>1, <3>2, <3>3, <3>4
  <2>5. ASSUME NEW k \in Used \ {0}, Parent(k) = c PROVE array'[Parent(c)] <= array'[k]
    <3>1. InOrder(k) /\ k # c /\ k # idx
      BY <2>1, <2>3, <2>5, <1>2, <1>3, <1>4, ParentBelow
    <3> QED
      BY <3>1, <1>3, <1>5, <2>5 DEF InOrder
  <2> QED
    BY <2>4, <2>5, <1>1, <1>5 DEF Siblings, Exempt, InOrder
<1> QED
  BY <1>1, <1>5, <1>7, <1>8 DEF IInv

LEMMA PushDownDoneInv == IInv /\ PushDownDone => IInv'
<1> SUFFICES ASSUME IInv, PushDownDone PROVE IInv'
  OBVIOUS
<1>1. /\ pc = "down" /\ pc' = "ready" /\ idx' = 0 /\ ~Sinks(idx)
      /\ UNCHANGED <<array, count, ordered>> /\ Slots /\ Cursor
  BY DEF PushDownDone, IInv
<1>2. size' = size /\ Used' = Used /\ count \in Nat /\ Used = 0..count - 1 /\ idx \in Used
  BY <1>1 DEF size, Used, Slots, Cursor
<1>3. Slots' /\ Cursor'
  BY <1>1, <1>2 DEF Slots, Cursor
<1>4. ASSUME ordered, NEW k \in Used \ {0} PROVE InOrder(k)
  <2>1. CASE Parent(k) # idx
    BY <2>1, <1>1, <1>4 DEF IInv, Siblings, Exempt
  <2>2. CASE Parent(k) = idx
    <3>1. 2 * idx + 1 < count
      <4>1. k \in Nat \ {0} /\ k < count /\ idx \in Nat
        BY <1>2, <1>4
      <4>2. k = 2 * idx + 1 \/ k = 2 * idx + 2
        BY <4>1, <2>2, ParentBelow
      <4> QED
        BY <4>1, <4>2, <1>2
    <3>2. Child(idx) \in Used /\ array[Child(idx)] <= array[k]
      BY <3>1, <2>2, <1>1, <1>2, ChildIs
    <3>3. array[k] \in Nat /\ array[idx] \in Nat /\ array[Child(idx)] \in Nat
      BY <3>2, <1>1, <1>2, ItemsAreNumbers DEF Slots
    <3>4. ~(array[idx] > array[Child(idx)])
      BY <3>1, <1>1 DEF Sinks, Below
    <3> QED
      BY <3>2, <3>3, <3>4, <2>2 DEF InOrder
  <2> QED
    BY <2>1, <2>2
<1> QED
  BY <1>1, <1>2, <1>3, <1>4 DEF IInv, Siblings, InOrder

-----------------------------------------------------------------------------
(* Slot k is filled with the last item, and the last slot given up.        *)
LEMMA TakeOutIs ==
  ASSUME Slots, NEW k \in Used, count' = count - 1, pc' \in {"ready", "up", "down", "crashed"},
         ordered' \in BOOLEAN,
         NEW f \in Items \union {None},
         array' = [array EXCEPT ![k] = array[count - 1], ![count - 1] = f]
           \/ array' = [array EXCEPT ![k] = array[count - 1]]
  PROVE  /\ Slots' /\ Used' = 0..count - 2 /\ size' = size
         /\ k \in Used' => array'[k] = array[count - 1]
         /\ \A m \in Used' \ {k} : array'[m] = array[m]
<1>1. /\ count \in Nat \ {0} /\ Used = 0..count - 1 /\ Used' = 0..count - 2
      /\ count - 1 \in Used /\ Used \subseteq 0..size - 1
      /\ size \in Nat \ {0} /\ array \in [0..size - 1 -> Items \union {None}] /\ count <= size
  BY DEF Slots, Used
<1>2. array[count - 1] \in Items
  BY <1>1 DEF Slots
<1>3. array' \in [0..size - 1 -> Items \union {None}]
  BY <1>1, <1>2
<1>4. size' = size
  BY <1>1, <1>3, SizeNext
<1>5. k \in Used' => array'[k] = array[count - 1]
  BY <1>1
<1>6. \A m \in Used' \ {k} : array'[m] = array[m]
  BY <1>1
<1>7. \A m \in Used' : array'[m] \in Items
  BY <1>1, <1>2, <1>5, <1>6 DEF Slots
<1> QED
  BY <1>1, <1>3, <1>4, <1>5, <1>6, <1>7 DEF Slots

LEMMA PollInv == IInv /\ Poll => IInv'
<1> SUFFICES ASSUME IInv, Poll PROVE IInv'
  OBVIOUS
<1>1. /\ pc = "ready" /\ idx = 0 /\ idx' = 0 /\ count' = count - 1 /\ ordered' = ordered
      /\ count \in Nat \ {0} /\ Slots
      /\ array' = [array EXCEPT ![0] = array[count - 1]]
      /\ pc' = IF count' > 1 THEN "down" ELSE "ready"
  BY DEF Poll, SinkFrom, IInv, Cursor, Slots
<1>2. 0 \in Used /\ Used = 0..count - 1 /\ ordered' \in BOOLEAN
  BY <1>1 DEF Used, Slots
<1>3. /\ Slots' /\ Used' = 0..count - 2
      /\ \A m \in Used' \ {0} : array'[m] = array[m]
  BY <1>1, <1>2, TakeOutIs
<1>4. Cursor'
  BY <1>1 DEF Cursor
<1>5. ASSUME ordered, NEW k \in Used' \ {0} PROVE Exempt(k)' \/ InOrder(k)'
  <2>1. k \in Used \ {0} /\ k \in Nat \ {0} /\ count' > 1
    BY <1>1, <1>2, <1>3, <1>5
  <2>2. InOrder(k) /\ Parent(k) \in Used'
    BY <1>1, <1>3, <1>5, <2>1, ParentBelow DEF IInv, Siblings, Exempt
  <2> QED
    BY <1>1, <1>3, <2>1, <2>2 DEF Exempt, InOrder
<1> QED
  BY <1>1, <1>3, <1>4, <1>5 DEF IInv, Siblings

(* __item_get_idx's loop stops at a first index if there is one.           *)
LEMMA Least ==
  ASSUME NEW S \in SUBSET Nat, S # {}
  PROVE  \E n \in S : \A m \in S : n <= m
<1> DEFINE T == {0..n : n \in S}
           R == StrictSubsetOrdering(Nat)
<1>1. \A n \in S : 0..n \in FiniteSubsetsOf(Nat)
  BY FS_Interval DEF FiniteSubsetsOf
<1>2. T \subseteq FiniteSubsetsOf(Nat) /\ T # {}
  BY <1>1
<1>3. PICK x \in T : \A y \in T : ~ (<<y, x>> \in R)
  <2> HIDE DEF T
  <2> QED
    BY <1>2, FS_StrictSubsetOrderingWellFounded, WFMin
<1>4. PICK n \in S : x = 0..n
  OBVIOUS
<1>5. ASSUME NEW m \in S, m < n PROVE FALSE
  <2>1. 0..m \in T /\ 0..m \subseteq 0..n /\ n \in 0..n /\ n \notin 0..m
    BY <1>5
  <2>2. <<0..m, x>> \in R
    BY <2>1, <1>4 DEF StrictSubsetOrdering
  <2> QED
    BY <2>1, <2>2, <1>3
<1> QED
  BY <1>5

LEMMA GetIdxIs == ASSUME Slots, NEW v, At(v) # {} PROVE GetIdx(v) \in Used /\ array[GetIdx(v)] = v
<1>1. At(v) \subseteq Used /\ At(v) \in SUBSET Nat
  BY DEF At, Slots, Used
<1>2. \E k \in At(v) : \A j \in At(v) : k <= j
  BY <1>1, Least
<1>3. GetIdx(v) \in At(v)
  BY <1>2 DEF GetIdx
<1> QED
  BY <1>1, <1>3 DEF At

(* What fills slot k is above none of its children, which were in order    *)
(* with the item removed and so are in order with the parent of k.         *)
LEMMA RemoveInv == ASSUME NEW v \in Items, IInv, RemoveItem(v) PROVE IInv'
<1> DEFINE k == GetIdx(v)
           n == count - 1
<1>1. /\ Slots /\ pc = "ready" /\ pc' = "up" /\ idx' = k /\ count' = n /\ k \in Used
      /\ k = n => k = 0
      /\ ordered' = (ordered /\ Fits(k))
      /\ array' = [array EXCEPT ![k] = array[n], ![n] = None]
  BY GetIdxIs DEF RemoveItem, TakeOut, IInv
<1> HIDE DEF k
<1>2. /\ n \in Nat /\ Used = 0..n /\ n \in 0..size - 1
      /\ array \in [0..size - 1 -> Items \union {None}]
  BY <1>1 DEF Slots, Used
<1>3. /\ Slots' /\ Used' = 0..n - 1
      /\ k \in Used' => array'[k] = array[n]
      /\ \A m \in Used' \ {k} : array'[m] = array[m]
  <2>1. ordered' \in BOOLEAN
    BY <1>1 DEF Slots
  <2>2. count - 2 = n - 1 /\ count - 1 = n
    BY <1>1 DEF Slots
  <2> HIDE DEF n
  <2> QED
    BY <1>1, <2>1, <2>2, TakeOutIs
<1>4. Cursor'
  BY <1>1, <1>2 DEF Cursor
<1>5. ASSUME ordered' PROVE Siblings'
  <2>1. \A m \in Used \ {0} : InOrder(m)
    BY <1>1, <1>5 DEF IInv, Siblings, Exempt
  <2>2. \A m \in Used : array[m] \in Nat
    BY <1>1, ItemsAreNumbers DEF Slots
  <2>3. \A m \in Used' \ {0} : /\ m \in Used \ {0} /\ m \in Nat \ {0} /\ m < n
                               /\ Parent(m) \in Used' /\ Parent(m) # m
    BY <1>2, <1>3, ParentBelow
  <2>4. ASSUME NEW m \in Used' \ {0}, Parent(m) = k PROVE array[n] <= array[m]
    <3>1. m \in {2 * k + 1, 2 * k + 2} /\ m < n /\ Fits(k)
      BY <1>1, <1>5, <2>3, <2>4, ParentBelow
    <3>2. ~Below(array[n], array[m])
      BY <3>1 DEF Fits
    <3> QED
      BY <3>2, <1>2, <2>2, <2>3, <2>4 DEF Below
  <2>5. ASSUME NEW m \in Used' \ {0}, m # k PROVE array'[Parent(m)] <= array'[m]
    <3>1. array'[m] = array[m]
      BY <1>3, <2>5
    <3>2. CASE Parent(m) = k
      BY <3>1, <3>2, <1>3, <2>3, <2>4, <2>5
    <3>3. CASE Parent(m) # k
      BY <3>1, <3>3, <1>3, <2>1, <2>3, <2>5 DEF InOrder
    <3> QED
      BY <3>2, <3>3
  <2>6. ASSUME k # 0, NEW m \in Used' \ {0}, Parent(m) = k PROVE array'[Parent(k)] <= array'[m]
    <3>1. k \in Used' \ {0} /\ m # k /\ m \in Used \ {0}
      BY <2>3, <2>6
    <3>2. Parent(k) \in Used' /\ Parent(k) # k /\ Parent(k) \in Used
      BY <3>1, <2>3, <1>2, <1>3
    <3>3. array'[Parent(k)] = array[Parent(k)] /\ array'[m] = array[m]
      BY <3>1, <3>2, <1>3, <2>6
    <3>4. array[Parent(k)] <= array[k] /\ array[k] <= array[m]
      BY <3>1, <2>1, <2>3, <2>6 DEF InOrder
    <3>5. array[Parent(k)] \in Nat /\ array[k] \in Nat /\ array[m] \in Nat
      BY <3>1, <3>2, <2>2, <2>3
    <3> QED
      BY <3>3, <3>4, <3>5
  <2> QED
    BY <1>1, <2>5, <2>6 DEF Siblings, Exempt, InOrder
<1> QED
  BY <1>3, <1>4, <1>5 DEF IInv

LEMMA RemoveLastInv == ASSUME NEW v \in Items, IInv, RemoveLast(v) PROVE IInv'
<1> DEFINE n == count - 1
<1>1. /\ Slots /\ pc' = "crashed" /\ idx' = n /\ count' = n /\ n \in Used
      /\ ordered' = FALSE
      /\ array' = [array EXCEPT ![n] = array[n], ![n] = None]
  BY GetIdxIs DEF RemoveLast, TakeOut, IInv
<1>2. Slots' /\ n \in Nat
  <2>1. n \in Nat /\ count - 1 = n
    BY <1>1 DEF Slots, Used
  <2> HIDE DEF n
  <2> QED
    BY <1>1, <2>1, TakeOutIs
<1> QED
  BY <1>1, <1>2 DEF IInv, Cursor

-----------------------------------------------------------------------------
LEMMA StepInv == IInv /\ [Next]_vars => IInv'
<1> SUFFICES ASSUME IInv, [Next]_vars PROVE IInv'
  OBVIOUS
<1>1. ASSUME NEW v \in Items, OfferX(v) PROVE IInv'
  <2>1. CASE Full
    BY <2>1, <1>1, QuietInv DEF OfferX
  <2>2. CASE ~Full
    <3>1. size \in Nat /\ count < size /\ array \in [0..size - 1 -> Items \union {None}]
      BY <2>2 DEF Full, IInv, Slots
    <3> QED
      BY <3>1, <2>2, <1>1, PlaceInv DEF OfferX
  <2> QED
    BY <2>1, <2>2
<1>2. ASSUME NEW v \in Items, OfferFails(v) \/ Contains(v) \/ RemoveMissing(v) PROVE IInv'
  BY <1>2, QuietInv DEF OfferFails, Contains, RemoveMissing
<1>3. ASSUME PollEmpty \/ Peek PROVE IInv'
  BY <1>3, QuietInv DEF PollEmpty, Peek
<1>4. ASSUME UNCHANGED vars PROVE IInv'
  BY <1>4 DEF vars, size, IInv, Slots, Cursor, Siblings, Exempt, InOrder, Used
<1> QED
  BY <1>1, <1>2, <1>3, <1>4, OfferInv, RemoveInv, PollInv, ClearInv, PushUpInv, PushUpDoneInv,
     RemoveLastInv, PushDownInv, PushDownDoneInv DEF Next, Sifting

LEMMA HeapInvariant == Spec => []IInv
  BY InitInv, StepInv, PTL DEF Spec

(* Whatever calls made the heap, as long as no remove left an item above   *)
(* greater ones: no parent is below its child between calls, and during a  *)
(* call only the sifted item is out of place; the slots in use always hold *)
(* items.                                                                  *)
THEOREM AlwaysOrdered == Spec => []HeapOrder
<1>1. IInv => HeapOrder
  <2> SUFFICES ASSUME IInv PROVE HeapOrder
    OBVIOUS
  <2>1. TypeOK
    BY DEF IInv, Slots, Cursor, TypeOK
  <2>2. ASSUME ordered, NEW k \in Used \ {0}, ~Exempt(k) PROVE ~Below(array[Parent(k)], array[k])
    <3>1. InOrder(k) /\ k \in Nat \ {0}
      BY <2>2 DEF IInv, Siblings, Slots, Used
    <3>2. Parent(k) \in Used
      BY <3>1, <2>2, ParentBelow DEF Used, IInv, Slots
    <3>3. array[k] \in Nat /\ array[Parent(k)] \in Nat
      BY <3>2, <2>2, ItemsAreNumbers DEF IInv, Slots
    <3> QED
      BY <3>1, <3>3 DEF InOrder, Below
  <2> QED
    BY <2>1, <2>2 DEF HeapOrder, Exempt
<1> QED
  BY <1>1, HeapInvariant, PTL

-----------------------------------------------------------------------------
(* The refinement of PriorityBag.                                          *)

Bag == [v \in Items |-> Held(v)]

(* The first n slots of array a that hold v.                               *)
Slot(a, n, v) == {k \in 0..n - 1 : a[k] = v}

LEMMA SlotFinite ==
  ASSUME NEW n \in Nat, NEW a, NEW v
  PROVE  /\ IsFiniteSet(Slot(a, n, v)) /\ Cardinality(Slot(a, n, v)) \in Nat
         /\ Cardinality(Slot(a, n, v)) > 0 <=> Slot(a, n, v) # {}
<1>1. IsFiniteSet(0..n - 1) /\ Slot(a, n, v) \in SUBSET (0..n - 1)
  BY FS_Interval DEF Slot
<1>2. IsFiniteSet(Slot(a, n, v))
  BY <1>1, FS_Subset
<1> QED
  BY <1>2, FS_CardinalityType, FS_EmptySet

(* Exchanging two slots leaves every item as often as it was.              *)
LEMMA SwapCount ==
  ASSUME NEW n \in Nat, NEW a, NEW b, NEW j \in 0..n - 1, NEW k \in 0..n - 1, NEW v,
         b[j] = a[k], b[k] = a[j], \A m \in (0..n - 1) \ {j, k} : b[m] = a[m]
  PROVE  Cardinality(Slot(b, n, v)) = Cardinality(Slot(a, n, v))
<1> DEFINE other(m) == IF m = j THEN k ELSE IF m = k THEN j ELSE m
           f == [m \in Slot(a, n, v) |-> other(m)]
<1>1. \A m \in 0..n - 1 : other(m) \in 0..n - 1 /\ other(other(m)) = m /\ b[other(m)] = a[m]
  OBVIOUS
<1>2. \A m \in 0..n - 1 : a[other(m)] = b[m]
  OBVIOUS
<1> HIDE DEF other
<1>3. f \in [Slot(a, n, v) -> Slot(b, n, v)]
  BY <1>1 DEF Slot
<1>4. \A x, y \in Slot(a, n, v) : f[x] = f[y] => x = y
  <2>1. \A x, y \in Slot(a, n, v) : other(x) = other(y) => x = y
    BY <1>1 DEF Slot
  <2> QED
    BY <2>1
<1>5. \A y \in Slot(b, n, v) : \E x \in Slot(a, n, v) : f[x] = y
  <2> SUFFICES ASSUME NEW y \in Slot(b, n, v) PROVE other(y) \in Slot(a, n, v) /\ f[other(y)] = y
    OBVIOUS
  <2>1. other(y) \in Slot(a, n, v)
    BY <1>1, <1>2 DEF Slot
  <2> QED
    BY <2>1, <1>1 DEF Slot
<1>6. ExistsBijection(Slot(a, n, v), Slot(b, n, v))
  <2> HIDE DEF f
  <2> QED
    BY <1>3, <1>4, <1>5 DEF ExistsBijection, Bijection, Injection, Surjection, IsInjective
<1> QED
  BY <1>6, SlotFinite, FS_Bijection

(* The last of n + 1 slots counts for the item in it.                      *)
LEMMA LastCounts ==
  ASSUME NEW n \in Nat, NEW a, NEW v
  PROVE  Cardinality(Slot(a, n + 1, v)) =
           IF a[n] = v THEN Cardinality(Slot(a, n, v)) + 1 ELSE Cardinality(Slot(a, n, v))
<1>1. IsFiniteSet(Slot(a, n, v)) /\ n \notin Slot(a, n, v)
  <2>1. n \notin Slot(a, n, v)
    BY DEF Slot
  <2> QED
    BY <2>1, SlotFinite
<1>2. CASE a[n] = v
  <2>1. Slot(a, n + 1, v) = Slot(a, n, v) \cup {n}
    BY <1>2 DEF Slot
  <2> QED
    BY <1>1, <1>2, <2>1, FS_AddElement
<1>3. CASE a[n] # v
  <2>1. Slot(a, n + 1, v) = Slot(a, n, v)
    BY <1>3 DEF Slot
  <2> QED
    BY <1>3, <2>1
<1> QED
  BY <1>2, <1>3

LEMMA SameSlots ==
  ASSUME NEW n \in Nat, NEW a, NEW b, NEW v, \A m \in 0..n - 1 : b[m] = a[m]
  PROVE  Slot(b, n, v) = Slot(a, n, v)
  BY DEF Slot

LEMMA BagIs == /\ Bag = [v \in Items |-> Cardinality(Slot(array, count, v))]
               /\ Bag' = [v \in Items |-> Cardinality(Slot(array', count', v))]
  BY DEF Bag, Held, At, Slot

LEMMA BagCounts ==
  ASSUME Slots
  PROVE  \A v \in Items : Bag[v] \in Nat /\ (Bag[v] > 0 <=> \E k \in Used : array[k] = v)
<1>1. count \in Nat
  BY DEF Slots
<1>2. ASSUME NEW v \in Items PROVE Slot(array, count, v) # {} <=> \E k \in Used : array[k] = v
  BY DEF Slot, Used
<1>3. ASSUME NEW v \in Items PROVE Bag[v] \in Nat /\ (Bag[v] > 0 <=> Slot(array, count, v) # {})
  BY <1>1, BagIs, SlotFinite
<1> QED
  BY <1>2, <1>3

LEMMA InBag == ASSUME Slots PROVE Abstract!In = {v \in Items : \E k \in Used : array[k] = v}
<1>1. \A v \in Items : Bag[v] > 0 <=> \E k \in Used : array[k] = v
  BY BagCounts
<1> QED
  BY <1>1 DEF Abstract!In, Bag

-----------------------------------------------------------------------------
LEMMA PlaceAdds ==
  ASSUME Slots, NEW v \in Items, NEW a, NEW n \in Nat, count < n,
         a \in [0..n - 1 -> Items \union {None}], \A k \in Used : a[k] = array[k], Place(a, v)
  PROVE  Bag' = [Bag EXCEPT ![v] = @ + 1]
<1>1. count \in Nat /\ count' = count + 1 /\ array'[count] = v
      /\ \A m \in 0..count - 1 : array'[m] = array[m]
  BY DEF Slots, Place, Used
<1>2. ASSUME NEW w \in Items
      PROVE  Cardinality(Slot(array', count', w)) =
        IF w = v THEN Cardinality(Slot(array, count, w)) + 1 ELSE Cardinality(Slot(array, count, w))
  <2>1. Slot(array', count, w) = Slot(array, count, w)
    BY <1>1, SameSlots
  <2>2. Cardinality(Slot(array', count + 1, w)) =
          IF array'[count] = w THEN Cardinality(Slot(array', count, w)) + 1
                               ELSE Cardinality(Slot(array', count, w))
    <3>1. count \in Nat
      BY <1>1
    <3> QED
      BY <3>1, LastCounts
  <2> QED
    BY <1>1, <2>1, <2>2
<1> QED
  BY <1>2, BagIs

LEMMA SwapKeeps ==
  ASSUME Slots, NEW j \in Used, NEW k \in Used, j # k, array' = Swapped(j, k), UNCHANGED count
  PROVE  Bag' = Bag
<1>1. /\ count \in Nat /\ j \in 0..count - 1 /\ k \in 0..count - 1
      /\ 0..count - 1 \subseteq 0..size - 1 /\ array \in [0..size - 1 -> Items \union {None}]
  BY DEF Slots, Used
<1>2. /\ array'[j] = array[k] /\ array'[k] = array[j]
      /\ \A m \in (0..count - 1) \ {j, k} : array'[m] = array[m]
  BY <1>1 DEF Swapped
<1>3. ASSUME NEW v PROVE Cardinality(Slot(array', count, v)) = Cardinality(Slot(array, count, v))
  <2> DEFINE a == array
             b == array'
             n == count
  <2>1. n \in Nat /\ j \in 0..n - 1 /\ k \in 0..n - 1
    BY <1>1
  <2>2. b[j] = a[k] /\ b[k] = a[j] /\ \A m \in (0..n - 1) \ {j, k} : b[m] = a[m]
    BY <1>2
  <2> HIDE DEF a, b, n
  <2>3. Cardinality(Slot(b, n, v)) = Cardinality(Slot(a, n, v))
    BY <2>1, <2>2, SwapCount
  <2> QED
    BY <2>3 DEF a, b, n
<1> QED
  BY <1>3, BagIs

(* Taking slot k out is exchanging it with the last one and forgetting it. *)
LEMMA TakeOutTakes ==
  ASSUME Slots, NEW k \in Used, count' = count - 1,
         k \in 0..count - 2 => array'[k] = array[count - 1],
         \A m \in (0..count - 2) \ {k} : array'[m] = array[m]
  PROVE  Bag' = [Bag EXCEPT ![array[k]] = @ - 1]
<1>1. count \in Nat \ {0} /\ count - 1 \in Nat /\ k \in 0..count - 1 /\ array[k] \in Items
      /\ (count - 1) + 1 = count
  BY DEF Slots, Used
<1> DEFINE n == count - 1
           b == [m \in 0..count - 1 |->
                   IF m = k THEN array[n] ELSE IF m = n THEN array[k] ELSE array[m]]
<1>2. /\ b[k] = array[n] /\ b[n] = array[k] /\ \A m \in (0..count - 1) \ {k, n} : b[m] = array[m]
  BY <1>1
<1>3. \A m \in 0..n - 1 : array'[m] = b[m]
  BY <1>1
<1> HIDE DEF b
<1>4. \A v \in Items : Cardinality(Slot(b, count, v)) = Cardinality(Slot(array, count, v))
  <2>1. n \in 0..count - 1
    BY <1>1
  <2> QED
    BY <1>1, <1>2, <2>1, SwapCount
<1>5. n \in Nat /\ n + 1 = count /\ count' = n
  BY <1>1
<1> HIDE DEF n
<1>6. \A v \in Items : Cardinality(Slot(b, count, v)) =
        IF array[k] = v THEN Cardinality(Slot(array', n, v)) + 1
                        ELSE Cardinality(Slot(array', n, v))
  BY <1>2, <1>3, <1>5, LastCounts, SameSlots
<1>7. \A v \in Items : Cardinality(Slot(array', count', v)) =
        IF v = array[k] THEN Cardinality(Slot(array, count, v)) - 1
                        ELSE Cardinality(Slot(array, count, v))
  BY <1>4, <1>5, <1>6, SlotFinite
<1> QED
  BY <1>7, BagIs

LEMMA SameBag == ASSUME UNCHANGED <<array, count>> PROVE Bag' = Bag
  BY DEF Bag, Held, At

-----------------------------------------------------------------------------
(* The root is the best item: were there a better one, the first slot with *)
(* one would be below its parent.                                          *)
LEMMA RootIsBest ==
  ASSUME IInv, pc = "ready", ordered, count > 0
  PROVE  \A k \in Used : array[0] <= array[k]
<1>1. count \in Nat /\ Used = 0..count - 1 /\ 0 \in Used /\ Used \in SUBSET Nat
  BY DEF IInv, Slots, Used
<1>2. \A k \in Used : array[k] \in Nat
  BY ItemsAreNumbers DEF IInv, Slots
<1> DEFINE Better == {k \in Used : array[k] < array[0]}
<1> SUFFICES ASSUME Better # {} PROVE FALSE
  BY <1>1, <1>2
<1>3. PICK k \in Better : \A m \in Better : k <= m
  <2>1. Better \in SUBSET Nat
    BY <1>1
  <2> HIDE DEF Better
  <2> QED
    BY <2>1, Least
<1>4. k \in Used \ {0} /\ array[k] < array[0] /\ k \in Nat \ {0}
  BY <1>1, <1>2, <1>3
<1>5. Parent(k) \in Used /\ Parent(k) < k
  BY <1>1, <1>4, ParentBelow
<1>6. array[Parent(k)] <= array[k]
  BY <1>4 DEF IInv, Siblings, Exempt, InOrder
<1>7. Parent(k) \in Better
  BY <1>1, <1>2, <1>4, <1>5, <1>6
<1> QED
  BY <1>1, <1>3, <1>4, <1>5, <1>7

LEMMA RootIsFront ==
  ASSUME IInv, pc = "ready", ordered
  PROVE  /\ count = 0 => Abstract!In = {} /\ Abstract!Front = None
         /\ count > 0 => Abstract!In # {} /\ Abstract!Front = array[0]
<1>1. count \in Nat /\ Used = 0..count - 1 /\ Slots
  BY DEF IInv, Slots, Used
<1>2. Abstract!In = {v \in Items : \E k \in Used : array[k] = v}
  BY <1>1, InBag
<1>3. CASE count = 0
  <2>1. Abstract!In = {}
    BY <1>1, <1>2, <1>3
  <2> QED
    BY <2>1, <1>3 DEF Abstract!Front
<1>4. CASE count > 0
  <2>1. 0 \in Used /\ array[0] \in Abstract!In
    BY <1>1, <1>2, <1>4 DEF Slots
  <2>2. \A w \in Abstract!In : array[0] <= w /\ w \in Nat
    BY <1>2, <1>4, RootIsBest, ItemsAreNumbers
  <2>3. \A w \in Abstract!In : (\A u \in Abstract!In : w <= u) => w = array[0]
    BY <2>1, <2>2
  <2>4. Smallest(Abstract!In) = array[0]
    BY <2>1, <2>2, <2>3 DEF Smallest
  <2> QED
    BY <1>4, <2>1, <2>4 DEF Abstract!Front
<1> QED
  BY <1>1, <1>3, <1>4

-----------------------------------------------------------------------------
LEMMA SiftingHidden ==
  ASSUME IInv, Sifting
  PROVE  Bag' = Bag /\ UNCHANGED last /\ pc \in {"up", "down"}
<1>1. Slots /\ Cursor /\ count \in Nat /\ Used = 0..count - 1
  BY DEF IInv, Slots, Used
<1>2. UNCHANGED last /\ pc \in {"up", "down"}
  BY DEF Sifting, PushUp, PushUpDone, PushDown, PushDownDone
<1>3. Bag' = Bag
  <2>1. CASE PushUp
    <3>1. idx \in Used /\ idx \in Nat \ {0}
      BY <1>1, <2>1 DEF PushUp, Cursor
    <3>2. Parent(idx) \in Used /\ Parent(idx) # idx
      BY <1>1, <3>1, ParentBelow
    <3> QED
      BY <1>1, <2>1, <3>1, <3>2, SwapKeeps DEF PushUp
  <2>2. CASE PushDown
    <3>1. idx \in Used /\ 2 * idx + 1 < count
      BY <1>1, <2>2 DEF PushDown, Cursor, Sinks
    <3>2. Child(idx) \in Used /\ idx # Child(idx)
      BY <1>1, <3>1, ChildIs
    <3> QED
      BY <1>1, <2>2, <3>1, <3>2, SwapKeeps DEF PushDown
  <2>3. CASE PushUpDone \/ PushDownDone
    BY <2>3, SameBag DEF PushUpDone, PushDownDone
  <2> QED
    BY <2>1, <2>2, <2>3 DEF Sifting
<1> QED
  BY <1>2, <1>3

(* What an offer does to the bag: the item is added, or the call answers   *)
(* -1 and nothing is.                                                      *)
LEMMA OfferEffect ==
  ASSUME IInv, NEW v \in Items, Offer(v) \/ OfferX(v) \/ OfferFails(v)
  PROVE  \E op \in {"offer", "offerx"} :
           \/ Bag' = [Bag EXCEPT ![v] = @ + 1] /\ last' = Answer(op, v, 0)
           \/ Bag' = Bag /\ last' = Answer(op, v, -1)
<1>1. /\ size \in Nat \ {0} /\ count \in 0..size /\ Slots
      /\ array \in [0..size - 1 -> Items \union {None}]
  BY DEF IInv, Slots
<1>2. CASE Full /\ Offer(v)
  <2> DEFINE a == [k \in 0..2 * size - 1 |-> IF k < size THEN array[k] ELSE None]
  <2>1. a \in [0..2 * size - 1 -> Items \union {None}] /\ \A k \in Used : a[k] = array[k]
    BY <1>1 DEF Used
  <2>2. Place(a, v) /\ last' = Answer("offer", v, 0)
    BY <1>2 DEF Offer
  <2> HIDE DEF a
  <2>3. 2 * size \in Nat /\ count < 2 * size
    BY <1>1
  <2>4. Bag' = [Bag EXCEPT ![v] = @ + 1]
    BY <1>1, <2>1, <2>2, <2>3, PlaceAdds
  <2> QED
    BY <2>2, <2>4
<1>3. CASE ~Full /\ (Offer(v) \/ OfferX(v))
  <2>1. count < size
    BY <1>1, <1>3 DEF Full
  <2>2. Place(array, v) /\ \E op \in {"offer", "offerx"} : last' = Answer(op, v, 0)
    BY <1>3 DEF Offer, OfferX
  <2>3. Bag' = [Bag EXCEPT ![v] = @ + 1]
    BY <1>1, <2>1, <2>2, PlaceAdds
  <2> QED
    BY <2>2, <2>3
<1>4. CASE OfferFails(v) \/ (Full /\ OfferX(v))
  <2>1. UNCHANGED <<array, count>> /\ \E op \in {"offer", "offerx"} : last' = Answer(op, v, -1)
    BY <1>4 DEF OfferFails, OfferX
  <2> QED
    BY <2>1, SameBag
<1> QED
  BY <1>2, <1>3, <1>4

LEMMA PollEffect ==
  ASSUME IInv, Poll
  PROVE  /\ Bag' = [Bag EXCEPT ![array[0]] = @ - 1] /\ last' = Answer("poll", None, array[0])
         /\ array[0] \in Items /\ count > 0
<1>1. Slots /\ count \in Nat /\ count > 0
  BY DEF IInv, Slots, Poll
<1>2. /\ 0 \in Used /\ 0..count - 1 \subseteq 0..size - 1
      /\ array \in [0..size - 1 -> Items \union {None}] /\ array[0] \in Items
  BY <1>1 DEF Used, Slots
<1>3. /\ count' = count - 1
      /\ 0 \in 0..count - 2 => array'[0] = array[count - 1]
      /\ \A m \in (0..count - 2) \ {0} : array'[m] = array[m]
  BY <1>1, <1>2 DEF Poll, SinkFrom
<1>4. Bag' = [Bag EXCEPT ![array[0]] = @ - 1]
  BY <1>1, <1>2, <1>3, TakeOutTakes
<1> QED
  BY <1>1, <1>2, <1>4 DEF Poll

LEMMA RemoveEffect ==
  ASSUME IInv, NEW v \in Items, RemoveItem(v)
  PROVE  Bag' = [Bag EXCEPT ![v] = @ - 1] /\ last' = Answer("remove", v, v)
<1> DEFINE k == GetIdx(v)
<1>1. /\ Slots /\ k \in Used /\ array[k] = v /\ count' = count - 1
      /\ array' = [array EXCEPT ![k] = array[count - 1], ![count - 1] = None]
  BY GetIdxIs DEF RemoveItem, TakeOut, IInv
<1> HIDE DEF k
<1>2. /\ count \in Nat \ {0} /\ Used = 0..count - 1 /\ 0..count - 1 \subseteq 0..size - 1
      /\ array \in [0..size - 1 -> Items \union {None}]
  BY <1>1 DEF Slots, Used
<1>3. /\ k \in 0..count - 2 => array'[k] = array[count - 1]
      /\ \A m \in (0..count - 2) \ {k} : array'[m] = array[m]
  BY <1>1, <1>2
<1>4. Bag' = [Bag EXCEPT ![v] = @ - 1]
  BY <1>1, <1>3, TakeOutTakes
<1> QED
  BY <1>4 DEF RemoveItem

LEMMA ClearEffect == Clear => Bag' = [v \in Items |-> 0]
<1> SUFFICES ASSUME Clear PROVE Bag' = [v \in Items |-> 0]
  OBVIOUS
<1>1. count' = 0 /\ \A v : Slot(array', 0, v) = {}
  BY DEF Clear, Slot
<1> QED
  BY <1>1, BagIs, FS_EmptySet

LEMMA HoldsIs == ASSUME IInv, NEW v \in Items PROVE v \in Abstract!In <=> At(v) # {}
<1>1. v \in Abstract!In <=> \E k \in Used : array[k] = v
  BY InBag DEF IInv
<1> QED
  BY <1>1 DEF At, Used

LEMMA StepRefines == IInv /\ [Next]_vars => [ordered' => Abstract!Next]_(Abstract!vars)
<1> SUFFICES ASSUME IInv, [Next]_vars, ordered'
             PROVE  Abstract!Next \/ UNCHANGED Abstract!vars
  OBVIOUS
<1>1. CASE UNCHANGED vars
  BY <1>1, SameBag DEF vars, Abstract!vars, Bag
<1>2. CASE Sifting
  BY <1>2, SiftingHidden DEF Abstract!vars, Bag
<1>3. ASSUME NEW v \in Items, Offer(v) \/ OfferX(v) \/ OfferFails(v) PROVE Abstract!Next
  <2>1. \E op \in {"offer", "offerx"} : Abstract!Offer(op, v) \/ Abstract!OfferRefused(op, v)
    BY <1>3, OfferEffect
    DEF Abstract!Offer, Abstract!OfferRefused, Abstract!Answer, Answer, Bag
  <2> QED
    BY <2>1 DEF Abstract!Next
<1>4. ASSUME NEW v \in Items, Contains(v) PROVE Abstract!Next
  <2>1. Bag' = Bag
    BY <1>4, SameBag DEF Contains
  <2>2. Abstract!Contains(v)
    BY <1>4, <2>1, HoldsIs DEF Contains, Abstract!Contains, Abstract!Answer, Answer, Bag
  <2> QED
    BY <2>2 DEF Abstract!Next
<1>5. ASSUME NEW v \in Items, RemoveMissing(v) \/ RemoveItem(v) PROVE Abstract!Next
  <2>1. CASE RemoveMissing(v)
    <3>1. Bag' = Bag /\ v \notin Abstract!In
      BY <2>1, SameBag, HoldsIs DEF RemoveMissing
    <3>2. Abstract!Remove(v)
      BY <2>1, <3>1 DEF RemoveMissing, Abstract!Remove, Abstract!Answer, Answer, Bag
    <3> QED
      BY <3>2 DEF Abstract!Next
  <2>2. CASE RemoveItem(v)
    <3>1. v \in Abstract!In
      BY <2>2, HoldsIs DEF RemoveItem
    <3>2. Abstract!Remove(v)
      BY <2>2, <3>1, RemoveEffect DEF Abstract!Remove, Abstract!Answer, Answer, Bag
    <3> QED
      BY <3>2 DEF Abstract!Next
  <2> QED
    BY <1>5, <2>1, <2>2
<1>6. ASSUME NEW v \in Items, RemoveLast(v) PROVE FALSE
  BY <1>6 DEF RemoveLast
<1>7. CASE Poll
  <2>1. pc = "ready" /\ ordered
    BY <1>7 DEF Poll
  <2>2. Abstract!In # {} /\ Abstract!Front = array[0]
    BY <2>1, <1>7, RootIsFront, PollEffect
  <2>3. Abstract!Poll
    BY <1>7, <2>2, PollEffect DEF Abstract!Poll, Abstract!Answer, Answer, Bag
  <2> QED
    BY <2>3 DEF Abstract!Next
<1>8. CASE PollEmpty
  <2>1. pc = "ready" /\ ordered /\ count = 0 /\ Bag' = Bag
    BY <1>8, SameBag DEF PollEmpty
  <2>2. Abstract!Poll
    BY <1>8, <2>1, RootIsFront DEF PollEmpty, Abstract!Poll, Abstract!Answer, Answer, Bag
  <2> QED
    BY <2>2 DEF Abstract!Next
<1>9. CASE Peek
  <2>1. pc = "ready" /\ ordered /\ count \in Nat /\ Bag' = Bag
    BY <1>9, SameBag DEF Peek, IInv, Slots
  <2>2. (IF count = 0 THEN None ELSE array[0]) = Abstract!Front
    BY <2>1, RootIsFront
  <2>3. Abstract!Peek
    BY <1>9, <2>1, <2>2 DEF Peek, Abstract!Peek, Abstract!Answer, Answer, Bag
  <2> QED
    BY <2>3 DEF Abstract!Next
<1>10. CASE Clear
  <2>1. Abstract!Clear
    BY <1>10, ClearEffect DEF Clear, Abstract!Clear, Abstract!Empty, Abstract!Answer, Answer, Bag
  <2> QED
    BY <2>1 DEF Abstract!Next
<1> QED
  BY <1>1, <1>2, <1>3, <1>4, <1>5, <1>6, <1>7, <1>8, <1>9, <1>10 DEF Next

(* heap.c is a priority bag as long as no remove left an item above greater*)
(* ones: heap_poll and heap_peek give the best item, heap_remove_item the  *)
(* one asked for, and offers, growth and sifting lose and make none.       *)
THEOREM HeapImplementsBag == Spec => BagWhileOrdered
<1>1. Init => Abstract!Init
  <2> SUFFICES ASSUME Init PROVE Abstract!Init
    OBVIOUS
  <2>1. \A v : At(v) = {}
    BY DEF Init, At
  <2>2. [v \in Items |-> Held(v)] = [v \in Items |-> 0]
    BY <2>1, FS_EmptySet DEF Held
  <2> QED
    BY <2>2 DEF Init, Answer, Abstract!Init, Abstract!Empty, Abstract!Answer
<1>2. IInv /\ [Next]_vars => [ordered' => Abstract!Next]_(Abstract!vars)
  BY StepRefines
<1> QED
  BY <1>1, <1>2, HeapInvariant, PTL DEF Spec, BagWhileOrdered

-----------------------------------------------------------------------------
Kept(v) ==
  \/ pc' = "crashed"
  \/ Held(v)' = IF pc # "ready" THEN Held(v)
                ELSE IF last'.op = "clear" THEN 0 ELSE Held(v) + Offered(v) - Taken(v)

LEMMA HeldIs == ASSUME NEW v \in Items PROVE Bag[v] = Held(v) /\ Bag'[v] = Held(v)'
  BY DEF Bag

LEMMA HeldIsNumber == ASSUME IInv, NEW v \in Items PROVE Held(v) \in Nat
  BY BagCounts, HeldIs DEF IInv

(* A call that touches no item and neither adds nor takes one.             *)
LEMMA QuietKeeps ==
  ASSUME IInv, NEW v \in Items, UNCHANGED <<array, count>>, pc = "ready",
         NEW op \in {"offer", "offerx", "contains", "remove", "poll", "peek"}, NEW w, NEW r,
         last' = Answer(op, w, r),
         op \in {"offer", "offerx"} => r = -1, op \in {"remove", "poll"} => r = None
  PROVE  Kept(v)
<1>1. Held(v)' = Held(v) /\ Held(v) \in Nat
  BY SameBag, HeldIs, HeldIsNumber
<1>2. Offered(v) = 0 /\ Taken(v) = 0 /\ last'.op # "clear"
  BY NoneAssumption DEF Offered, Taken, Answer
<1> QED
  BY <1>1, <1>2 DEF Kept

LEMMA OfferKeeps ==
  ASSUME IInv, NEW v \in Items, NEW w \in Items, Offer(w) \/ OfferX(w) \/ OfferFails(w)
  PROVE  Kept(v)
<1>1. pc = "ready" /\ Held(v) \in Nat
  BY HeldIsNumber DEF Offer, OfferX, OfferFails
<1>2. PICK op \in {"offer", "offerx"} :
        \/ Bag' = [Bag EXCEPT ![w] = @ + 1] /\ last' = Answer(op, w, 0)
        \/ Bag' = Bag /\ last' = Answer(op, w, -1)
  BY OfferEffect
<1>3. CASE Bag' = [Bag EXCEPT ![w] = @ + 1] /\ last' = Answer(op, w, 0)
  <2>1. Held(v)' = IF v = w THEN Held(v) + 1 ELSE Held(v)
    BY <1>3, HeldIs DEF Bag
  <2>2. Offered(v) = (IF v = w THEN 1 ELSE 0) /\ Taken(v) = 0 /\ last'.op # "clear"
    BY <1>3 DEF Offered, Taken, Answer
  <2> QED
    BY <1>1, <2>1, <2>2 DEF Kept
<1>4. CASE Bag' = Bag /\ last' = Answer(op, w, -1)
  <2>1. Held(v)' = Held(v)
    BY <1>4, HeldIs
  <2>2. Offered(v) = 0 /\ Taken(v) = 0 /\ last'.op # "clear"
    BY <1>4 DEF Offered, Taken, Answer
  <2> QED
    BY <1>1, <2>1, <2>2 DEF Kept
<1> QED
  BY <1>2, <1>3, <1>4

LEMMA TakeKeeps ==
  ASSUME IInv, NEW v \in Items, NEW w \in Items, pc = "ready",
         Bag' = [Bag EXCEPT ![w] = @ - 1],
         NEW op \in {"poll", "remove"}, NEW u, last' = Answer(op, u, w)
  PROVE  Kept(v)
<1>1. Held(v)' = IF v = w THEN Held(v) - 1 ELSE Held(v)
  BY HeldIs DEF Bag
<1>2. Offered(v) = 0 /\ Taken(v) = (IF v = w THEN 1 ELSE 0) /\ last'.op # "clear"
  BY DEF Offered, Taken, Answer
<1> QED
  BY <1>1, <1>2, HeldIsNumber DEF Kept

LEMMA StepKeeps == ASSUME IInv, [Next]_vars, NEW v \in Items PROVE Kept(v) \/ UNCHANGED vars
<1>1. CASE Sifting
  BY <1>1, SiftingHidden, HeldIs DEF Kept
<1>2. ASSUME NEW w \in Items, Offer(w) \/ OfferX(w) \/ OfferFails(w) PROVE Kept(v)
  BY <1>2, OfferKeeps
<1>3. ASSUME NEW w \in Items, Contains(w) PROVE Kept(v)
  BY <1>3, QuietKeeps DEF Contains
<1>4. ASSUME NEW w \in Items, RemoveMissing(w) PROVE Kept(v)
  BY <1>4, QuietKeeps DEF RemoveMissing
<1>5. ASSUME NEW w \in Items, RemoveItem(w) PROVE Kept(v)
  <2>1. pc = "ready"
    BY <1>5 DEF RemoveItem
  <2> QED
    BY <1>5, <2>1, RemoveEffect, TakeKeeps
<1>6. ASSUME NEW w \in Items, RemoveLast(w) PROVE Kept(v)
  BY <1>6 DEF RemoveLast, Kept
<1>7. CASE Poll
  <2>1. pc = "ready"
    BY <1>7 DEF Poll
  <2> QED
    BY <1>7, <2>1, PollEffect, TakeKeeps
<1>8. CASE PollEmpty
  BY <1>8, QuietKeeps DEF PollEmpty
<1>9. CASE Peek
  BY <1>9, QuietKeeps DEF Peek
<1>10. CASE Clear
  <2>1. Held(v)' = 0 /\ last'.op = "clear" /\ pc = "ready"
    BY <1>10, ClearEffect, HeldIs DEF Clear, Answer
  <2> QED
    BY <2>1 DEF Kept
<1> QED
  BY <1>1, <1>2, <1>3, <1>4, <1>5, <1>6, <1>7, <1>8, <1>9, <1>10 DEF Next

(* Even when a remove left the heap out of order, no call that returns     *)
(* loses an item or makes one, and sifting only moves them.                *)
THEOREM HeapKeepsItems == Spec => ItemsKept
<1>1. IInv /\ [Next]_vars => [\A v \in Items : Kept(v)]_vars
  BY StepKeeps
<1> QED
  BY <1>1, HeapInvariant, PTL DEF Spec, ItemsKept, Kept
=============================================================================
