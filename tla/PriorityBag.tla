----------------------------- MODULE PriorityBag ------------------------------
(***************************************************************************)
(* What a heap promises its user, whatever it is made of: a bag of items   *)
(* from which the best one is taken, or one that is asked for.  Heap (the  *)
(* array of heap.c) implements it while no remove left it out of order.    *)
(***************************************************************************)
EXTENDS Integers

CONSTANTS Items,       \* the items, numbers
          Best(_),     \* the best item of a set
          None         \* no item: the NULL of heap_poll and heap_peek

VARIABLES bag,         \* how often each item is in the bag
           last         \* [op, item, ret]: the last call and its answer

vars == <<bag, last>>

In == {v \in Items : bag[v] > 0}

Front == IF In = {} THEN None ELSE Best(In)

Answer(op, v, ret) == [op |-> op, item |-> v, ret |-> ret]

Empty == [v \in Items |-> 0]

Init == bag = Empty /\ last = Answer("new", None, 0)

Offer(op, v) == bag' = [bag EXCEPT ![v] = @ + 1] /\ last' = Answer(op, v, 0)

OfferRefused(op, v) == UNCHANGED bag /\ last' = Answer(op, v, -1)

Poll == /\ bag' = IF In = {} THEN bag ELSE [bag EXCEPT ![Front] = @ - 1]
        /\ last' = Answer("poll", None, Front)

Peek == UNCHANGED bag /\ last' = Answer("peek", None, Front)

Remove(v) ==
  IF v \in In
    THEN bag' = [bag EXCEPT ![v] = @ - 1] /\ last' = Answer("remove", v, v)
    ELSE UNCHANGED bag /\ last' = Answer("remove", v, None)

Clear == bag' = Empty /\ last' = Answer("clear", None, 0)

Contains(v) == UNCHANGED bag /\ last' = Answer("contains", v, IF v \in In THEN 1 ELSE 0)

Next == \/ \E v \in Items, op \in {"offer", "offerx"} : Offer(op, v) \/ OfferRefused(op, v)
        \/ \E v \in Items : Contains(v) \/ Remove(v)
        \/ Poll \/ Peek \/ Clear

Spec == Init /\ [][Next]_vars
=============================================================================
