------------------------------- MODULE BuildAux -------------------------------
(***************************************************************************)
(* hs_build_aux_t: the two range arrays and the heap that builds share.    *)
(* The user makes them for rule sets of some size, builds, makes them anew *)
(* for another size, and frees them; any of the allocations may fail, and  *)
(* the user may answer a failed hs_build_aux_reinit by trying again or by  *)
(* hs_build_aux_free, the only call that gives the heap back.              *)
(*                                                                         *)
(* A freed address may be handed out again, to the rest of the program too.*)
(* That a heap may fail to grow during a build is GenSegs's subject.       *)
(***************************************************************************)
EXTENDS Integers

CONSTANTS Sizes,            \* sizes given to init and reinit, and of rule sets
          DEFAULT_CAPACITY, \* of a new heap
          MayFail,          \* which allocations may: "output", "sort", "heap",
                            \* and "again", that of ranges_output in a reinit
          Addresses, Null,
          Free, Other       \* contents of addresses: free, or someone else's

ASSUME AuxSizesAssumption == Sizes \subseteq Nat \ {0} /\ DEFAULT_CAPACITY \in Nat \ {0}
ASSUME AuxNamesAssumption == Null \notin Addresses /\ Free \notin Nat /\ Other \notin Nat

VARIABLES mem,             \* what each address holds: Free, Other or a capacity
          ranges_output, ranges_sort, heap, \* the fields of the hs_build_aux_t
          told,            \* the size of the last successful init or reinit
          state            \* "raw", "ready", "failed" (a reinit), or "fault"

fields == <<ranges_output, ranges_sort, heap>>
vars   == <<mem, fields, told, state>>

FreeAt(m) == {a \in Addresses : m[a] = Free}

Allocated(m, a, n) == [m EXCEPT ![a] = n]
Released(m, S)     == [a \in Addresses |-> IF a \in S THEN Free ELSE m[a]]

(* hs_free of p is defined for NULL and for a block of the caller's.       *)
Held(p)       == mem[p] \notin {Free, Other}
MayBeFreed(p) == p # Null => Held(p)

-----------------------------------------------------------------------------
(* Mutants (see PROJECT.json): slips the runs must notice.                 *)
InitUndoes_OutputOnly(o, s) == {o}
OutputSlots_One(size) == size

-----------------------------------------------------------------------------
Init == /\ mem = [a \in Addresses |-> Free]
        /\ ranges_output = Null /\ ranges_sort = Null /\ heap = Null
        /\ told = 0 /\ state = "raw"

OutputSlots(size) == size * 2

InitUndoes(o, s) == {o, s}

AuxInit(size) ==
  /\ state = "raw"
  /\ \E o, s, h \in FreeAt(mem) :
       /\ o # s /\ o # h /\ s # h
       /\ mem' = Allocated(Allocated(Allocated(mem, o, OutputSlots(size)), s, size),
                           h, DEFAULT_CAPACITY)
       /\ ranges_output' = o /\ ranges_sort' = s /\ heap' = h
  /\ told' = size /\ state' = "ready"

(* A failed init takes back what it got, and can be tried again.           *)
AuxInitNoOutput ==
  /\ state = "raw" /\ "output" \in MayFail
  /\ ranges_output' = Null
  /\ UNCHANGED <<mem, ranges_sort, heap, told, state>>

AuxInitNoSort ==
  /\ state = "raw" /\ "sort" \in MayFail
  /\ ranges_output' = Null /\ ranges_sort' = Null
  /\ UNCHANGED <<mem, heap, told, state>>

AuxInitNoHeap(size) ==
  /\ state = "raw" /\ "heap" \in MayFail
  /\ \E o, s \in FreeAt(mem) :
       /\ o # s
       /\ mem' = Released(Allocated(Allocated(mem, o, OutputSlots(size)), s, size),
                          InitUndoes(o, s))
  /\ ranges_output' = Null /\ ranges_sort' = Null /\ heap' = Null
  /\ UNCHANGED <<told, state>>

-----------------------------------------------------------------------------
AuxFree ==
  /\ state \in {"ready", "failed"}
  /\ IF \A p \in {ranges_output, ranges_sort, heap} : MayBeFreed(p)
       THEN mem' = Released(mem, {ranges_output, ranges_sort, heap}) /\ state' = "raw"
       ELSE state' = "fault" /\ UNCHANGED mem
  /\ ranges_output' = Null /\ ranges_sort' = Null /\ heap' = Null
  /\ UNCHANGED told

(* Both arrays are freed before the first is allocated again.              *)
ReinitFrees == {ranges_output, ranges_sort}

Reinit(size) ==
  LET m == Released(mem, ReinitFrees)
  IN  /\ \A p \in ReinitFrees : MayBeFreed(p)
      /\ \/ \E o, s \in FreeAt(m) :
              /\ o # s
              /\ mem' = Allocated(Allocated(m, o, OutputSlots(size)), s, size)
              /\ ranges_output' = o /\ ranges_sort' = s
              /\ told' = size /\ state' = "ready"
         \/ /\ "again" \in MayFail
            /\ mem' = m
            /\ ranges_output' = Null /\ state' = "failed"
            /\ UNCHANGED <<ranges_sort, told>>
         \/ /\ "sort" \in MayFail
            /\ mem' = m
            /\ ranges_output' = Null /\ ranges_sort' = Null /\ state' = "failed"
            /\ UNCHANGED told

AuxReinit(size) ==
  /\ state \in {"ready", "failed"}
  /\ UNCHANGED heap
  /\ \/ Reinit(size)
     \/ /\ \E p \in ReinitFrees : ~MayBeFreed(p)
        /\ state' = "fault"
        /\ UNCHANGED <<mem, ranges_output, ranges_sort, told>>

-----------------------------------------------------------------------------
(* hs_build_tree(tree, aux, ruleset): the sweep copies num ranges, puts up *)
(* to 2 * num - 1 segments out, and holds some number of highs at a time   *)
(* in the heap.                                                            *)
BuildFits(num) ==
  /\ Held(ranges_sort) /\ num <= mem[ranges_sort]
  /\ Held(ranges_output) /\ 2 * num - 1 <= mem[ranges_output]
  /\ Held(heap)

Build(num) ==
  /\ state = "ready" /\ num <= told
  /\ state' = IF BuildFits(num) THEN "ready" ELSE "fault"
  /\ UNCHANGED <<mem, fields, told>>

(* heap_offer(&aux->heap, ...): a full heap doubles, and may move.         *)
GrowHeap ==
  /\ state = "ready" /\ Held(heap) /\ mem[heap] < told
  /\ \E h \in FreeAt(mem) \union {heap} :
       /\ mem' = Allocated(Released(mem, {heap}), h, 2 * mem[heap])
       /\ heap' = h
  /\ UNCHANGED <<ranges_output, ranges_sort, told, state>>

(* The rest of the program takes and returns memory.                       *)
TakenElsewhere ==
  \E a \in Addresses :
    \/ mem[a] = Free  /\ mem' = Allocated(mem, a, Other) /\ UNCHANGED <<fields, told, state>>
    \/ mem[a] = Other /\ mem' = Released(mem, {a}) /\ UNCHANGED <<fields, told, state>>

Next ==
  \/ \E size \in Sizes : \/ AuxInit(size) \/ AuxInitNoHeap(size)
                         \/ AuxReinit(size) \/ Build(size)
  \/ AuxInitNoOutput \/ AuxInitNoSort \/ AuxFree \/ GrowHeap \/ TakenElsewhere

Spec == Init /\ [][Next]_vars

-----------------------------------------------------------------------------
TypeOK ==
  /\ mem \in [Addresses -> {Free, Other} \union Nat]
  /\ ranges_output \in Addresses \union {Null}
  /\ ranges_sort \in Addresses \union {Null}
  /\ heap \in Addresses \union {Null}
  /\ told \in Nat
  /\ state \in {"raw", "ready", "failed", "fault"}
  /\ state = "ready" => Null \notin {ranges_output, ranges_sort, heap}

(* No block is freed twice, no other's block is freed, and a build never   *)
(* leaves its arrays, through every mixture of failed and successful calls.*)
NoFault == state # "fault"

(* What is allocated is what the fields point at: nothing is left after a  *)
(* failed init or a free, and a reinit or a moved heap loses nothing.      *)
NothingLost ==
  state # "fault" =>
    {a \in Addresses : Held(a)} = {ranges_output, ranges_sort, heap} \ {Null}
=============================================================================
