---------------------------- MODULE BuildAuxProofs ----------------------------
(***************************************************************************)
(* Proofs about BuildAux for any sizes, any memory and any behaviour of    *)
(* the rest of the program.                                                *)
(***************************************************************************)
EXTENDS BuildAux, TLAPS

(* Each field that is not NULL has a block of its own, and the arrays have *)
(* the sizes the last successful call was told.                            *)
Owns ==
  /\ \A p \in {ranges_output, ranges_sort, heap} : p # Null => Held(p)
  /\ ranges_output # Null => ranges_output # ranges_sort /\ ranges_output # heap
  /\ ranges_sort # Null => ranges_sort # heap
  /\ state = "ready" => mem[ranges_sort] = told /\ mem[ranges_output] = 2 * told
  /\ state = "raw" => ranges_output = Null /\ ranges_sort = Null /\ heap = Null
  /\ state = "failed" => ranges_output = Null /\ ranges_sort = Null /\ heap # Null

IInv == TypeOK /\ NoFault /\ NothingLost /\ Owns

LEMMA InitIInv == Init => IInv
  BY AuxSizesAssumption, AuxNamesAssumption
     DEF Init, IInv, TypeOK, NoFault, NothingLost, Owns, Held

LEMMA InitKeeps ==
  ASSUME IInv, NEW size \in Sizes, AuxInit(size) \/ AuxInitNoHeap(size) PROVE IInv'
<1> USE AuxSizesAssumption, AuxNamesAssumption
        DEF IInv, TypeOK, NoFault, NothingLost, Owns, Held
<1>1. size \in Nat /\ 2 * size \in Nat /\ size * 2 = 2 * size
  OBVIOUS
<1>2. CASE AuxInit(size)
  <2>1. PICK o, s, h \in FreeAt(mem) :
          /\ o # s /\ o # h /\ s # h
          /\ mem' = Allocated(Allocated(Allocated(mem, o, OutputSlots(size)), s, size),
                              h, DEFAULT_CAPACITY)
          /\ ranges_output' = o /\ ranges_sort' = s /\ heap' = h
    BY <1>2 DEF AuxInit
  <2>2. /\ o \in Addresses /\ s \in Addresses /\ h \in Addresses
        /\ mem' = [a \in Addresses |-> IF a = h THEN DEFAULT_CAPACITY
                                       ELSE IF a = s THEN size
                                       ELSE IF a = o THEN 2 * size ELSE mem[a]]
    BY <2>1, <1>1 DEF FreeAt, Allocated, OutputSlots
  <2>3. told' = size /\ state' = "ready" /\ state = "raw"
    BY <1>2 DEF AuxInit
  <2>4. \A a \in Addresses : mem'[a] \in {Free, Other} \union Nat
    BY <2>2, <1>1
  <2>5. NothingLost'
    BY <2>1, <2>2, <2>3, <1>1
  <2> QED
    BY <1>1, <2>1, <2>2, <2>3, <2>4, <2>5
<1>3. CASE AuxInitNoHeap(size)
  <2>1. PICK o, s \in FreeAt(mem) :
          /\ o # s
          /\ mem' = Released(Allocated(Allocated(mem, o, OutputSlots(size)), s, size), {o, s})
    BY <1>3 DEF AuxInitNoHeap, InitUndoes
  <2>2. \A a \in Addresses : mem'[a] = mem[a]
    BY <2>1 DEF FreeAt, Released, Allocated
  <2>3. mem' = mem
    BY <2>1, <2>2 DEF Released
  <2> QED
    BY <1>3, <2>3 DEF AuxInitNoHeap
<1> QED
  BY <1>2, <1>3

LEMMA InitFailureKeeps == IInv /\ (AuxInitNoOutput \/ AuxInitNoSort) => IInv'
  BY AuxNamesAssumption
     DEF IInv, TypeOK, NoFault, NothingLost, Owns, Held, AuxInitNoOutput, AuxInitNoSort

LEMMA FreeKeeps == IInv /\ AuxFree => IInv'
<1> SUFFICES ASSUME IInv, AuxFree PROVE IInv'
  OBVIOUS
<1> USE AuxNamesAssumption DEF IInv, TypeOK, NoFault, NothingLost, Owns, Held
<1>1. /\ mem' = Released(mem, {ranges_output, ranges_sort, heap}) /\ state' = "raw"
      /\ ranges_output' = Null /\ ranges_sort' = Null /\ heap' = Null /\ told' = told
  BY DEF AuxFree, MayBeFreed
<1>2. mem' \in [Addresses -> {Free, Other} \union Nat]
  BY <1>1 DEF Released
<1>3. NothingLost'
  BY <1>1 DEF Released
<1> QED
  BY <1>1, <1>2, <1>3

(* This is where "again" must not fail: it would leave ranges_sort as it  *)
(* was, pointing at the block just freed.                                  *)
LEMMA ReinitKeeps ==
  ASSUME "again" \notin MayFail, IInv, NEW size \in Sizes, AuxReinit(size) PROVE IInv'
<1> USE AuxSizesAssumption, AuxNamesAssumption
        DEF IInv, TypeOK, NoFault, NothingLost, Owns, Held
<1> DEFINE m == Released(mem, {ranges_output, ranges_sort})
<1>1. size \in Nat /\ 2 * size \in Nat /\ size * 2 = 2 * size
  OBVIOUS
<1>2. Reinit(size) /\ heap' = heap /\ heap # Null
  BY DEF AuxReinit, ReinitFrees, MayBeFreed
<1>3. /\ m \in [Addresses -> {Free, Other} \union Nat]
      /\ {a \in Addresses : m[a] \notin {Free, Other}} = {heap} \ {Null}
      /\ heap # Null => m[heap] = mem[heap]
  BY DEF Released
<1>4. CASE state' = "ready"
  <2>1. PICK o, s \in FreeAt(m) :
          /\ o # s
          /\ mem' = Allocated(Allocated(m, o, OutputSlots(size)), s, size)
          /\ ranges_output' = o /\ ranges_sort' = s
          /\ told' = size
    BY <1>2, <1>4 DEF Reinit, ReinitFrees
  <2>2. /\ o \in Addresses /\ s \in Addresses /\ m[o] = Free /\ m[s] = Free
        /\ mem' = [a \in Addresses |-> IF a = s THEN size
                                       ELSE IF a = o THEN 2 * size ELSE m[a]]
    BY <2>1, <1>1, <1>3 DEF FreeAt, Allocated, OutputSlots
  <2> HIDE DEF m
  <2>3. heap # o /\ heap # s
    BY <2>2, <1>2, <1>3
  <2>4. mem' \in [Addresses -> {Free, Other} \union Nat]
    BY <1>1, <1>3, <2>2
  <2>5. NothingLost'
    BY <1>1, <1>2, <1>3, <2>1, <2>2, <2>3
  <2> QED
    BY <1>1, <1>2, <1>3, <1>4, <2>1, <2>2, <2>3, <2>4, <2>5
<1>5. CASE state' # "ready"
  <2>1. /\ mem' = m /\ ranges_output' = Null /\ ranges_sort' = Null
        /\ state' = "failed" /\ told' = told
    BY <1>2, <1>5 DEF Reinit, ReinitFrees
  <2> HIDE DEF m
  <2> QED
    BY <1>2, <1>3, <2>1
<1> QED
  BY <1>4, <1>5

LEMMA BuildKeeps == ASSUME IInv, NEW num \in Sizes, Build(num) PROVE IInv'
<1> USE AuxSizesAssumption, AuxNamesAssumption
        DEF IInv, TypeOK, NoFault, NothingLost, Owns, Held
<1>1. state = "ready" /\ num \in Nat /\ num <= told /\ told \in Nat
  BY DEF Build
<1>2. BuildFits(num)
  BY <1>1 DEF BuildFits
<1> QED
  BY <1>2 DEF Build, fields

LEMMA GrowHeapKeeps == IInv /\ GrowHeap => IInv'
<1> SUFFICES ASSUME IInv, GrowHeap PROVE IInv'
  OBVIOUS
<1> USE AuxNamesAssumption DEF IInv, TypeOK, NoFault, NothingLost, Owns, Held
<1>1. PICK h \in FreeAt(mem) \union {heap} :
        /\ mem' = Allocated(Released(mem, {heap}), h, 2 * mem[heap])
        /\ heap' = h
  BY DEF GrowHeap
<1>2. /\ state = "ready" /\ heap \in Addresses /\ mem[heap] \in Nat /\ 2 * mem[heap] \in Nat
      /\ UNCHANGED <<ranges_output, ranges_sort, told, state>>
  BY DEF GrowHeap
<1>3. /\ h \in Addresses /\ h # ranges_output /\ h # ranges_sort
      /\ mem' = [a \in Addresses |-> IF a = h THEN 2 * mem[heap]
                                     ELSE IF a = heap THEN Free ELSE mem[a]]
  BY <1>1, <1>2 DEF FreeAt, Released, Allocated
<1>4. mem' \in [Addresses -> {Free, Other} \union Nat]
  BY <1>2, <1>3
<1>5. NothingLost'
  BY <1>1, <1>2, <1>3
<1> QED
  BY <1>1, <1>2, <1>3, <1>4, <1>5

LEMMA TakenElsewhereKeeps == IInv /\ TakenElsewhere => IInv'
<1> SUFFICES ASSUME IInv, NEW a \in Addresses, UNCHANGED <<fields, told, state>>,
                    \/ mem[a] = Free  /\ mem' = Allocated(mem, a, Other)
                    \/ mem[a] = Other /\ mem' = Released(mem, {a})
             PROVE  IInv'
  BY DEF TakenElsewhere
<1> USE AuxNamesAssumption DEF IInv, TypeOK, NoFault, NothingLost, Owns, Held, fields
<1>1. /\ mem' \in [Addresses -> {Free, Other} \union Nat]
      /\ mem'[a] \in {Free, Other} /\ mem[a] \in {Free, Other}
      /\ \A b \in Addresses : b # a => mem'[b] = mem[b]
  BY DEF Allocated, Released
<1>2. NothingLost'
  BY <1>1
<1> QED
  BY <1>1, <1>2

LEMMA NextKeeps == "again" \notin MayFail /\ IInv /\ [Next]_vars => IInv'
<1> SUFFICES ASSUME "again" \notin MayFail, IInv, [Next]_vars PROVE IInv'
  OBVIOUS
<1>1. CASE UNCHANGED vars
  BY <1>1 DEF vars, fields, IInv, TypeOK, NoFault, NothingLost, Owns, Held
<1>2. CASE Next
  BY <1>2, InitKeeps, InitFailureKeeps, FreeKeeps, ReinitKeeps, BuildKeeps,
     GrowHeapKeeps, TakenElsewhereKeeps DEF Next
<1> QED
  BY <1>1, <1>2

(* Where a reinit gets its ranges_output, no mixture of init, reinit, build*)
(* and free, failed or not, frees a block twice or writes past an array.   *)
THEOREM FreesOnce == ASSUME "again" \notin MayFail PROVE Spec => []NoFault
<1>1. IInv => NoFault
  BY DEF IInv
<1> QED
  BY InitIInv, NextKeeps, <1>1, PTL DEF Spec

(* Nor does it lose one: after a failed init and after hs_build_aux_free   *)
(* nothing is left, otherwise what the fields point at.                    *)
THEOREM LosesNothing == ASSUME "again" \notin MayFail PROVE Spec => []NothingLost
<1>1. IInv => NothingLost
  BY DEF IInv
<1> QED
  BY InitIInv, NextKeeps, <1>1, PTL DEF Spec
=============================================================================
