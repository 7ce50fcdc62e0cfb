--------------------------- MODULE RuleTableProofs ----------------------------
(***************************************************************************)
(* RuleTable's invariants, for every set of rules, every initial size and  *)
(* every number of calls; and RuleTable implements AclList: a call on the  *)
(* array answers, and leaves behind, what the call on the list does,       *)
(* whatever the rules, the sizes and the outcome of every allocation.      *)
(***************************************************************************)
EXTENDS RuleTable, SequenceTheorems, TLAPS

USE RulesAssumption, SizesAssumption, BlankAssumption, PriAssumption

(* The middle of a non-empty window lies inside the window.                *)
LEMMA HalfInside == \A n \in Nat \ {0} : n \div 2 \in 0..n - 1
  OBVIOUS

(* Priorities are numbers, so the comparisons of the code order them.      *)
LEMMA RulesHavePri == \A r \in Rules : r.pri \in Nat
  BY DEF Rule, Pri

LEMMA InitInv == Init => IInv
  BY DEF Init, IInv, TypeOK, UsedSlotsHoldRules, Sorted, NoDuplicates, AddHasRoom,
         Bracket, ScanPassed, CallLocals, Used, NoCall, Ops

LEMMA CtxInitInv == ASSUME NEW size \in Sizes, IInv, CtxInit(size) PROVE IInv'
<1>1. CASE pc' = "ready" /\ cap' = size /\ list' = [k \in 0..size - 1 |-> Blank]
  <2>1. TypeOK'
    BY <1>1 DEF CtxInit, IInv, TypeOK
  <2> QED
    BY <1>1, <2>1 DEF CtxInit, IInv, UsedSlotsHoldRules, Sorted, NoDuplicates,
       AddHasRoom, Bracket, ScanPassed, CallLocals, Used
<1>2. CASE UNCHANGED <<pc, cap, list>>
  <2>1. TypeOK'
    BY <1>2 DEF CtxInit, IInv, TypeOK
  <2> QED
    BY <1>2, <2>1 DEF CtxInit, IInv, UsedSlotsHoldRules, Sorted, NoDuplicates,
       AddHasRoom, Bracket, ScanPassed, CallLocals, Used
<1> QED
  BY <1>1, <1>2 DEF CtxInit

LEMMA CtxFreeInv == IInv /\ CtxFree => IInv'
<1> SUFFICES ASSUME IInv, CtxFree PROVE IInv'
  OBVIOUS
<1>1. list' \in [0..cap' - 1 -> Rule \union {Blank}]
  BY 0..0 - 1 = {} DEF CtxFree, Emptied
<1>2. TypeOK'
  BY <1>1 DEF CtxFree, Emptied, IInv, TypeOK
<1> QED
  BY <1>2 DEF CtxFree, Emptied, IInv, UsedSlotsHoldRules, Sorted, NoDuplicates,
     AddHasRoom, Bracket, ScanPassed, CallLocals, Used

LEMMA AddRuleInv == ASSUME NEW r \in Rules, IInv, AddRule(r) PROVE IInv'
<1> USE DEF IInv, Used
<1>1. /\ cap' \in Nat /\ cap <= cap' /\ len < cap' /\ len' = len
      /\ cap' # 0 /\ pc' # "none"
  BY DEF AddRule, BeginSearch, Full, Grow, TypeOK
<1>2. list' \in [0..cap' - 1 -> Rule \union {Blank}]
  BY DEF AddRule, Full, Grow, TypeOK
<1>3. \A k \in 0..len - 1 : list'[k] = list[k]
  BY DEF AddRule, Full, Grow, TypeOK
<1>4. TypeOK'
  <2>1. call' \in [op : Ops \union {"none"}, rule : Rules \union {Blank}]
    BY DEF AddRule, BeginSearch, Ops
  <2>2. pc' = "search" /\ idx' = 0 /\ count' = len /\ i' = i
    BY DEF AddRule, BeginSearch
  <2>3. len' \in 0..cap' /\ idx' \in 0..len' /\ count' \in 0..len' /\ i' \in -1..len'
    BY <1>1, <2>2 DEF TypeOK
  <2> HIDE DEF IInv
  <2> QED
    BY <1>1, <1>2, <2>1, <2>2, <2>3, Zenon DEF TypeOK
<1>5. UsedSlotsHoldRules' /\ Sorted' /\ NoDuplicates'
  BY <1>1, <1>3 DEF UsedSlotsHoldRules, Sorted, NoDuplicates
<1>6. AddHasRoom' /\ Bracket' /\ ScanPassed' /\ CallLocals'
  BY <1>1 DEF AddRule, BeginSearch, AddHasRoom, Bracket, ScanPassed, CallLocals,
              Ops, TypeOK
<1> QED
  BY <1>4, <1>5, <1>6

LEMMA AddRuleNoMemoryInv == ASSUME NEW r \in Rules, IInv, AddRuleNoMemory(r)
                            PROVE IInv'
  BY DEF AddRuleNoMemory, IInv, TypeOK, UsedSlotsHoldRules, Sorted, NoDuplicates,
         AddHasRoom, Bracket, ScanPassed, CallLocals, Used, Ops

LEMMA AskInv == ASSUME NEW op \in Ops, NEW r \in Rules, IInv, Ask(op, r) PROVE IInv'
  BY DEF Ask, BeginSearch, IInv, TypeOK, UsedSlotsHoldRules, Sorted, NoDuplicates,
         AddHasRoom, Bracket, ScanPassed, CallLocals, Used, Ops

LEMMA UpperBoundStepInv == IInv /\ UpperBoundStep => IInv'
<1> SUFFICES ASSUME IInv, UpperBoundStep PROVE IInv'
  OBVIOUS
<1> USE DEF IInv, Used
<1> DEFINE step == count \div 2
           pos  == idx + step
<1>1. step \in 0..count - 1 /\ pos \in 0..len - 1
  BY HalfInside DEF UpperBoundStep, TypeOK, Bracket
<1>2. call.rule.pri \in Nat /\ \A k \in 0..len - 1 : list[k].pri \in Nat
  BY RulesHavePri DEF UpperBoundStep, CallLocals, UsedSlotsHoldRules
<1>3. CASE GoesRight(call.rule, list[pos])
  <2>1. idx' = pos + 1 /\ count' = count - (step + 1)
    BY <1>3 DEF UpperBoundStep, NarrowRight
  <2>2. Bracket'
    BY <1>1, <1>2, <1>3, <2>1
    DEF UpperBoundStep, GoesRight, Bracket, Sorted, TypeOK
  <2> QED
    BY <1>1, <2>1, <2>2 DEF UpperBoundStep, TypeOK, UsedSlotsHoldRules, Sorted,
       NoDuplicates, AddHasRoom, ScanPassed, CallLocals, Bracket
<1>4. CASE ~GoesRight(call.rule, list[pos])
  <2>1. idx' = idx /\ count' = step
    BY <1>4 DEF UpperBoundStep
  <2>2. Bracket'
    BY <1>1, <1>2, <1>4, <2>1
    DEF UpperBoundStep, GoesRight, Bracket, Sorted, TypeOK
  <2> QED
    BY <1>1, <2>1, <2>2 DEF UpperBoundStep, TypeOK, UsedSlotsHoldRules, Sorted,
       NoDuplicates, AddHasRoom, ScanPassed, CallLocals, Bracket
<1> QED
  BY <1>3, <1>4

LEMMA UpperBoundDoneInv == IInv /\ UpperBoundDone => IInv'
  BY DEF UpperBoundDone, ScanStart, IInv, TypeOK, UsedSlotsHoldRules, Sorted,
         NoDuplicates, AddHasRoom, Bracket, ScanPassed, CallLocals, Used, Ops

(* A call that returns without moving a rule leaves the table as it was.   *)
LEMMA ReturnInv == ASSUME NEW ret, IInv, Return(ret), UNCHANGED <<cap, len, list>>,
                          pc # "none"
                   PROVE  IInv'
  BY DEF Return, NoCall, IInv, TypeOK, UsedSlotsHoldRules, Sorted, NoDuplicates,
     AddHasRoom, Bracket, ScanPassed, CallLocals, Used

(* Closing the gap at slot k keeps the order of the remaining rules.       *)
LEMMA MoveDownInv ==
  ASSUME IInv, NEW k \in 0..len - 1, len' = len - 1, list' = MoveDown(k), cap' = cap
  PROVE  /\ list' \in [0..cap' - 1 -> Rule \union {Blank}]
         /\ len' \in 0..cap'
         /\ UsedSlotsHoldRules' /\ Sorted' /\ NoDuplicates'
<1> USE DEF IInv, Used
<1>1. len \in Nat \ {0} /\ cap \in Nat /\ len <= cap
      /\ list \in [0..cap - 1 -> Rule \union {Blank}]
  BY DEF TypeOK
<1>2. \A j \in 0..len' - 1 : list'[j] = IF j < k THEN list[j] ELSE list[j + 1]
  BY <1>1 DEF MoveDown
<1>3. list' \in [0..cap' - 1 -> Rule \union {Blank}]
  BY <1>1 DEF MoveDown
<1>4. UsedSlotsHoldRules'
  BY <1>1, <1>2 DEF UsedSlotsHoldRules
<1>5. Sorted'
  BY <1>1, <1>2, RulesHavePri DEF Sorted, UsedSlotsHoldRules
<1>6. NoDuplicates'
  BY <1>1, <1>2 DEF NoDuplicates
<1> QED
  BY <1>1, <1>3, <1>4, <1>5, <1>6

(* A call that removes slot k and returns.                                 *)
LEMMA RemoveInv ==
  ASSUME NEW ret, IInv, Return(ret), NEW k \in 0..len - 1, len' = len - 1,
         list' = MoveDown(k), cap' = cap, pc # "none"
  PROVE  IInv'
<1>1. TypeOK'
  BY MoveDownInv DEF Return, NoCall, IInv, TypeOK
<1> QED
  BY <1>1, MoveDownInv DEF Return, IInv, AddHasRoom, Bracket, ScanPassed, CallLocals

LEMMA ScanHitInv == IInv /\ ScanHit => IInv'
<1> SUFFICES ASSUME IInv, ScanHit PROVE IInv'
  OBVIOUS
<1>1. pc # "none" /\ cap' = cap /\ i \in 0..len - 1
  BY DEF ScanHit, IInv, ScanPassed, TypeOK
<1>2. CASE call.op = "del"
  BY <1>1, <1>2, RemoveInv DEF ScanHit, Found
<1>3. CASE call.op # "del"
  <2>1. \E ret : Return(ret) /\ UNCHANGED <<len, list>>
    BY <1>3 DEF ScanHit, Found, IInv, CallLocals, Ops
  <2> QED
    BY <1>1, <2>1, ReturnInv
<1> QED
  BY <1>2, <1>3

LEMMA SweepHitInv == IInv /\ SweepHit => IInv'
<1> SUFFICES ASSUME IInv, SweepHit PROVE IInv'
  OBVIOUS
<1>1. pc # "none" /\ cap' = cap /\ i \in 0..len - 1
  BY DEF SweepHit, IInv, ScanPassed, TypeOK
<1>2. CASE call.op = "del"
  BY <1>1, <1>2, RemoveInv DEF SweepHit, Found
<1>3. CASE call.op # "del"
  <2>1. \E ret : Return(ret) /\ UNCHANGED <<len, list>>
    BY <1>3 DEF SweepHit, Found, IInv, CallLocals, Ops
  <2> QED
    BY <1>1, <2>1, ReturnInv
<1> QED
  BY <1>2, <1>3

LEMMA ScanNextInv == IInv /\ ScanNext => IInv'
<1> SUFFICES ASSUME IInv, ScanNext PROVE IInv'
  OBVIOUS
<1>1. i \in 0..len - 1 /\ i' = i - 1 /\ pc = "scan" /\ pc' = "scan"
      /\ UNCHANGED <<cap, len, list, call, idx, count>>
  BY DEF ScanNext, IInv, ScanPassed, TypeOK
<1>2. list[i].pri = call.rule.pri /\ list[i].range # call.rule.range
  BY DEF ScanNext, SamePri, RuleIsEqual
<1>3. TypeOK'
  BY <1>1 DEF IInv, TypeOK
<1>4. ScanPassed'
  BY <1>1, <1>2 DEF IInv, ScanPassed, TypeOK
<1> QED
  BY <1>1, <1>3, <1>4 DEF IInv, UsedSlotsHoldRules, Sorted, NoDuplicates,
     AddHasRoom, Bracket, CallLocals, Used

LEMMA SweepNextInv == IInv /\ SweepNext => IInv'
<1> SUFFICES ASSUME IInv, SweepNext PROVE IInv'
  OBVIOUS
<1>1. i \in 0..len - 1 /\ i' = i + 1 /\ pc = "sweep" /\ pc' = "sweep"
      /\ UNCHANGED <<cap, len, list, call, idx, count>>
  BY DEF SweepNext, IInv, ScanPassed, TypeOK
<1>2. list[i].range # call.rule.range
  BY DEF SweepNext, RuleIsEqual, IInv, ScanPassed
<1>3. TypeOK'
  BY <1>1 DEF IInv, TypeOK
<1>4. ScanPassed'
  BY <1>1, <1>2 DEF IInv, ScanPassed, TypeOK
<1> QED
  BY <1>1, <1>3, <1>4 DEF IInv, UsedSlotsHoldRules, Sorted, NoDuplicates,
     AddHasRoom, Bracket, CallLocals, Used

(* A scan that ends short of a rule of its priority, or at the end, has    *)
(* seen every rule of that priority: none of them was the rule.            *)
LEMMA NoTwin ==
  ASSUME IInv, pc = "scan", i >= 0 => ~SamePri(list[i])
  PROVE  \A k \in Used : ~(list[k].pri = call.rule.pri /\ list[k].range = call.rule.range)
<1> USE DEF IInv, Used
<1>1. len \in Nat /\ idx \in 0..len /\ i \in -1..idx - 1 /\ call.rule \in Rules
  BY DEF TypeOK, ScanPassed, Bracket, CallLocals
<1>2. /\ \A k \in 0..idx - 1 : list[k].pri <= call.rule.pri
      /\ \A k \in idx..len - 1 : call.rule.pri < list[k].pri
  BY <1>1 DEF Bracket
<1>3. call.rule.pri \in Nat /\ \A k \in 0..len - 1 : list[k].pri \in Nat
  BY <1>1, RulesHavePri DEF UsedSlotsHoldRules
<1> TAKE k \in 0..len - 1
<1>4. CASE k >= idx
  BY <1>1, <1>2, <1>3, <1>4
<1>5. CASE k > i /\ k < idx
  BY <1>1, <1>5 DEF ScanPassed
<1>6. CASE k <= i
  <2>1. list[i].pri < call.rule.pri
    BY <1>1, <1>2, <1>3, <1>6 DEF SamePri
  <2>2. list[k].pri <= list[i].pri
    BY <1>1, <1>6 DEF Sorted
  <2> QED
    BY <1>1, <1>3, <2>1, <2>2, <1>6
<1> QED
  BY <1>1, <1>4, <1>5, <1>6

(* hs_rule_add's insertion: the bound splits the array by priority and the *)
(* scan has seen every rule of the new rule's priority.                    *)
LEMMA PlaceInv ==
  ASSUME IInv, pc = "scan", call.op = "add", i >= 0 => ~SamePri(list[i]),
         len' = len + 1, list' = [MoveUp(idx) EXCEPT ![idx] = call.rule], cap' = cap
  PROVE  /\ list' \in [0..cap' - 1 -> Rule \union {Blank}]
         /\ len' \in 0..cap'
         /\ UsedSlotsHoldRules' /\ Sorted' /\ NoDuplicates'
<1> USE DEF IInv, Used
<1>1. /\ len \in Nat /\ cap \in Nat /\ len < cap /\ idx \in 0..len /\ i \in -1..idx - 1
      /\ list \in [0..cap - 1 -> Rule \union {Blank}]
      /\ call.rule \in Rules
  BY DEF TypeOK, AddHasRoom, ScanPassed, Bracket, CallLocals
<1>2. \A j \in 0..len' - 1 :
        list'[j] = IF j < idx THEN list[j]
                   ELSE IF j = idx THEN call.rule ELSE list[j - 1]
  BY <1>1 DEF MoveUp
<1>3. list' \in [0..cap' - 1 -> Rule \union {Blank}]
  BY <1>1 DEF MoveUp
<1>4. UsedSlotsHoldRules'
  BY <1>1, <1>2 DEF UsedSlotsHoldRules
<1>5. /\ \A k \in 0..idx - 1 : list[k].pri <= call.rule.pri
      /\ \A k \in idx..len - 1 : call.rule.pri < list[k].pri
  BY <1>1 DEF Bracket
<1>6. call.rule.pri \in Nat /\ \A k \in 0..len - 1 : list[k].pri \in Nat
  BY <1>1, RulesHavePri DEF UsedSlotsHoldRules
<1>7. Sorted'
  BY <1>1, <1>2, <1>5, <1>6 DEF Sorted
<1>8. \A k \in 0..len - 1 :
        ~(list[k].pri = call.rule.pri /\ list[k].range = call.rule.range)
  BY NoTwin
<1>9. NoDuplicates'
  BY <1>1, <1>2, <1>8 DEF NoDuplicates
<1> QED
  BY <1>1, <1>3, <1>4, <1>7, <1>9

LEMMA ScanMissInv == IInv /\ ScanMiss => IInv'
<1> SUFFICES ASSUME IInv, ScanMiss PROVE IInv'
  OBVIOUS
<1>1. pc # "none" /\ cap' = cap
  BY DEF ScanMiss
<1>2. CASE call.op = "add"
  <2>1. /\ Return(0) /\ len' = len + 1
        /\ list' = [MoveUp(idx) EXCEPT ![idx] = call.rule]
    BY <1>2 DEF ScanMiss, NotFound
  <2>2. /\ list' \in [0..cap' - 1 -> Rule \union {Blank}]
        /\ len' \in 0..cap'
        /\ UsedSlotsHoldRules' /\ Sorted' /\ NoDuplicates'
    BY <1>1, <1>2, <2>1, PlaceInv DEF ScanMiss
  <2>3. TypeOK'
    BY <1>1, <2>1, <2>2 DEF Return, NoCall, IInv, TypeOK
  <2> QED
    BY <2>1, <2>2, <2>3
    DEF Return, IInv, AddHasRoom, Bracket, ScanPassed, CallLocals
<1>3. CASE call.op # "add"
  <2>1. \E ret : Return(ret) /\ UNCHANGED <<len, list>>
    BY <1>3 DEF ScanMiss, NotFound, IInv, CallLocals, Ops
  <2> QED
    BY <1>1, <2>1, ReturnInv
<1> QED
  BY <1>2, <1>3

LEMMA SweepMissInv == IInv /\ SweepMiss => IInv'
<1> SUFFICES ASSUME IInv, SweepMiss PROVE IInv'
  OBVIOUS
<1>1. pc # "none" /\ cap' = cap
  BY DEF SweepMiss
<1>2. \E ret : Return(ret) /\ UNCHANGED <<len, list>>
  BY DEF SweepMiss, NotFound, IInv, CallLocals, ScanPassed, Ops
<1> QED
  BY <1>1, <1>2, ReturnInv

LEMMA DelWithIdxInv == ASSUME NEW k \in 0..cap - 1, IInv, DelWithIdx(k) PROVE IInv'
<1>1. k \in 0..len - 1 /\ len' = len - 1 /\ list' = MoveDown(k)
      /\ pc = "ready" /\ UNCHANGED <<pc, cap, call, idx, count, i>>
  BY DEF DelWithIdx, IInv, TypeOK
<1>2. /\ list' \in [0..cap' - 1 -> Rule \union {Blank}]
      /\ len' \in 0..cap'
      /\ UsedSlotsHoldRules' /\ Sorted' /\ NoDuplicates'
  BY <1>1, MoveDownInv
<1>3. idx = 0 /\ count = 0 /\ i = 0
  BY <1>1 DEF IInv, CallLocals
<1> QED
  BY <1>1, <1>2, <1>3 DEF IInv, TypeOK, AddHasRoom, Bracket, ScanPassed, CallLocals

LEMMA StepInv == IInv /\ [Next]_vars => IInv'
<1> SUFFICES ASSUME IInv, [Next]_vars PROVE IInv'
  OBVIOUS
<1>1. CASE UNCHANGED vars
  BY <1>1 DEF vars, IInv, TypeOK, UsedSlotsHoldRules, Sorted, NoDuplicates,
     AddHasRoom, Bracket, ScanPassed, CallLocals, Used
<1>2. CASE Next
  BY <1>2, CtxInitInv, CtxFreeInv, AddRuleInv, AddRuleNoMemoryInv, AskInv,
     UpperBoundStepInv, UpperBoundDoneInv, ScanHitInv, ScanNextInv, ScanMissInv,
     SweepHitInv, SweepNextInv, SweepMissInv, DelWithIdxInv
  DEF Next, Running
<1> QED
  BY <1>1, <1>2

(* No call, in any order and with any outcome of the allocator, takes the  *)
(* table out of its invariant.                                             *)
THEOREM TableInvariant == Spec => []IInv
  BY InitInv, StepInv, PTL DEF Spec

(* The cursors of the two searches and the number of rules stay inside the *)
(* array, and a table that is open never has an array of no slots.         *)
THEOREM TypeCorrect == Spec => []TypeOK
<1>1. IInv => TypeOK
  BY DEF IInv
<1> QED
  BY <1>1, TableInvariant, PTL

(* Every slot below len holds a rule the user added, and hs_rule_add never *)
(* writes behind the array: no doubling, failed doubling, memmove or delete*)
(* makes a call read memory that was never written.                        *)
THEOREM SlotsAlwaysSound == Spec => []SlotsSound
<1>1. IInv => SlotsSound
  BY DEF IInv, SlotsSound
<1> QED
  BY <1>1, TableInvariant, PTL

(* No scan passes over a rule the call asked for.                          *)
THEOREM ScansMissNothing == Spec => []ScanPassed
<1>1. IInv => ScanPassed
  BY DEF IInv
<1> QED
  BY <1>1, TableInvariant, PTL

(* upper_bound is a binary search: its window always brackets the bound.   *)
THEOREM SearchBrackets == Spec => []Bracket
<1>1. IInv => Bracket
  BY DEF IInv
<1> QED
  BY <1>1, TableInvariant, PTL

(* The array of rule.c is sorted by priority at every step of every call.  *)
THEOREM AlwaysSorted == Spec => []Sorted
<1>1. IInv => Sorted
  BY DEF IInv
<1> QED
  BY <1>1, TableInvariant, PTL

(* hs_rule_add never stores a priority and box twice.                      *)
THEOREM NeverDuplicates == Spec => []NoDuplicates
<1>1. IInv => NoDuplicates
  BY DEF IInv
<1> QED
  BY <1>1, TableInvariant, PTL

-----------------------------------------------------------------------------
(* The refinement of AclList.                                              *)

(* Only hs_rule_add searches for the place of a rule whose priority is the *)
(* wildcard; the other calls sweep for it.                                 *)
AskedPri ==
  pc \in {"search", "scan"} /\ call.op # "add" => call.rule.pri # UINT32_MAX

LEMMA AskedPriStep == IInv /\ AskedPri /\ [Next]_vars => AskedPri'
<1> SUFFICES ASSUME IInv, AskedPri, [Next]_vars PROVE AskedPri'
  OBVIOUS
<1> USE DEF AskedPri
<1>1. CASE UNCHANGED vars
  BY <1>1 DEF vars
<1>2. ASSUME NEW size \in Sizes, CtxInit(size) PROVE AskedPri'
  BY <1>2 DEF CtxInit
<1>3. CASE CtxFree
  BY <1>3 DEF CtxFree
<1>4. ASSUME NEW r \in Rules, AddRule(r) PROVE AskedPri'
  BY <1>4 DEF AddRule, BeginSearch
<1>5. ASSUME NEW r \in Rules, AddRuleNoMemory(r) PROVE AskedPri'
  BY <1>5 DEF AddRuleNoMemory
<1>6. ASSUME NEW op \in Ops, NEW r \in Rules, Ask(op, r) PROVE AskedPri'
  BY <1>6 DEF Ask, BeginSearch
<1>7. ASSUME NEW k \in 0..cap - 1, DelWithIdx(k) PROVE AskedPri'
  BY <1>7 DEF DelWithIdx
<1>8. CASE UpperBoundStep \/ UpperBoundDone \/ ScanNext \/ SweepNext
  BY <1>8 DEF UpperBoundStep, UpperBoundDone, ScanNext, SweepNext
<1>9. ASSUME pc \in {"scan", "sweep"}, Found \/ NotFound PROVE pc' = "ready"
  BY <1>9 DEF Found, NotFound, Return, IInv, CallLocals, Ops
<1>10. CASE ScanHit \/ ScanMiss \/ SweepHit \/ SweepMiss
  BY <1>9, <1>10 DEF ScanHit, ScanMiss, SweepHit, SweepMiss
<1> QED
  BY <1>1, <1>2, <1>3, <1>4, <1>5, <1>6, <1>7, <1>8, <1>10 DEF Next, Running

(* The list a table stands for.                                            *)
List == [k \in 1..len |-> list[k - 1]]

LEMMA ListLen ==
  ASSUME TypeOK, UsedSlotsHoldRules
  PROVE  Len(List) = len /\ \A k \in 1..len : List[k] = list[k - 1] /\ List[k] \in Rules
<1>1. len \in Nat /\ \A k \in 1..len : list[k - 1] \in Rules
  BY DEF TypeOK, UsedSlotsHoldRules, Used
<1>2. List \in [1..len -> Rules]
  BY <1>1 DEF List
<1>3. List \in Seq(Rules) /\ DOMAIN List = 1..len
  BY <1>1, <1>2, SeqDef
<1>4. Len(List) = len
  BY <1>1, <1>3, LenProperties
<1> QED
  BY <1>1, <1>4 DEF List

LEMMA EmptyList == ASSUME len = 0 PROVE List = <<>>
  BY DEF List

LEMMA EmptyListNext == ASSUME len' = 0 PROVE List' = <<>>
  BY DEF List

(* The first of a set of numbers is its only lower bound in the set.       *)
LEMMA FirstIs ==
  ASSUME NEW S \in SUBSET Int, NEW k \in S, \A j \in S : k <= j
  PROVE  Abstract!FirstOf(S) = k
<1>1. \A j \in S : (\A n \in S : j <= n) => j = k
  OBVIOUS
<1> QED
  BY <1>1 DEF Abstract!FirstOf

LEMMA HitsOf ==
  ASSUME TypeOK, UsedSlotsHoldRules, NEW r
  PROVE  Abstract!Hits(r) =
           {k \in 1..len :
              /\ list[k - 1].range = r.range
              /\ r.pri = UINT32_MAX \/ list[k - 1].pri = r.pri}
  BY ListLen DEF Abstract!Hits, List

LEMMA RemovedIs ==
  ASSUME TypeOK, UsedSlotsHoldRules, NEW k \in 0..len - 1, len' = len - 1, list' = MoveDown(k)
  PROVE  List' = Abstract!Removed(k + 1)
<1>1. len \in Nat /\ cap \in Nat /\ len <= cap /\ DOMAIN list = 0..cap - 1
  BY DEF TypeOK
<1>2. \A j \in 1..len - 1 : list'[j - 1] = IF j < k + 1 THEN list[j - 1] ELSE list[j]
  BY <1>1 DEF MoveDown
<1>3. Abstract!Removed(k + 1) = [j \in 1..len - 1 |-> IF j < k + 1 THEN List[j] ELSE List[j + 1]]
  BY ListLen DEF Abstract!Removed, List
<1>4. \A j \in 1..len - 1 : list'[j - 1] = IF j < k + 1 THEN List[j] ELSE List[j + 1]
  BY <1>1, <1>2 DEF List
<1> QED
  BY <1>3, <1>4 DEF List

LEMMA InsertedIs ==
  ASSUME TypeOK, UsedSlotsHoldRules, len < cap, len' = len + 1,
         list' = [MoveUp(idx) EXCEPT ![idx] = call.rule]
  PROVE  List' = Abstract!Inserted(idx + 1, call.rule)
<1>1. len \in Nat /\ cap \in Nat /\ idx \in 0..len /\ DOMAIN list = 0..cap - 1
  BY DEF TypeOK
<1>2. \A j \in 1..len + 1 :
        list'[j - 1] = IF j < idx + 1 THEN list[j - 1]
                       ELSE IF j = idx + 1 THEN call.rule ELSE list[j - 2]
  BY <1>1 DEF MoveUp
<1>3. Abstract!Inserted(idx + 1, call.rule) =
        [j \in 1..len + 1 |-> IF j < idx + 1 THEN List[j]
                              ELSE IF j = idx + 1 THEN call.rule ELSE List[j - 1]]
  BY ListLen DEF Abstract!Inserted, List
<1>4. \A j \in 1..len + 1 :
        list'[j - 1] = IF j < idx + 1 THEN List[j]
                       ELSE IF j = idx + 1 THEN call.rule ELSE List[j - 1]
  BY <1>1, <1>2 DEF List
<1> QED
  BY <1>3, <1>4 DEF List

(* A scan or sweep that ends at a rule has found the first the call means. *)
LEMMA FoundFirst ==
  ASSUME IInv, AskedPri, call.op # "add", ScanHit \/ SweepHit
  PROVE  /\ i \in 0..len - 1
         /\ Abstract!Hits(call.rule) # {}
         /\ Abstract!FirstOf(Abstract!Hits(call.rule)) = i + 1
<1> DEFINE S == Abstract!Hits(call.rule)
<1>1. /\ S \in SUBSET Int
      /\ S = {k \in 1..len :
                /\ list[k - 1].range = call.rule.range
                /\ call.rule.pri = UINT32_MAX \/ list[k - 1].pri = call.rule.pri}
  BY HitsOf DEF IInv, TypeOK
<1>2. len \in Nat /\ i \in 0..len - 1
  BY DEF IInv, TypeOK, ScanHit, SweepHit, ScanPassed, Bracket
<1>3. i + 1 \in S /\ \A j \in S : i + 1 <= j
  <2>1. CASE ScanHit
    <3>1. call.rule.pri # UINT32_MAX
      BY <2>1 DEF AskedPri, ScanHit
    <3>2. list[i].range = call.rule.range /\ list[i].pri = call.rule.pri
      BY <2>1 DEF ScanHit, SamePri, RuleIsEqual
    <3>3. \A j \in S : list[j - 1].pri = list[i].pri /\ list[j - 1].range = list[i].range
      BY <1>1, <3>1, <3>2
    <3>4. \A j \in S : j - 1 = i
      BY <1>1, <1>2, <3>3 DEF IInv, NoDuplicates, Used
    <3> QED
      BY <1>1, <1>2, <3>2, <3>4
  <2>2. CASE SweepHit
    <3>1. list[i].range = call.rule.range /\ call.rule.pri = UINT32_MAX
      BY <2>2 DEF SweepHit, RuleIsEqual, IInv, ScanPassed
    <3>2. \A k \in 0..i - 1 : list[k].range # call.rule.range
      BY <2>2 DEF SweepHit, IInv, ScanPassed
    <3>3. \A j \in S : j - 1 >= i
      BY <1>1, <1>2, <3>2
    <3> QED
      BY <1>1, <1>2, <3>1, <3>3
  <2> QED
    BY <2>1, <2>2
<1> QED
  BY <1>1, <1>2, <1>3, FirstIs

(* One that ends without a rule found has passed them all.                 *)
LEMMA MissNone ==
  ASSUME IInv, AskedPri, call.op # "add", ScanMiss \/ SweepMiss
  PROVE  Abstract!Hits(call.rule) = {}
<1>1. Abstract!Hits(call.rule) =
        {k \in 1..len :
           /\ list[k - 1].range = call.rule.range
           /\ call.rule.pri = UINT32_MAX \/ list[k - 1].pri = call.rule.pri}
  BY HitsOf DEF IInv
<1>2. len \in Nat
  BY DEF IInv, TypeOK
<1>3. CASE ScanMiss
  <2>1. call.rule.pri # UINT32_MAX
    BY <1>3 DEF AskedPri, ScanMiss
  <2>2. \A k \in 0..len - 1 : ~(list[k].pri = call.rule.pri /\ list[k].range = call.rule.range)
    BY <1>3, NoTwin DEF ScanMiss, Used
  <2> QED
    BY <1>1, <1>2, <2>1, <2>2
<1>4. CASE SweepMiss
  <2>1. \A k \in 0..len - 1 : list[k].range # call.rule.range
    BY <1>4 DEF SweepMiss, IInv, ScanPassed
  <2> QED
    BY <1>1, <1>2, <2>1
<1> QED
  BY <1>3, <1>4

-----------------------------------------------------------------------------
(* Steps within a call leave the list as it is.                            *)
LEMMA SameList ==
  ASSUME UNCHANGED <<len, list, last>>, pc # "none", pc' # "none"
  PROVE  UNCHANGED Abstract!vars
  BY DEF Abstract!vars

LEMMA AddRuleRefines ==
  ASSUME NEW r \in Rules, IInv, AddRule(r)
  PROVE  UNCHANGED Abstract!vars
<1>1. pc # "none" /\ pc' # "none" /\ UNCHANGED <<len, last>>
  BY DEF AddRule, BeginSearch
<1>2. \A k \in 1..len : list'[k - 1] = list[k - 1]
  BY DEF AddRule, Grow, IInv, TypeOK
<1>3. [k \in 1..len |-> list[k - 1]]' = [k \in 1..len |-> list[k - 1]]
  BY <1>1, <1>2
<1> QED
  BY <1>1, <1>3 DEF Abstract!vars

(* A call on the list is a step of its specification.                      *)
LEMMA CallIsStep ==
  ASSUME NEW r \in Rules, pc # "none", pc' # "none",
         \/ Abstract!Add(r) \/ Abstract!AddDuplicate(r) \/ Abstract!AddNoMemory(r)
         \/ Abstract!Find(r) \/ Abstract!Exist(r) \/ Abstract!Del(r)
  PROVE  Abstract!Next
<1>1. UNCHANGED (pc # "none")
  OBVIOUS
<1>2. \E q \in Rules : \/ Abstract!Add(q) \/ Abstract!AddDuplicate(q) \/ Abstract!AddNoMemory(q)
                      \/ Abstract!Find(q) \/ Abstract!Exist(q) \/ Abstract!Del(q)
  OBVIOUS
<1> QED
  BY <1>1, <1>2, Zenon DEF Abstract!Next

(* Found: the call's answer is the list's.                                 *)
LEMMA FoundRefines ==
  ASSUME IInv, AskedPri, ScanHit \/ SweepHit
  PROVE  Abstract!Next
<1>1. /\ pc # "none" /\ Found
      /\ call.op \in Ops /\ call.rule \in Rules
  BY DEF ScanHit, SweepHit, IInv, CallLocals
<1>2. pc' # "none"
  BY <1>1 DEF Found, Return, Ops
<1>3. CASE call.op = "add"
  <2>1. len \in Nat /\ i \in 0..len - 1 /\ ScanHit
    BY <1>3 DEF IInv, TypeOK, ScanHit, SweepHit, ScanPassed, Bracket
  <2>2. list[i].pri = call.rule.pri /\ list[i].range = call.rule.range
    BY <2>1 DEF ScanHit, SamePri, RuleIsEqual
  <2>3. Abstract!AddDuplicate(call.rule)
    <3>1. i + 1 \in 1..Len(List) /\ List[i + 1] = list[i]
      BY <2>1, ListLen DEF IInv
    <3>2. last' = Abstract!Answer("add", call.rule, -2) /\ UNCHANGED List
      BY <1>1, <1>3 DEF Found, Return, Answer, Abstract!Answer, HS_RULE_EXIST, List
    <3> QED
      BY <2>2, <3>1, <3>2 DEF Abstract!AddDuplicate, List
  <2> QED
    BY <1>1, <1>2, <2>3, CallIsStep
<1>4. CASE call.op # "add"
  <2>1. /\ i \in 0..len - 1
        /\ Abstract!Hits(call.rule) # {}
        /\ Abstract!FirstOf(Abstract!Hits(call.rule)) = i + 1
    BY <1>4, FoundFirst
  <2>2. CASE call.op = "find"
    <3>1. last' = Abstract!Answer("find", call.rule, i) /\ UNCHANGED List
      BY <1>1, <2>2 DEF Found, Return, Answer, Abstract!Answer, List
    <3>2. Abstract!Find(call.rule)
      BY <2>1, <3>1 DEF Abstract!Find, List
    <3> QED
      BY <1>1, <1>2, <3>2, CallIsStep
  <2>3. CASE call.op = "exist"
    <3>1. last' = Abstract!Answer("exist", call.rule, 1) /\ UNCHANGED List
      BY <1>1, <2>3 DEF Found, Return, Answer, Abstract!Answer, List
    <3>2. Abstract!Exist(call.rule)
      BY <2>1, <3>1 DEF Abstract!Exist, List
    <3> QED
      BY <1>1, <1>2, <3>2, CallIsStep
  <2>4. CASE call.op = "del"
    <3>1. last' = Abstract!Answer("del", call.rule, 0) /\ len' = len - 1 /\ list' = MoveDown(i)
      BY <1>1, <2>4 DEF Found, Return, Answer, Abstract!Answer
    <3>2. List' = Abstract!Removed(i + 1)
      BY <2>1, <3>1, RemovedIs DEF IInv
    <3>3. PICK r \in Rules : r = call.rule
      BY <1>1
    <3>4. Abstract!Del(r)
      BY <2>1, <3>1, <3>2, <3>3 DEF Abstract!Del, List
    <3> QED
      BY <1>1, <1>2, <3>4, CallIsStep
  <2> QED
    BY <1>1, <1>4, <2>2, <2>3, <2>4 DEF Ops
<1> QED
  BY <1>3, <1>4

(* Not found: a rule is added where the list puts it, the other calls say  *)
(* so.                                                                     *)
LEMMA PlaceRefines ==
  ASSUME IInv, AskedPri, ScanMiss, call.op = "add"
  PROVE  Abstract!Next
<1>1. /\ pc # "none" /\ call.rule \in Rules /\ len \in Nat /\ idx \in 0..len /\ len < cap
      /\ Len(List) = len /\ \A k \in 1..len : List[k] = list[k - 1]
  BY ListLen DEF ScanMiss, IInv, CallLocals, TypeOK, AddHasRoom
<1>2. /\ pc' # "none" /\ len' = len + 1
      /\ list' = [MoveUp(idx) EXCEPT ![idx] = call.rule]
      /\ last' = Abstract!Answer("add", call.rule, 0)
  BY DEF ScanMiss, NotFound, Return, Answer, Abstract!Answer
<1>3. \A k \in 1..len : ~(List[k].pri = call.rule.pri /\ List[k].range = call.rule.range)
  BY <1>1, NoTwin DEF ScanMiss, Used
<1>4. /\ \A k \in 0..idx - 1 : list[k].pri <= call.rule.pri
      /\ \A k \in idx..len - 1 : call.rule.pri < list[k].pri
  BY DEF ScanMiss, IInv, Bracket
<1>5. call.rule.pri \in Nat /\ \A k \in 0..len - 1 : list[k].pri \in Nat
  BY <1>1, RulesHavePri DEF IInv, UsedSlotsHoldRules, Used
<1>6. \A k \in 1..len : k < idx + 1 <=> List[k].pri <= call.rule.pri
  BY <1>1, <1>4, <1>5
<1>7. List' = Abstract!Inserted(idx + 1, call.rule)
  BY <1>1, <1>2, InsertedIs DEF IInv
<1>8. \E p \in 1..Len(List) + 1 :
        /\ \A k \in 1..Len(List) : k < p <=> List[k].pri <= call.rule.pri
        /\ List' = Abstract!Inserted(p, call.rule)
  <2>1. idx + 1 \in 1..Len(List) + 1
    BY <1>1
  <2> QED
    BY <2>1, <1>1, <1>6, <1>7
<1>9. PICK r \in Rules : r = call.rule
  BY <1>1
<1>10. Abstract!Add(r)
  BY <1>1, <1>2, <1>3, <1>8, <1>9, Zenon DEF Abstract!Add, List
<1> QED
  BY <1>1, <1>2, <1>10, CallIsStep

LEMMA NotFoundRefines ==
  ASSUME IInv, AskedPri, ScanMiss \/ SweepMiss, call.op # "add"
  PROVE  Abstract!Next
<1>1. /\ pc # "none" /\ NotFound
      /\ call.op \in Ops /\ call.rule \in Rules
  BY DEF ScanMiss, SweepMiss, IInv, CallLocals
<1>2. pc' # "none" /\ UNCHANGED List
  BY <1>1 DEF NotFound, Return, Ops, List
<1>3. Abstract!Hits(call.rule) = {}
  BY MissNone
<1>4. CASE call.op = "find"
  <2>1. last' = Abstract!Answer("find", call.rule, -3)
    BY <1>1, <1>4 DEF NotFound, Return, Answer, Abstract!Answer, HS_RULE_NOT_FOUND
  <2>2. Abstract!Find(call.rule)
    BY <1>2, <1>3, <2>1 DEF Abstract!Find, List
  <2> QED
    BY <1>1, <1>2, <2>2, CallIsStep
<1>5. CASE call.op = "exist"
  <2>1. last' = Abstract!Answer("exist", call.rule, 0)
    BY <1>1, <1>5 DEF NotFound, Return, Answer, Abstract!Answer
  <2>2. Abstract!Exist(call.rule)
    BY <1>2, <1>3, <2>1 DEF Abstract!Exist, List
  <2> QED
    BY <1>1, <1>2, <2>2, CallIsStep
<1>6. CASE call.op = "del"
  <2>1. last' = Abstract!Answer("del", call.rule, -3)
    BY <1>1, <1>6 DEF NotFound, Return, Answer, Abstract!Answer, HS_RULE_NOT_FOUND
  <2>2. PICK r \in Rules : r = call.rule
    BY <1>1
  <2>3. Abstract!Del(r)
    BY <1>2, <1>3, <2>1, <2>2 DEF Abstract!Del, List
  <2> QED
    BY <1>1, <1>2, <2>3, CallIsStep
<1> QED
  BY <1>1, <1>4, <1>5, <1>6 DEF Ops

-----------------------------------------------------------------------------
(* Init and free are the list's Open and Close.                            *)
LEMMA CtxInitRefines ==
  ASSUME NEW size \in Sizes, CtxInit(size)
  PROVE  Abstract!Open
<1>1. pc = "none" /\ [k \in 1..len |-> list[k - 1]]' = <<>>
  BY DEF CtxInit
<1>2. \/ pc' # "none" /\ last' = Abstract!Answer("init", Blank, 0)
      \/ pc' = "none" /\ last' = Abstract!Answer("init", Blank, -1)
  BY DEF CtxInit, Answer, Abstract!Answer
<1> QED
  BY <1>1, <1>2 DEF Abstract!Open

LEMMA CtxFreeRefines == ASSUME CtxFree PROVE Abstract!Close
<1>1. pc # "none" /\ pc' = "none" /\ [k \in 1..len |-> list[k - 1]]' = <<>>
  BY DEF CtxFree, Emptied
<1>2. last' = Abstract!Answer("free", Blank, 0)
  BY DEF CtxFree, Answer, Abstract!Answer
<1> QED
  BY <1>1, <1>2 DEF Abstract!Close

LEMMA AddRuleNoMemoryRefines ==
  ASSUME NEW r \in Rules, AddRuleNoMemory(r)
  PROVE  Abstract!Next
<1>1. pc # "none" /\ pc' # "none" /\ UNCHANGED List
  BY DEF AddRuleNoMemory, List
<1>2. Abstract!AddNoMemory(r)
  BY <1>1 DEF AddRuleNoMemory, Answer, Abstract!AddNoMemory, Abstract!Answer, List
<1> QED
  BY <1>1, <1>2, CallIsStep

LEMMA DelWithIdxRefines ==
  ASSUME NEW k \in 0..cap - 1, IInv, DelWithIdx(k)
  PROVE  Abstract!Next
<1>1. pc # "none" /\ pc' # "none" /\ len \in Nat /\ k \in 0..len - 1
  BY DEF DelWithIdx, IInv, TypeOK
<1>2. Len(List) = len /\ List[k + 1] = list[k] /\ k + 1 \in 1..Len(List)
  BY <1>1, ListLen DEF IInv
<1>3. List' = Abstract!Removed(k + 1)
  BY <1>1, RemovedIs DEF DelWithIdx, IInv
<1>4. PICK p \in 1..Len(List) : p = k + 1
  BY <1>2
<1>5. Abstract!DelWithIdx(p)
  BY <1>1, <1>2, <1>3, <1>4 DEF DelWithIdx, Answer, Abstract!DelWithIdx, Abstract!Answer, List
<1>6. UNCHANGED (pc # "none")
  BY <1>1
<1> QED
  BY <1>1, <1>5, <1>6 DEF Abstract!Next, List

LEMMA StepRefines ==
  ASSUME IInv, AskedPri, [Next]_vars
  PROVE  [Abstract!Next]_(Abstract!vars)
<1>1. CASE UNCHANGED vars
  BY <1>1 DEF vars, Abstract!vars
<1>2. ASSUME NEW size \in Sizes, CtxInit(size) PROVE Abstract!Next
  BY <1>2, CtxInitRefines DEF Abstract!Next
<1>3. CASE CtxFree
  BY <1>3, CtxFreeRefines DEF Abstract!Next
<1>4. ASSUME NEW r \in Rules, AddRule(r) PROVE UNCHANGED Abstract!vars
  BY <1>4, AddRuleRefines
<1>5. ASSUME NEW r \in Rules, AddRuleNoMemory(r) PROVE Abstract!Next
  BY <1>5, AddRuleNoMemoryRefines
<1>6. ASSUME NEW op \in Ops, NEW r \in Rules, Ask(op, r) PROVE UNCHANGED Abstract!vars
  BY <1>6, SameList DEF Ask, BeginSearch
<1>7. ASSUME NEW k \in 0..cap - 1, DelWithIdx(k) PROVE Abstract!Next
  BY <1>7, DelWithIdxRefines
<1>8. CASE UpperBoundStep \/ UpperBoundDone \/ ScanNext \/ SweepNext
  BY <1>8, SameList DEF UpperBoundStep, UpperBoundDone, ScanNext, SweepNext
<1>9. CASE ScanHit \/ SweepHit
  BY <1>9, FoundRefines
<1>10. CASE ScanMiss \/ SweepMiss
  <2>1. CASE call.op = "add"
    BY <1>10, <2>1, PlaceRefines DEF SweepMiss, IInv, ScanPassed
  <2>2. CASE call.op # "add"
    BY <1>10, <2>2, NotFoundRefines
  <2> QED
    BY <2>1, <2>2
<1> QED
  BY <1>1, <1>2, <1>3, <1>4, <1>5, <1>6, <1>7, <1>8, <1>9, <1>10 DEF Next, Running

(* Every call of rule.c's table, in any order and with any outcome of the  *)
(* allocator, answers and changes the table as AclList's call does.        *)
THEOREM TableImplementsList == Spec => ImplementsList
<1>1. Init => AskedPri /\ Abstract!Init
  <2>1. Init => [k \in 1..len |-> list[k - 1]] = <<>>
    BY DEF Init
  <2> QED
    BY <2>1 DEF Init, AskedPri, NoCall, Answer, Abstract!Init, Abstract!Answer
<1>2. Spec => []AskedPri
  <2>1. IInv /\ AskedPri /\ [Next]_vars => AskedPri'
    BY AskedPriStep
  <2> QED
    BY <1>1, <2>1, TableInvariant, PTL DEF Spec
<1>3. IInv /\ AskedPri /\ [Next]_vars => [Abstract!Next]_(Abstract!vars)
  BY StepRefines
<1> QED
  BY <1>1, <1>2, <1>3, TableInvariant, PTL DEF Spec, ImplementsList, Abstract!Spec
=============================================================================
