------------------------------ MODULE RuleTable -------------------------------
(***************************************************************************)
(* The rule table of rule.c (hs_acl_ctx_t): a growable array of rules kept *)
(* sorted by priority.  Every call of the API is a run of steps: the       *)
(* binary search upper_bound, one step per iteration; the backward scan    *)
(* over the rules of one priority, or the forward scan over all of them    *)
(* for the wildcard priority; and the memmove that opens or closes a slot. *)
(*                                                                         *)
(* list is the memory behind ruleList, slot 0 first; Blank is a slot that  *)
(* holds no rule: calloc's zeroes, what realloc leaves beyond the old end, *)
(* or the copy of the last rule a delete leaves behind at the old length.  *)
(* Whatever such a slot holds, no call reads it before writing it, which   *)
(* SlotsSound and the array accesses of the steps check.                   *)
(***************************************************************************)
EXTENDS AclRules

CONSTANTS Rules,    \* the rules the user passes to the calls
          Sizes,    \* the initial sizes given to hs_acl_ctx_init
          Blank     \* an array slot no rule was written to

ASSUME RulesAssumption == Rules \subseteq Rule
(* A table of size 0 can never grow: hs_rule_add doubles the capacity.     *)
ASSUME SizesAssumption == Sizes \subseteq Nat \ {0}
ASSUME BlankAssumption == Blank \notin Rule

VARIABLES
  pc,      \* where the call in progress is; "ready" between calls
  cap,     \* rs_slice.cap
  len,     \* rs_slice.len
  list,    \* rs_slice.ruleList, a function on 0..cap-1
  call,    \* [op, rule] of the call in progress, NoCall between calls
  idx,     \* i in upper_bound, then its result
  count,   \* count in upper_bound
  i,       \* the cursor of the two scans
  last     \* [op, rule, ret]: the answer of the last completed call

vars == <<pc, cap, len, list, call, idx, count, i, last>>

HS_RULE_NOT_FOUND == -3
HS_RULE_EXIST     == -2

Ops == {"add", "find", "exist", "del"}

NoCall == [op |-> "none", rule |-> Blank]

Answer(op, r, ret) == [op |-> op, rule |-> r, ret |-> ret]

(* The call in progress returns ret, and its locals are gone.              *)
Return(ret) ==
  /\ pc' = "ready"
  /\ last' = Answer(call.op, call.rule, ret)
  /\ call' = NoCall
  /\ idx' = 0 /\ count' = 0 /\ i' = 0

-----------------------------------------------------------------------------
(* Mutants (see PROJECT.json): slips the runs must notice.                 *)
GoesRight_Strict(r, x) == r.pri > x.pri
GoesRight_Reversed(r, x) == r.pri < x.pri
NarrowRight_KeepsPos(pos, step) == idx' = pos /\ count' = count - step
MoveUp_ShortByOne(k) ==
  [j \in DOMAIN list |-> IF j \in k + 1..len - 1 THEN list[j - 1] ELSE list[j]]
MoveDown_FromNext(k) ==
  [j \in DOMAIN list |->
     IF j \in k + 1..len - 2 THEN list[j + 1] ELSE IF j = len - 1 THEN Blank ELSE list[j]]
Emptied_KeepsLen == cap' = 0 /\ len' = len /\ list' = [k \in {} |-> Blank]

-----------------------------------------------------------------------------
(* Life cycle.                                                             *)

Init == /\ pc = "none"
        /\ cap = 0 /\ len = 0 /\ list = [k \in {} |-> Blank]
        /\ call = NoCall
        /\ idx = 0 /\ count = 0 /\ i = 0
        /\ last = Answer("start", Blank, 0)

(* hs_acl_ctx_init: calloc may return NULL; the table is then not usable.  *)
CtxInit(size) ==
  /\ pc = "none"
  /\ \/ /\ pc' = "ready" /\ cap' = size
        /\ list' = [k \in 0..size - 1 |-> Blank]
        /\ last' = Answer("init", Blank, 0)
     \/ /\ last' = Answer("init", Blank, -1)
        /\ UNCHANGED <<pc, cap, list>>
  /\ len' = 0
  /\ UNCHANGED <<call, idx, count, i>>

Emptied == cap' = 0 /\ len' = 0 /\ list' = [k \in {} |-> Blank]

(* hs_acl_ctx_free                                                         *)
CtxFree ==
  /\ pc = "ready"
  /\ pc' = "none" /\ Emptied
  /\ last' = Answer("free", Blank, 0)
  /\ UNCHANGED <<call, idx, count, i>>

-----------------------------------------------------------------------------
(* Entering a call.                                                        *)

BeginSearch(op, r) ==
  /\ pc' = "search"
  /\ call' = [op |-> op, rule |-> r]
  /\ idx' = 0 /\ count' = len
  /\ UNCHANGED <<i, last>>

Full == len = cap

(* hs_acl_ctx_realloc to twice the capacity; the new slots are blank.      *)
Grow == /\ cap' = cap * 2
        /\ list' = [k \in 0..cap * 2 - 1 |-> IF k < cap THEN list[k] ELSE Blank]

(* hs_rule_add makes room first, before it knows whether the rule is new.  *)
AddRule(r) ==
  /\ pc = "ready"
  /\ BeginSearch("add", r)
  /\ IF Full THEN Grow ELSE UNCHANGED <<cap, list>>
  /\ UNCHANGED len

AddRuleNoMemory(r) ==
  /\ pc = "ready"
  /\ Full
  /\ last' = Answer("add", r, -1)
  /\ UNCHANGED <<pc, cap, len, list, call, idx, count, i>>

(* hs_rule_find, hs_rule_exist and hs_rule_del choose the search by the    *)
(* priority asked for.                                                     *)
Ask(op, r) ==
  /\ pc = "ready"
  /\ op \in {"find", "exist", "del"}
  /\ IF r.pri # UINT32_MAX
       THEN BeginSearch(op, r)
       ELSE /\ pc' = "sweep" /\ i' = 0
            /\ call' = [op |-> op, rule |-> r]
            /\ UNCHANGED <<idx, count, last>>
  /\ UNCHANGED <<cap, len, list>>

-----------------------------------------------------------------------------
(* upper_bound: the first index whose priority is larger than the rule's.  *)

GoesRight(r, x) == ~(r.pri < x.pri)

NarrowRight(pos, step) == idx' = pos + 1 /\ count' = count - (step + 1)

UpperBoundStep ==
  /\ pc = "search" /\ count > 0
  /\ LET step == count \div 2
         pos  == idx + step
     IN  IF GoesRight(call.rule, list[pos])
           THEN NarrowRight(pos, step)
           ELSE count' = step /\ UNCHANGED idx
  /\ UNCHANGED <<pc, cap, len, list, call, i, last>>

ScanStart == idx - 1

(* Every caller goes on backwards from the bound; for a bound of 0 there   *)
(* is nothing to scan and the scan ends at once.                           *)
UpperBoundDone ==
  /\ pc = "search" /\ count = 0
  /\ pc' = "scan" /\ i' = ScanStart
  /\ UNCHANGED <<cap, len, list, call, idx, count, last>>

-----------------------------------------------------------------------------
(* The backward scan over the rules of the same priority, shared by        *)
(* hs_rule_add, hs_rule_exist_with_pri and hs_rule_find_with_pri.          *)

SamePri(x) == x.pri = call.rule.pri

(* memmove [k, tail] -> [k+1, tail+1]                                      *)
MoveUp(k) ==
  [j \in DOMAIN list |-> IF j \in k + 1..len THEN list[j - 1] ELSE list[j]]

(* memmove [k+1, tail] -> [k, tail-1]; the last slot falls out of use.     *)
MoveDown(k) ==
  [j \in DOMAIN list |->
     IF j \in k..len - 2 THEN list[j + 1] ELSE IF j = len - 1 THEN Blank ELSE list[j]]

(* A scan that found the rule at slot i.  hs_rule_del goes on to call the  *)
(* user's delf (which must leave the table alone) and to remove the slot.  *)
Found ==
  CASE call.op = "add"   -> Return(HS_RULE_EXIST) /\ UNCHANGED <<len, list>>
    [] call.op = "exist" -> Return(1) /\ UNCHANGED <<len, list>>
    [] call.op = "find"  -> Return(i) /\ UNCHANGED <<len, list>>
    [] call.op = "del"   -> Return(0) /\ len' = len - 1 /\ list' = MoveDown(i)

NotFound ==
  CASE call.op = "add"   -> /\ Return(0) /\ len' = len + 1
                            /\ list' = [MoveUp(idx) EXCEPT ![idx] = call.rule]
    [] call.op = "exist" -> Return(0) /\ UNCHANGED <<len, list>>
    [] call.op = "find"  -> Return(HS_RULE_NOT_FOUND) /\ UNCHANGED <<len, list>>
    [] call.op = "del"   -> Return(HS_RULE_NOT_FOUND) /\ UNCHANGED <<len, list>>

ScanHit ==
  /\ pc = "scan" /\ i >= 0
  /\ SamePri(list[i]) /\ RuleIsEqual(list[i], call.rule)
  /\ Found
  /\ UNCHANGED cap

ScanNext ==
  /\ pc = "scan" /\ i >= 0
  /\ SamePri(list[i]) /\ ~RuleIsEqual(list[i], call.rule)
  /\ i' = i - 1
  /\ UNCHANGED <<pc, cap, len, list, call, idx, count, last>>

ScanMiss ==
  /\ pc = "scan"
  /\ i >= 0 => ~SamePri(list[i])
  /\ NotFound
  /\ UNCHANGED cap

-----------------------------------------------------------------------------
(* The forward scan of hs_rule_find and hs_rule_exist for the wildcard.    *)

SweepHit ==
  /\ pc = "sweep" /\ i < len
  /\ RuleIsEqual(list[i], call.rule)
  /\ Found
  /\ UNCHANGED cap

SweepNext ==
  /\ pc = "sweep" /\ i < len
  /\ ~RuleIsEqual(list[i], call.rule)
  /\ i' = i + 1
  /\ UNCHANGED <<pc, cap, len, list, call, idx, count, last>>

SweepMiss ==
  /\ pc = "sweep" /\ i = len
  /\ NotFound
  /\ UNCHANGED cap

(* hs_rule_del_with_idx; the caller owes an index that is in the table.    *)
DelWithIdx(k) ==
  /\ pc = "ready"
  /\ k < len
  /\ len' = len - 1 /\ list' = MoveDown(k)
  /\ last' = Answer("delidx", list[k], 0)
  /\ UNCHANGED <<pc, cap, call, idx, count, i>>

-----------------------------------------------------------------------------
Running == \/ UpperBoundStep \/ UpperBoundDone
           \/ ScanHit \/ ScanNext \/ ScanMiss
           \/ SweepHit \/ SweepNext \/ SweepMiss

Next == \/ \E size \in Sizes : CtxInit(size)
        \/ CtxFree
        \/ \E r \in Rules : AddRule(r) \/ AddRuleNoMemory(r)
        \/ \E op \in Ops, r \in Rules : Ask(op, r)
        \/ \E k \in 0..cap - 1 : DelWithIdx(k)
        \/ Running

Spec == Init /\ [][Next]_vars

(* A call that was entered is executed: nothing suspends it.               *)
FairSpec == Spec /\ WF_vars(Running)

-----------------------------------------------------------------------------
(* The cursors stay inside the array while a call runs, and a table that   *)
(* is open has room for at least one rule.                                 *)
TypeOK ==
  /\ pc \in {"none", "ready", "search", "scan", "sweep"}
  /\ cap \in Nat /\ (cap = 0 <=> pc = "none")
  /\ len \in 0..cap
  /\ list \in [0..cap - 1 -> Rule \union {Blank}]
  /\ call \in [op : Ops \union {"none"}, rule : Rules \union {Blank}]
  /\ idx \in 0..len /\ count \in 0..len /\ i \in -1..len

Used == 0..len - 1

(* No growing, moving or deleting lets a call read a slot never written.   *)
UsedSlotsHoldRules == \A k \in Used : list[k] \in Rules

(* The array is in priority order after every step, which is what the      *)
(* binary search of the next call and linear_search's "first match is best *)
(* match" rely on.                                                         *)
Sorted == \A j, k \in Used : j <= k => list[j].pri <= list[k].pri

(* hs_rule_add refuses a rule whose priority and ranges are already there, *)
(* although it compares the new rule with the rules of one priority only.  *)
NoDuplicates ==
  \A j, k \in Used : list[j].pri = list[k].pri /\ list[j].range = list[k].range
                      => j = k

(* A rule being added has a free slot to go to, whatever doubled or failed *)
(* to double the capacity before.                                          *)
AddHasRoom == pc \in {"search", "scan"} /\ call.op = "add" => len < cap

(* Every slot below len holds a rule that was added, and an add under way  *)
(* has a slot to go to: across growth, failed growth and the memmoves.     *)
SlotsSound == UsedSlotsHoldRules /\ AddHasRoom

(* upper_bound brackets its answer: priorities below the cursor are not    *)
(* larger than the rule's, those beyond the window are larger; when the    *)
(* window closes the cursor is the answer, and the scan starts from there. *)
Bracket ==
  pc \in {"search", "scan"} =>
    LET hi == IF pc = "search" THEN idx + count ELSE idx
    IN  /\ hi <= len
        /\ \A k \in 0..idx - 1 : list[k].pri <= call.rule.pri
        /\ \A k \in hi..len - 1 : call.rule.pri < list[k].pri

(* What a scan has passed over holds no rule the call asked for.           *)
ScanPassed ==
  /\ pc = "scan" =>
       /\ i < idx
       /\ \A k \in i + 1..idx - 1 : /\ list[k].pri = call.rule.pri
                                     /\ list[k].range # call.rule.range
  /\ pc = "sweep" =>
       /\ i >= 0 /\ call.op # "add" /\ call.rule.pri = UINT32_MAX
       /\ \A k \in 0..i - 1 : list[k].range # call.rule.range

(* The locals belong to a call: it names an operation and a rule, and      *)
(* nothing of it is left when it has returned.                             *)
CallLocals ==
  /\ pc \in {"search", "scan", "sweep"} => call.op \in Ops /\ call.rule \in Rules
  /\ pc \in {"none", "ready"} => idx = 0 /\ count = 0 /\ i = 0

(* The inductive invariant.                                                *)

IInv == /\ TypeOK /\ UsedSlotsHoldRules /\ Sorted /\ NoDuplicates
        /\ AddHasRoom /\ Bracket /\ ScanPassed /\ CallLocals

-----------------------------------------------------------------------------
(* The array implements the abstract list: every call takes effect when it *)
(* returns, with the answer the list calls for.                            *)
Abstract == INSTANCE AclList WITH open <- pc # "none",
                                  acl  <- [k \in 1..len |-> list[k - 1]],
                                  NoRule <- Blank
ImplementsList == Abstract!Spec

(* Every call returns: the two loops of upper_bound's callers and its own  *)
(* come to an end for every table and every rule.                          *)
CallsReturn == (pc \in {"search", "scan", "sweep"}) ~> (pc = "ready")
=============================================================================
