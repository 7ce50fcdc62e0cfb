------------------------------- MODULE AclList --------------------------------
(***************************************************************************)
(* What a rule table promises its user, whatever it is made of: a list of  *)
(* rules kept in priority order, rules of one priority in the order they   *)
(* were added, no rule twice, and calls whose answers are functions of     *)
(* that list.  RuleTable (the array of rule.c) is shown to implement it.   *)
(*                                                                         *)
(* "acl" is the list while the table is open; "last" is the answer of the  *)
(* most recently completed call.                                           *)
(***************************************************************************)
EXTENDS AclRules, Sequences

CONSTANTS Rules,      \* the rules the user ever passes
          NoRule      \* the rule argument of a call that takes none

VARIABLES open, acl, last

vars == <<open, acl, last>>

Answer(op, r, ret) == [op |-> op, rule |-> r, ret |-> ret]

(* The rules of the list a call on r refers to: those with r's ranges and  *)
(* r's priority, or any priority when r's is the wildcard.                 *)
Hits(r) == {k \in 1..Len(acl) :
              /\ acl[k].range = r.range
              /\ r.pri = UINT32_MAX \/ acl[k].pri = r.pri}

FirstOf(S) == CHOOSE k \in S : \A j \in S : k <= j

Inserted(p, r) == [k \in 1..(Len(acl) + 1) |->
                     IF k < p THEN acl[k] ELSE IF k = p THEN r ELSE acl[k - 1]]

Removed(p) == [k \in 1..(Len(acl) - 1) |-> IF k < p THEN acl[k] ELSE acl[k + 1]]

Init == /\ open = FALSE
        /\ acl = <<>>
        /\ last = Answer("start", NoRule, 0)

Open == /\ ~open
        /\ acl' = <<>>
        /\ \/ open' = TRUE  /\ last' = Answer("init", NoRule, 0)
           \/ open' = FALSE /\ last' = Answer("init", NoRule, -1)

Close == /\ open
         /\ open' = FALSE
         /\ acl' = <<>>
         /\ last' = Answer("free", NoRule, 0)

(* A rule goes behind every rule of its own or a smaller priority and in   *)
(* front of every rule of a larger one.                                    *)
Add(r) ==
  /\ \A k \in 1..Len(acl) : ~(acl[k].pri = r.pri /\ acl[k].range = r.range)
  /\ \E p \in 1..(Len(acl) + 1) :
       /\ \A k \in 1..Len(acl) : k < p <=> acl[k].pri <= r.pri
       /\ acl' = Inserted(p, r)
  /\ last' = Answer("add", r, 0)

AddDuplicate(r) ==
  /\ \E k \in 1..Len(acl) : acl[k].pri = r.pri /\ acl[k].range = r.range
  /\ last' = Answer("add", r, -2)
  /\ UNCHANGED acl

(* Memory may run out before the table has looked at the rule.             *)
AddNoMemory(r) == last' = Answer("add", r, -1) /\ UNCHANGED acl

Find(r) ==
  /\ UNCHANGED acl
  /\ last' = Answer("find", r, IF Hits(r) = {} THEN -3 ELSE FirstOf(Hits(r)) - 1)

Exist(r) ==
  /\ UNCHANGED acl
  /\ last' = Answer("exist", r, IF Hits(r) = {} THEN 0 ELSE 1)

Del(r) ==
  IF Hits(r) = {}
    THEN UNCHANGED acl /\ last' = Answer("del", r, -3)
    ELSE acl' = Removed(FirstOf(Hits(r))) /\ last' = Answer("del", r, 0)

DelWithIdx(k) == acl' = Removed(k) /\ last' = Answer("delidx", acl[k], 0)

Next ==
  \/ Open
  \/ Close
  \/ /\ open
     /\ UNCHANGED open
     /\ \/ \E r \in Rules : \/ Add(r) \/ AddDuplicate(r) \/ AddNoMemory(r)
                            \/ Find(r) \/ Exist(r) \/ Del(r)
        \/ \E k \in 1..Len(acl) : DelWithIdx(k)

Spec == Init /\ [][Next]_vars
=============================================================================
