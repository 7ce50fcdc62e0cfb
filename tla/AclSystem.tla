------------------------------ MODULE AclSystem -------------------------------
(***************************************************************************)
(* A rule table, a view of it and a tree built from the view, used         *)
(* together.  rule_set_init does not copy: the view, and after             *)
(* hs_build_tree the root of the tree, point into the table's array, which *)
(* the table's own calls move, shift and free.                             *)
(*                                                                         *)
(* Every call is one step here (RuleTable and HyperSplit take them apart), *)
(* except hs_rule_del, which calls the user's delf between finding a rule  *)
(* and removing it by its index.  Nothing limits what delf may do to the   *)
(* table in between.                                                       *)
(*                                                                         *)
(* Memory is a set of addresses.  A freed one may be handed out again, so  *)
(* an old pointer may come to point at a new array.                        *)
(***************************************************************************)
EXTENDS AclRules, FiniteSets, Sequences

CONSTANTS Rules,       \* the rules the user adds
          Asks,        \* the rules the user asks to delete
          Sizes,       \* the initial sizes given to hs_acl_ctx_init
          Addresses,   \* where a table's array may lie
          Null,        \* the null pointer
          Blank        \* an array slot no rule was written to

ASSUME RulesAssumption == Rules \subseteq Rule /\ Asks \subseteq Rule
ASSUME SizesAssumption == Sizes \subseteq Nat \ {0}
ASSUME NullAssumption == Null \notin Addresses
(* remove_redund drops rules of the lowest priority (see HyperSplit).      *)
ASSUME LowestAssumption == \A r \in Rules : r.pri # UINT32_MAX

VARIABLES
  mem,      \* the array at each address, a function on 0..cap-1, or Freed
  tab, len, \* rs_slice.ruleList and rs_slice.len
  view,     \* the user's rule_set_t: [num, list, cur]
  tree,     \* the root of the tree: [num, list, cur], or NoTree
  del,      \* the delete in its callback: [rule, at, found], or NoDel
  released, \* auxiliary: the rules delf saw, whose entries it may have freed
  astray,   \* auxiliary: rules found by deletes that then removed another one
  last,     \* [op, rule, ret]: the answer of the last completed call
  crashed

vars == <<mem, tab, len, view, tree, del, released, astray, last, crashed>>

(* A freed address has no slot that may be read.                           *)
Freed == <<>>

(* "cur" is auxiliary: the pointer was taken since the last hs_acl_ctx_init.*)
(* "found" is auxiliary: the rule at the index when hs_rule_find returned. *)
NoView == [num |-> 0, list |-> Null, cur |-> FALSE]
NoTree == [num |-> -1, list |-> Null, cur |-> FALSE]
NoDel  == [rule |-> Blank, at |-> -1, found |-> Blank]

Answer(op, r, ret) == [op |-> op, rule |-> r, ret |-> ret]

open  == tab # Null
slots == mem[tab]
cap   == Cardinality(DOMAIN slots)
Table == [k \in 1..len |-> slots[k - 1]]

(* A list may be read through a pointer when all its rules are there.      *)
Readable(p) ==
  \/ p.num = 0
  \/ /\ p.list # Null
     /\ 0..p.num - 1 \subseteq DOMAIN mem[p.list]
     /\ \A k \in 0..p.num - 1 : mem[p.list][k] \in Rules

-----------------------------------------------------------------------------
(* Mutants (see PROJECT.json): slips the runs must notice.                 *)
GoesBefore_Ties(x, r) == x.pri < r.pri
SeenByDelf_Next(k) == slots[IF k + 1 < len THEN k + 1 ELSE k]
ViewOf_Capacity == [num |-> IF open THEN cap ELSE 0, list |-> tab, cur |-> TRUE]
FreedLists_FromRoot == {tree.list}

-----------------------------------------------------------------------------
Init == /\ mem = [a \in Addresses |-> Freed] /\ tab = Null /\ len = 0
        /\ view = NoView /\ tree = NoTree /\ del = NoDel
        /\ released = {} /\ astray = {} /\ last = Answer("start", Blank, 0)
        /\ crashed = FALSE

CtxInit(size) ==
  /\ ~open
  /\ \/ \E a \in Addresses :
          /\ mem[a] = Freed
          /\ mem' = [mem EXCEPT ![a] = [k \in 0..size - 1 |-> Blank]]
          /\ tab' = a /\ last' = Answer("init", Blank, 0)
     \/ last' = Answer("init", Blank, -1) /\ UNCHANGED <<mem, tab>>
  /\ UNCHANGED <<len, view, tree, del, released, astray>>

CtxFree ==
  /\ open
  /\ mem' = [mem EXCEPT ![tab] = Freed] /\ tab' = Null /\ len' = 0
  /\ view' = [view EXCEPT !.cur = FALSE] /\ tree' = [tree EXCEPT !.cur = FALSE]
  /\ released' = {} /\ astray' = {} /\ last' = Answer("free", Blank, 0)
  /\ UNCHANGED del

-----------------------------------------------------------------------------
(* hs_rule_add: a full array doubles, in place or elsewhere, before the    *)
(* rule is known to be new.                                                *)

Twin(r) == \E k \in 0..len - 1 : slots[k].pri = r.pri /\ slots[k].range = r.range

GoesBefore(x, r) == x.pri <= r.pri
UpperBound(r) == Cardinality({k \in 0..len - 1 : GoesBefore(slots[k], r)})

WithRule(s, r) ==
  LET p == UpperBound(r)
  IN  IF Twin(r) THEN s
      ELSE [k \in DOMAIN s |-> IF k = p THEN r
                               ELSE IF k \in p + 1..len THEN s[k - 1] ELSE s[k]]

Doubled == [k \in 0..2 * cap - 1 |-> IF k < cap THEN slots[k] ELSE Blank]

Add(r) ==
  /\ open
  /\ \/ len < cap /\ mem' = [mem EXCEPT ![tab] = WithRule(@, r)] /\ UNCHANGED tab
     \/ /\ len = cap
        /\ \E b \in {b \in Addresses : b = tab \/ mem[b] = Freed} :
             /\ mem' = [a \in Addresses |-> IF a = b THEN WithRule(Doubled, r)
                                            ELSE IF a = tab THEN Freed ELSE mem[a]]
             /\ tab' = b
  /\ len' = IF Twin(r) THEN len ELSE len + 1
  /\ last' = Answer("add", r, IF Twin(r) THEN -2 ELSE 0)
  /\ released' = IF Twin(r) THEN released ELSE released \ {r}
  /\ astray' = IF Twin(r) THEN astray ELSE astray \ {r}
  /\ UNCHANGED <<view, tree, del>>

AddNoMemory(r) ==
  /\ open /\ len = cap
  /\ last' = Answer("add", r, -1)
  /\ UNCHANGED <<mem, tab, len, view, tree, del, released, astray>>

-----------------------------------------------------------------------------
(* hs_rule_del.                                                            *)

Hit(r) == {k \in 0..len - 1 : RuleIsEqual(slots[k], r)}

IsFirstHit(k, r) == k \in Hit(r) /\ \A j \in Hit(r) : k <= j

SeenByDelf(k) == slots[k]

DelFind(r) ==
  /\ open /\ del = NoDel
  /\ \E k \in Hit(r) :
       /\ IsFirstHit(k, r)
       /\ del' = [rule |-> r, at |-> k, found |-> slots[k]]
       /\ released' = released \union {SeenByDelf(k)}
  /\ UNCHANGED <<mem, tab, len, view, tree, astray, last>>

DelMissing(r) ==
  /\ open /\ del = NoDel /\ Hit(r) = {}
  /\ last' = Answer("del", r, -3)
  /\ UNCHANGED <<mem, tab, len, view, tree, del, released, astray>>

(* hs_rule_del_with_idx.  The last slot keeps what it held.                *)
RemoveAt(k) ==
  /\ mem' = [mem EXCEPT ![tab] =
               [j \in DOMAIN @ |-> IF j \in k..len - 2 THEN @[j + 1] ELSE @[j]]]
  /\ len' = len - 1

(* What is at the index by now is removed.                                 *)
DelRemove ==
  /\ del # NoDel /\ del.at < len
  /\ RemoveAt(del.at)
  /\ astray' = IF slots[del.at] = del.found THEN astray ELSE astray \union {del.found}
  /\ del' = NoDel /\ last' = Answer("del", del.rule, 0)
  /\ UNCHANGED <<tab, view, tree, released>>

(* The callback left nothing at the index: memmove is called for a negative*)
(* number of rules.                                                        *)
DelCrash ==
  /\ del # NoDel /\ del.at >= len
  /\ crashed' = TRUE
  /\ UNCHANGED <<mem, tab, len, view, tree, del, released, astray, last>>

DelWithIdx(k) ==
  /\ k < len
  /\ RemoveAt(k)
  /\ last' = Answer("delidx", slots[k], 0)
  /\ UNCHANGED <<tab, view, tree, del, released, astray>>

-----------------------------------------------------------------------------
(* rule_set_init and rule_set_free.                                        *)
ViewOf == [num |-> len, list |-> tab, cur |-> open]

ViewInit == view' = ViewOf /\ UNCHANGED <<mem, tab, len, tree, del, released, astray, last>>

ViewFree == view' = NoView /\ UNCHANGED <<mem, tab, len, tree, del, released, astray, last>>

(* A build through a pointer that cannot be read is undefined, and no step.*)
Build ==
  /\ tree = NoTree /\ Readable(view)
  /\ tree' = view
  /\ UNCHANGED <<mem, tab, len, view, del, released, astray, last>>

(* hs_free_all passes over node 0: the root's list is the table's.         *)
FreedLists == {}

FreeAll ==
  /\ tree # NoTree
  /\ tree' = NoTree
  /\ mem' = [a \in Addresses |-> IF a \in FreedLists THEN Freed ELSE mem[a]]
  /\ UNCHANGED <<tab, len, view, del, released, astray, last>>

-----------------------------------------------------------------------------
(* The calls that are one step.  delf may make any of them, too: a delete  *)
(* begun in it, say, is a DelWithIdx of what it finds.                     *)
Call == \/ \E size \in Sizes : CtxInit(size)
        \/ CtxFree
        \/ \E r \in Rules : Add(r) \/ AddNoMemory(r)
        \/ \E k \in 0..len - 1 : DelWithIdx(k)
        \/ ViewInit \/ ViewFree
        \/ Build \/ FreeAll

Next ==
  /\ ~crashed
  /\ \/ /\ UNCHANGED crashed
        /\ Call \/ DelRemove \/ \E r \in Asks : DelFind(r) \/ DelMissing(r)
     \/ DelCrash

Spec == Init /\ [][Next]_vars

-----------------------------------------------------------------------------
TypeOK ==
  /\ tab \in Addresses \union {Null}
  /\ view.list \in Addresses \union {Null} /\ tree.list \in Addresses \union {Null}
  /\ IF open THEN slots # Freed /\ len \in 0..cap ELSE len = 0
  /\ del # NoDel => del.rule \in Asks /\ del.at \in Nat

(* The table's array is all that is allocated for it, and holds the table: *)
(* building and freeing trees, which share it, neither free nor keep it,   *)
(* and growing leaves no older array behind, in a callback or out of one.  *)
TableOwned == TypeOK /\ {a \in Addresses : mem[a] # Freed} = IF open THEN {tab} ELSE {}

(* A pointer equal to the table's own can be read, however often the table *)
(* grew away and back, shrank and grew since it was taken, and shows rules *)
(* only: within one hs_acl_ctx_init the test "ruleList is still the same"  *)
(* is good enough to keep using a view or a tree.                          *)
SamePointerReads ==
  \A p \in {view, tree} : p.cur /\ open /\ p.list = tab => Readable(p)

(* A rule handed to delf, whose entry delf may free, is not in the table   *)
(* when the delete is over: unless another rule stood at its index by then,*)
(* because delf added or deleted before it, and was removed in its place.  *)
ReleasedGone ==
  del = NoDel => released \intersect {Table[k] : k \in 1..len} \subseteq astray

(* To its user the table is the list of AclList, a delete one step of it,  *)
(* whatever delf adds, deletes or frees in the midst of it: unless the     *)
(* index is then no longer that of the first rule asked for.  Then the rule*)
(* at the index goes, and no other.                                        *)
Abstract == INSTANCE AclList WITH Rules <- Rules \union Asks, acl <- Table, NoRule <- Blank

RemovesAnother ==
  /\ del # NoDel /\ del' = NoDel /\ ~IsFirstHit(del.at, del.rule)
  /\ UNCHANGED open /\ Table' = Abstract!Removed(del.at + 1)
  /\ last' = Answer("del", del.rule, 0)

TableIsList == Abstract!Init /\ [][Abstract!Next \/ RemovesAnother]_(Abstract!vars)
=============================================================================
