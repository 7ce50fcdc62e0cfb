--------------------------- MODULE AclSystemProofs ----------------------------
(***************************************************************************)
(* A table, a view of it and a tree, used together in any order: who owns  *)
(* the array they share, which pointers into it may still be read, and     *)
(* what its user sees, for any rules, sizes, number of addresses and       *)
(* outcomes of the allocations, and whatever the delete callback does to   *)
(* the table.                                                              *)
(***************************************************************************)
EXTENDS AclSystem, SequenceTheorems, WellFoundedInduction, FiniteSetTheorems, TLAPS

USE RulesAssumption, SizesAssumption, NullAssumption, PriAssumption

-----------------------------------------------------------------------------
LEMMA Least ==
  ASSUME NEW S \in SUBSET Nat, S # {}
  PROVE  \E n \in S : \A m \in S : n <= m
<1> DEFINE T == {0..n : n \in S}
           R == StrictSubsetOrdering(Nat)
<1>1. \A n \in S : 0..n \in FiniteSubsetsOf(Nat)
  BY FS_Interval DEF FiniteSubsetsOf
<1>2. T \subseteq FiniteSubsetsOf(Nat) /\ T # {}
  BY <1>1
<1>3. PICK x \in T : \A y \in T : ~ (<<y, x>> \in R)
  <2> HIDE DEF T
  <2> QED
    BY <1>2, FS_StrictSubsetOrderingWellFounded, WFMin
<1>4. PICK n \in S : x = 0..n
  OBVIOUS
<1>5. ASSUME NEW m \in S, m < n PROVE FALSE
  <2>1. 0..m \in T /\ 0..m \subseteq 0..n /\ n \in 0..n /\ n \notin 0..m
    BY <1>5
  <2>2. <<0..m, x>> \in R
    BY <2>1, <1>4 DEF StrictSubsetOrdering
  <2> QED
    BY <2>1, <2>2, <1>3
<1> QED
  BY <1>5

LEMMA Largest ==
  ASSUME NEW m \in Nat, NEW S \in SUBSET (0..m), S # {}
  PROVE  \E x \in S : \A y \in S : y <= x
<1> DEFINE T == {m - x : x \in S}
<1>1. \A x \in S : x \in Nat /\ x <= m /\ m - x \in Nat
  OBVIOUS
<1>2. PICK n \in T : \A y \in T : n <= y
  <2>1. T \in SUBSET Nat /\ T # {}
    BY <1>1
  <2> HIDE DEF T
  <2> QED
    BY <2>1, Least
<1>3. PICK x \in S : n = m - x
  OBVIOUS
<1>4. \A y \in S : y <= x
  <2> SUFFICES ASSUME NEW y \in S PROVE y <= x
    OBVIOUS
  <2>1. m - x <= m - y
    BY <1>2, <1>3
  <2> QED
    BY <1>1, <2>1
<1> QED
  BY <1>4

-----------------------------------------------------------------------------
(* The inductive invariant.                                                *)

IsArray(s, n) == n \in Nat \ {0} /\ s \in [0..n - 1 -> Rules \union {Blank}]

(* All that is allocated is the open table's array.                        *)
Memory == /\ tab \in Addresses \union {Null}
          /\ mem = [a \in Addresses |-> IF a = tab THEN mem[a] ELSE Freed]
          /\ open => \E n \in Nat : IsArray(slots, n) /\ len \in 0..n
          /\ ~open => len = 0

(* Its used slots hold rules in priority order, none of them twice.        *)
Ordered == /\ \A k \in 0..len - 1 : slots[k] \in Rules
           /\ \A j, k \in 0..len - 1 :
                j < k => /\ slots[j].pri <= slots[k].pri
                         /\ ~(slots[j].pri = slots[k].pri /\ slots[j].range = slots[k].range)

Held == del # NoDel => del.rule \in Asks /\ del.at \in Nat

(* A released rule is in the table only while its delete is not over, or   *)
(* after it removed another one.                                           *)
Released == \A k \in 0..len - 1 :
  slots[k] \in released => slots[k] \in astray \/ (del # NoDel /\ slots[k] = del.found)

(* What the table held when a pointer was taken, and the slots it has given*)
(* up since, are rules, in whatever array it has now.                      *)
Reaches(p) ==
  /\ {"num", "list", "cur"} \subseteq DOMAIN p /\ p = [x \in DOMAIN p |-> p[x]]
  /\ p.list \in Addresses \union {Null}
  /\ p.cur => /\ open /\ p.num \in Nat /\ 0..p.num - 1 \subseteq DOMAIN slots
              /\ \A k \in 0..p.num - 1 : slots[k] \in Rules

IInv == Memory /\ Ordered /\ Held /\ Released /\ Reaches(view) /\ Reaches(tree)

-----------------------------------------------------------------------------
(* Counting.                                                               *)

LEMMA CapIs == ASSUME NEW s, NEW n, IsArray(s, n) PROVE Cardinality(DOMAIN s) = n
<1>1. DOMAIN s = 0..n - 1 /\ n \in Nat /\ n > 0
  BY DEF IsArray
<1> QED
  BY <1>1, FS_Interval

(* A set of slots that has all the slots before any of its own is known by *)
(* its size.                                                               *)
LEMMA PrefixCount ==
  ASSUME NEW l \in Nat, NEW S \in SUBSET (0..l - 1),
         \A k \in S : \A j \in 0..k : j \in S
  PROVE  Cardinality(S) \in 0..l /\ S = 0..Cardinality(S) - 1
<1>1. CASE S = {}
  <2>1. Cardinality(S) = 0
    BY <1>1, FS_EmptySet
  <2> QED
    BY <2>1, <1>1
<1>2. CASE S # {}
  <2>1. l \in Nat /\ S \in SUBSET (0..l)
    OBVIOUS
  <2>3. PICK x \in S : \A y \in S : y <= x
    BY <1>2, <2>1, Largest
  <2>4. x \in 0..l - 1 /\ \A y \in S : y \in 0..x
    BY <2>3
  <2>5. S = 0..x
    BY <2>3, <2>4
  <2>6. Cardinality(0..x) = x + 1
    BY <2>4, FS_Interval
  <2> QED
    BY <2>4, <2>5, <2>6
<1> QED
  BY <1>1, <1>2

LEMMA RulesHavePri == \A r \in Rules \union Asks : r.pri \in Nat
  BY DEF Rule, Pri

(* Where a rule goes: behind those of its own and of smaller priorities.   *)
LEMMA UpperBoundIs ==
  ASSUME IInv, NEW r \in Rules
  PROVE  /\ UpperBound(r) \in 0..len
         /\ \A k \in 0..len - 1 : k < UpperBound(r) <=> slots[k].pri <= r.pri
<1> DEFINE S == {k \in 0..len - 1 : GoesBefore(slots[k], r)}
<1>1. len \in Nat
  BY DEF IInv, Memory
<1>2. \A k \in S : \A j \in 0..k : j \in S
  <2> SUFFICES ASSUME NEW k \in 0..len - 1, slots[k].pri <= r.pri, NEW j \in 0..k
               PROVE  j \in 0..len - 1 /\ slots[j].pri <= r.pri
    BY DEF GoesBefore
  <2>1. j \in 0..len - 1 /\ slots[j] \in Rules /\ slots[k] \in Rules
    BY <1>1 DEF IInv, Ordered
  <2>2. slots[j].pri <= slots[k].pri
    BY <2>1, RulesHavePri DEF IInv, Ordered
  <2> QED
    BY <2>1, <2>2, RulesHavePri
<1>3. Cardinality(S) \in 0..len /\ S = 0..Cardinality(S) - 1
  <2>1. S \in SUBSET (0..len - 1)
    OBVIOUS
  <2> HIDE DEF S
  <2> QED
    BY <1>1, <1>2, <2>1, PrefixCount
<1>4. UpperBound(r) = Cardinality(S)
  BY DEF UpperBound
<1>5. \A k \in 0..len - 1 : k \in S <=> slots[k].pri <= r.pri
  BY DEF GoesBefore
<1> HIDE DEF S
<1> QED
  BY <1>1, <1>3, <1>4, <1>5

-----------------------------------------------------------------------------
(* What the steps that change the array do to it.                          *)

(* The used part of the array with a rule put in at place p.               *)
Put(s, l, p, r, t) ==
  /\ \A k \in 0..p - 1 : t[k] = s[k]
  /\ t[p] = r
  /\ \A k \in p + 1..l : t[k] = s[k - 1]

LEMMA AddEffect ==
  ASSUME IInv, open, NEW r \in Rules, Add(r)
  PROVE  /\ open' /\ Memory' /\ DOMAIN slots \subseteq DOMAIN slots'
         /\ Twin(r) => len' = len /\ \A k \in DOMAIN slots : slots'[k] = slots[k]
         /\ ~Twin(r) => /\ len' = len + 1
                        /\ Put(slots, len, UpperBound(r), r, slots')
                        /\ \A k \in DOMAIN slots : k > len => slots'[k] = slots[k]
<1>1. PICK n \in Nat : IsArray(slots, n) /\ len \in 0..n
  BY DEF IInv, Memory
<1>2. cap = n
  BY <1>1, CapIs DEF cap
<1>3. UpperBound(r) \in 0..len /\ len \in Nat /\ tab \in Addresses
  BY UpperBoundIs DEF IInv, Memory, open
<1>4. \A k \in 0..len - 1 : slots[k] \in Rules
  BY DEF IInv, Ordered
<1>5. \E m \in Nat : \E t :
        /\ IsArray(t, m) /\ n <= m /\ (Twin(r) \/ len < m)
        /\ \A k \in 0..n - 1 : t[k] = slots[k]
        /\ tab' \in Addresses
        /\ mem' = [a \in Addresses |-> IF a = tab' THEN WithRule(t, r) ELSE Freed]
  <2>1. CASE len < cap /\ mem' = [mem EXCEPT ![tab] = WithRule(@, r)] /\ UNCHANGED tab
    <3>1. mem' = [a \in Addresses |-> IF a = tab' THEN WithRule(slots, r) ELSE Freed]
      <4>1. mem = [a \in Addresses |-> IF a = tab THEN mem[a] ELSE Freed]
        BY DEF IInv, Memory
      <4>2. mem' = [a \in Addresses |-> IF a = tab THEN WithRule(mem[tab], r) ELSE mem[a]]
        BY <2>1, <4>1, <1>3
      <4> QED
        BY <2>1, <4>1, <4>2 DEF slots
    <3>2. n <= n /\ len < n /\ tab' \in Addresses
      BY <2>1, <1>2, <1>3
    <3>3. \A k \in 0..n - 1 : slots[k] = slots[k]
      OBVIOUS
    <3> QED
      BY <3>1, <3>2, <3>3, <1>1
  <2>2. CASE /\ len = cap
             /\ \E b \in {b \in Addresses : b = tab \/ mem[b] = Freed} :
                  /\ mem' = [a \in Addresses |-> IF a = b THEN WithRule(Doubled, r)
                                                 ELSE IF a = tab THEN Freed ELSE mem[a]]
                  /\ tab' = b
    <3>1. IsArray(Doubled, 2 * n)
      BY <1>1, <1>2 DEF Doubled, IsArray
    <3>2. \A k \in 0..n - 1 : Doubled[k] = slots[k]
      BY <1>1, <1>2 DEF Doubled
    <3>3. PICK b \in Addresses :
             /\ mem' = [a \in Addresses |-> IF a = b THEN WithRule(Doubled, r)
                                            ELSE IF a = tab THEN Freed ELSE mem[a]]
             /\ tab' = b
      BY <2>2
    <3>4. \A a \in Addresses : a # tab => mem[a] = Freed
      BY DEF IInv, Memory
    <3>5. mem' = [a \in Addresses |-> IF a = tab' THEN WithRule(Doubled, r) ELSE Freed]
      BY <3>3, <3>4
    <3>6. 2 * n \in Nat /\ n <= 2 * n /\ len < 2 * n
      BY <1>1, <1>2, <2>2 DEF IsArray
    <3> QED
      BY <3>1, <3>2, <3>3, <3>5, <3>6
  <2> QED
    BY <2>1, <2>2 DEF Add
<1>6. PICK m \in Nat : \E t :
        /\ IsArray(t, m) /\ n <= m /\ (Twin(r) \/ len < m)
        /\ \A k \in 0..n - 1 : t[k] = slots[k]
        /\ tab' \in Addresses
        /\ mem' = [a \in Addresses |-> IF a = tab' THEN WithRule(t, r) ELSE Freed]
  BY <1>5
<1>7. PICK t :
        /\ IsArray(t, m) /\ n <= m /\ (Twin(r) \/ len < m)
        /\ \A k \in 0..n - 1 : t[k] = slots[k]
        /\ tab' \in Addresses
        /\ mem' = [a \in Addresses |-> IF a = tab' THEN WithRule(t, r) ELSE Freed]
  BY <1>6
<1>8. /\ slots' = WithRule(t, r) /\ open'
      /\ mem' = [a \in Addresses |-> IF a = tab' THEN mem'[a] ELSE Freed]
  BY <1>7 DEF slots, open
<1>9. DOMAIN slots = 0..n - 1 /\ DOMAIN t = 0..m - 1
  BY <1>1, <1>7 DEF IsArray
<1>10. CASE Twin(r)
  <2>1. slots' = t /\ len' = len
    BY <1>8, <1>10 DEF WithRule, Add
  <2>2. Memory'
    BY <1>1, <1>7, <1>8, <2>1 DEF Memory
  <2> QED
    BY <1>7, <1>8, <1>9, <1>10, <2>1, <2>2
<1>11. CASE ~Twin(r)
  <2>1. slots' = [k \in 0..m - 1 |-> IF k = UpperBound(r) THEN r
                    ELSE IF k \in UpperBound(r) + 1..len THEN t[k - 1] ELSE t[k]]
    BY <1>8, <1>9, <1>11 DEF WithRule
  <2>2. len' = len + 1 /\ len < m
    BY <1>7, <1>11 DEF Add
  <2>3. IsArray(slots', m)
    BY <2>1, <2>2, <1>3, <1>7 DEF IsArray
  <2>4. Memory'
    BY <1>3, <1>7, <1>8, <2>2, <2>3 DEF Memory
  <2>5. DOMAIN slots' = 0..m - 1
    BY <2>1
  <2>6. Put(slots, len, UpperBound(r), r, slots')
    BY <1>1, <1>3, <1>7, <2>1, <2>2 DEF Put
  <2>7. \A k \in DOMAIN slots : k > len => slots'[k] = slots[k]
    BY <1>3, <1>7, <1>9, <2>1, <2>2
  <2> QED
    BY <1>7, <1>8, <1>9, <1>11, <2>2, <2>4, <2>5, <2>6, <2>7
<1> QED
  BY <1>10, <1>11

LEMMA RemoveEffect ==
  ASSUME IInv, open, NEW i \in 0..len - 1, RemoveAt(i), UNCHANGED tab
  PROVE  /\ open' /\ Memory' /\ len' = len - 1 /\ DOMAIN slots' = DOMAIN slots
         /\ 0..len - 1 \subseteq DOMAIN slots
         /\ \A j \in DOMAIN slots : slots'[j] = IF j \in i..len - 2 THEN slots[j + 1] ELSE slots[j]
<1>1. PICK n \in Nat : IsArray(slots, n) /\ len \in 0..n
  BY DEF IInv, Memory
<1>2. tab \in Addresses /\ mem = [a \in Addresses |-> IF a = tab THEN mem[a] ELSE Freed]
  BY DEF IInv, Memory, open
<1> DEFINE t == [j \in DOMAIN slots |-> IF j \in i..len - 2 THEN slots[j + 1] ELSE slots[j]]
<1>3. mem' = [a \in Addresses |-> IF a = tab THEN t ELSE mem[a]]
  BY <1>2 DEF RemoveAt, slots
<1>4. slots' = t
  BY <1>2, <1>3 DEF slots
<1>5. DOMAIN slots = 0..n - 1
  BY <1>1 DEF IsArray
<1>6. IsArray(t, n)
  BY <1>1, <1>5 DEF IsArray
<1>7. len' = len - 1 /\ len' \in 0..n
  BY <1>1 DEF RemoveAt
<1>8. open'
  BY DEF open
<1>9. mem' = [a \in Addresses |-> IF a = tab' THEN mem'[a] ELSE Freed]
  BY <1>2, <1>3
<1>10. Memory'
  <2> HIDE DEF t
  <2> QED
    BY <1>1, <1>2, <1>4, <1>6, <1>7, <1>8, <1>9 DEF Memory
<1> QED
  BY <1>1, <1>4, <1>5, <1>7, <1>8, <1>10


-----------------------------------------------------------------------------
(* Each step keeps the invariant.                                          *)

LEMMA InitInv == Init => IInv
  BY DEF Init, IInv, Memory, Ordered, Held, Released, Reaches, open, NoView, NoTree

LEMMA CtxInitInv == ASSUME IInv, NEW size \in Sizes, CtxInit(size) PROVE IInv'
<1>1. CASE /\ \E a \in Addresses : /\ mem[a] = Freed /\ tab' = a
                                   /\ mem' = [mem EXCEPT ![a] = [k \in 0..size - 1 |-> Blank]]
  <2>1. PICK a \in Addresses : /\ mem[a] = Freed /\ tab' = a
                               /\ mem' = [mem EXCEPT ![a] = [k \in 0..size - 1 |-> Blank]]
    BY <1>1
  <2>2. /\ ~open /\ len = 0 /\ len' = 0
        /\ UNCHANGED <<view, tree, del, released, astray>>
    BY DEF CtxInit, IInv, Memory
  <2>3. mem = [b \in Addresses |-> IF b = tab THEN mem[b] ELSE Freed] /\ tab \notin Addresses
    BY <2>2 DEF IInv, Memory, open
  <2>4. mem' = [b \in Addresses |-> IF b = a THEN [k \in 0..size - 1 |-> Blank] ELSE Freed]
    BY <2>1, <2>3
  <2>5. slots' = [k \in 0..size - 1 |-> Blank] /\ open'
    BY <2>1, <2>4 DEF slots, open
  <2>6. IsArray(slots', size) /\ size \in Nat
    BY <2>5 DEF IsArray
  <2>7. Memory'
    <3>1. mem' = [b \in Addresses |-> IF b = tab' THEN mem'[b] ELSE Freed]
      BY <2>1, <2>4
    <3>2. tab' \in Addresses \union {Null} /\ len' \in 0..size
      BY <2>1, <2>2, <2>6
    <3> QED
      BY <3>1, <3>2, <2>5, <2>6 DEF Memory
  <2>8. ~view.cur /\ ~tree.cur
    BY <2>2 DEF IInv, Reaches
  <2>9. Reaches(view)' /\ Reaches(tree)'
    BY <2>2, <2>8 DEF IInv, Reaches
  <2>10. Ordered' /\ Held' /\ Released'
    BY <2>2 DEF Ordered, Held, Released, IInv
  <2> QED
    BY <2>7, <2>9, <2>10 DEF IInv
<1>2. CASE UNCHANGED <<mem, tab>>
  <2>1. UNCHANGED <<mem, tab, len, view, tree, del, released, astray>>
    BY <1>2 DEF CtxInit
  <2> QED
    BY <2>1 DEF IInv, Memory, Ordered, Held, Released, Reaches, open, slots
<1> QED
  BY <1>1, <1>2 DEF CtxInit

LEMMA CtxFreeInv == ASSUME IInv, CtxFree PROVE IInv'
<1>1. tab' = Null /\ len' = 0 /\ del' = del /\ ~open'
  BY DEF CtxFree, open
<1>2. mem' = [a \in Addresses |-> Freed]
  <2>1. mem' = [mem EXCEPT ![tab] = Freed]
    BY DEF CtxFree
  <2>2. mem = [a \in Addresses |-> IF a = tab THEN mem[a] ELSE Freed]
    BY DEF IInv, Memory
  <2> QED
    BY <2>1, <2>2
<1>3. Memory'
  BY <1>1, <1>2 DEF Memory
<1>4. Ordered' /\ Held' /\ Released'
  BY <1>1 DEF Ordered, Held, Released, IInv
<1>5. \A p, q : Reaches(p) /\ q = [p EXCEPT !.cur = FALSE] =>
        /\ {"num", "list", "cur"} \subseteq DOMAIN q /\ q = [x \in DOMAIN q |-> q[x]]
        /\ q.list \in Addresses \union {Null} /\ ~q.cur
  BY DEF Reaches
<1>6. Reaches(view)' /\ Reaches(tree)'
  BY <1>5 DEF CtxFree, Reaches, IInv
<1> QED
  BY <1>3, <1>4, <1>6 DEF IInv

LEMMA AddInv ==
  ASSUME IInv, NEW r \in Rules, Add(r)
  PROVE  IInv'
<1> DEFINE u == UpperBound(r)
<1>1. /\ open /\ open' /\ Memory' /\ DOMAIN slots \subseteq DOMAIN slots'
      /\ Twin(r) => len' = len /\ \A k \in DOMAIN slots : slots'[k] = slots[k]
      /\ ~Twin(r) => /\ len' = len + 1
                     /\ Put(slots, len, u, r, slots')
                     /\ \A k \in DOMAIN slots : k > len => slots'[k] = slots[k]
  BY AddEffect DEF Add
<1>2. u \in 0..len /\ \A k \in 0..len - 1 : k < u <=> slots[k].pri <= r.pri
  BY UpperBoundIs
<1>3. len \in Nat /\ 0..len - 1 \subseteq DOMAIN slots /\ DOMAIN slots \subseteq Nat
  BY <1>1 DEF IInv, Memory, IsArray
<1>4. /\ UNCHANGED <<view, tree, del>>
      /\ released' = IF Twin(r) THEN released ELSE released \ {r}
      /\ astray' = IF Twin(r) THEN astray ELSE astray \ {r}
  BY DEF Add
<1>5. u \in Nat /\ len \in Nat /\ u <= len
  BY <1>2, <1>3
<1>6. CASE Twin(r)
  <2>1. \A k \in 0..len - 1 : slots'[k] = slots[k]
    BY <1>1, <1>3, <1>6
  <2>2. Ordered' /\ Held' /\ Released'
    BY <1>1, <1>3, <1>4, <1>6, <2>1 DEF Ordered, Held, Released, IInv
  <2>3. Reaches(view)' /\ Reaches(tree)'
    BY <1>1, <1>4, <1>6 DEF Reaches, IInv
  <2> QED
    BY <1>1, <2>2, <2>3 DEF IInv
<1>7. CASE ~Twin(r)
  <2> HIDE DEF u
  <2>1. /\ len' = len + 1
        /\ \A k \in 0..u - 1 : slots'[k] = slots[k]
        /\ slots'[u] = r
        /\ \A k \in u + 1..len : slots'[k] = slots[k - 1]
        /\ \A k \in DOMAIN slots : k > len => slots'[k] = slots[k]
    BY <1>1, <1>7 DEF Put
  <2>2. \A k \in 0..len : \/ k \in 0..u - 1 /\ k \in 0..len - 1
                          \/ k = u
                          \/ k \in u + 1..len /\ k - 1 \in 0..len - 1
    BY <1>2, <1>3
  <2>3. \A k \in 0..len - 1 : slots[k] \in Rules /\ slots[k].pri \in Nat
    BY RulesHavePri DEF IInv, Ordered
  <2>4. \A k \in 0..len : slots'[k] \in Rules
    BY <2>1, <2>2, <2>3
  <2>5. \A k \in 0..len - 1 : ~(slots[k].pri = r.pri /\ slots[k].range = r.range)
    BY <1>7 DEF Twin
  <2>6. r.pri \in Nat
    BY RulesHavePri
  <2>7. ASSUME NEW j \in 0..len, NEW k \in 0..len, j < k
        PROVE  /\ slots'[j].pri <= slots'[k].pri
               /\ ~(slots'[j].pri = slots'[k].pri /\ slots'[j].range = slots'[k].range)
    <3>0. \A a, b \in 0..len - 1 :
            a < b => /\ slots[a].pri <= slots[b].pri
                     /\ ~(slots[a].pri = slots[b].pri /\ slots[a].range = slots[b].range)
      BY DEF IInv, Ordered
    <3>1. CASE j \in 0..u - 1 /\ k \in 0..u - 1
      <4>1. /\ slots'[j] = slots[j] /\ j \in 0..len - 1
            /\ slots'[k] = slots[k] /\ k \in 0..len - 1
        BY <3>1, <2>1, <1>5
      <4> QED
        BY <4>1, <3>0, <2>7
    <3>2. CASE j \in 0..u - 1 /\ k = u
      <4>1. slots'[j] = slots[j] /\ j \in 0..len - 1 /\ j < u
        BY <3>2, <2>1, <1>5
      <4> QED
        BY <3>2, <4>1, <2>1, <1>2, <2>5
    <3>3. CASE j \in 0..u - 1 /\ k \in u + 1..len
      <4>1. slots'[j] = slots[j] /\ j \in 0..len - 1 /\ slots'[k] = slots[k - 1]
            /\ k - 1 \in 0..len - 1 /\ j < k - 1
        BY <3>3, <2>1, <1>5
      <4> QED
        BY <4>1, <3>0
    <3>4. CASE j = u /\ k \in u + 1..len
      <4>1. slots'[k] = slots[k - 1] /\ k - 1 \in 0..len - 1 /\ ~(k - 1 < u)
        BY <3>4, <2>1, <1>5
      <4>2. slots[k - 1].pri \in Nat /\ ~(slots[k - 1].pri <= r.pri)
        BY <4>1, <1>2, <2>3
      <4> QED
        BY <3>4, <4>1, <4>2, <2>1, <2>6
    <3>5. CASE j \in u + 1..len /\ k \in u + 1..len
      <4>1. /\ slots'[j] = slots[j - 1] /\ j - 1 \in 0..len - 1
            /\ slots'[k] = slots[k - 1] /\ k - 1 \in 0..len - 1 /\ j - 1 < k - 1
        BY <3>5, <2>1, <1>5, <2>7
      <4> QED
        BY <4>1, <3>0
    <3> QED
      BY <3>1, <3>2, <3>3, <3>4, <3>5, <2>2, <2>7, <1>5
  <2>8. len' - 1 = len
    BY <2>1, <1>3
  <2>9. Ordered'
    BY <2>4, <2>7, <2>8 DEF Ordered
  <2>10. Held'
    BY <1>4 DEF Held, IInv
  <2>11. Released'
    <3> SUFFICES ASSUME NEW k \in 0..len, slots'[k] \in released'
                 PROVE  slots'[k] \in astray' \/ (del # NoDel /\ slots'[k] = del.found)
      BY <1>4, <2>8 DEF Released
    <3>1. slots'[k] # r /\ slots'[k] \in released
      BY <1>4, <1>7
    <3>2. \E j \in 0..len - 1 : slots'[k] = slots[j]
      BY <3>1, <2>1, <2>2
    <3>3. slots'[k] \in astray \/ (del # NoDel /\ slots'[k] = del.found)
      BY <3>1, <3>2 DEF IInv, Released
    <3> QED
      BY <3>1, <3>3, <1>4, <1>7
  <2>12. \A k \in DOMAIN slots : slots[k] \in Rules => slots'[k] \in Rules
    BY <2>1, <2>4, <1>3
  <2>13. Reaches(view)' /\ Reaches(tree)'
    BY <1>1, <1>4, <2>12 DEF Reaches, IInv
  <2> QED
    BY <1>1, <2>9, <2>10, <2>11, <2>13 DEF IInv
<1> QED
  BY <1>6, <1>7

LEMMA RemoveKeeps ==
  ASSUME IInv, open, NEW i \in 0..len - 1, RemoveAt(i), UNCHANGED <<tab, view, tree>>
  PROVE  /\ Memory' /\ Ordered' /\ Reaches(view)' /\ Reaches(tree)'
         /\ \A k \in 0..len' - 1 : \E j \in 0..len - 1 : j # i /\ slots'[k] = slots[j]
<1>1. /\ open' /\ Memory' /\ len' = len - 1 /\ DOMAIN slots' = DOMAIN slots
      /\ 0..len - 1 \subseteq DOMAIN slots
      /\ \A j \in DOMAIN slots : slots'[j] = IF j \in i..len - 2 THEN slots[j + 1] ELSE slots[j]
  BY RemoveEffect
<1>2. len \in Nat /\ DOMAIN slots \subseteq Nat
  BY DEF IInv, Memory, IsArray
<1>3. \A k \in 0..len - 1 : slots[k] \in Rules
  BY DEF IInv, Ordered
<1>4. Ordered'
  <2>1. \A k \in 0..len - 2 : slots'[k] = IF k < i THEN slots[k] ELSE slots[k + 1]
    BY <1>1, <1>2
  <2>2. \A j, k \in 0..len - 1 :
          j < k => /\ slots[j].pri <= slots[k].pri
                   /\ ~(slots[j].pri = slots[k].pri /\ slots[j].range = slots[k].range)
    BY DEF IInv, Ordered
  <2>3. len' - 1 = len - 2
    BY <1>1, <1>2
  <2>4. \A k \in 0..len - 2 : slots'[k] \in Rules
    BY <2>1, <1>2, <1>3
  <2>5. \A j, k \in 0..len - 2 :
          j < k => /\ slots'[j].pri <= slots'[k].pri
                   /\ ~(slots'[j].pri = slots'[k].pri /\ slots'[j].range = slots'[k].range)
    <3> SUFFICES ASSUME NEW j \in 0..len - 2, NEW k \in 0..len - 2, j < k
                 PROVE  /\ slots'[j].pri <= slots'[k].pri
                        /\ ~(slots'[j].pri = slots'[k].pri /\ slots'[j].range = slots'[k].range)
      OBVIOUS
    <3>1. \E a, b \in 0..len - 1 : a < b /\ slots'[j] = slots[a] /\ slots'[k] = slots[b]
      BY <2>1, <1>2
    <3> QED
      BY <3>1, <2>2
  <2> QED
    BY <2>3, <2>4, <2>5 DEF Ordered
<1>5. \A k \in DOMAIN slots : slots[k] \in Rules => slots'[k] \in Rules
  BY <1>1, <1>2, <1>3
<1>6. Reaches(view)' /\ Reaches(tree)'
  BY <1>1, <1>5 DEF Reaches, IInv
<1>7. ASSUME NEW k \in 0..len - 2 PROVE \E j \in 0..len - 1 : j # i /\ slots'[k] = slots[j]
  <2>1. CASE k < i
    BY <2>1, <1>1, <1>2
  <2>2. CASE k >= i
    <3>1. k + 1 \in 0..len - 1 /\ k + 1 # i /\ slots'[k] = slots[k + 1]
      BY <2>2, <1>1, <1>2
    <3> QED
      BY <3>1
  <2> QED
    BY <2>1, <2>2, <1>2
<1>8. len' - 1 = len - 2
  BY <1>1, <1>2
<1> QED
  BY <1>1, <1>4, <1>6, <1>7, <1>8

LEMMA DelFindInv == ASSUME IInv, NEW r \in Asks, DelFind(r) PROVE IInv'
<1>1. PICK at \in 0..len - 1 :
        /\ del' = [rule |-> r, at |-> at, found |-> slots[at]]
        /\ released' = released \union {slots[at]}
  BY DEF DelFind, IsFirstHit, Hit, SeenByDelf
<1>2. del = NoDel /\ UNCHANGED <<mem, tab, len, view, tree, astray>> /\ at \in Nat
  BY DEF DelFind, IInv, Memory
<1>3. open' = open /\ slots' = slots
  BY <1>2 DEF open, slots
<1>4. Memory' /\ Ordered' /\ Reaches(view)' /\ Reaches(tree)'
  BY <1>2, <1>3 DEF IInv, Memory, Ordered, Reaches
<1>5. del'.at # NoDel.at
  BY <1>1, <1>2 DEF NoDel
<1>6. Held'
  BY <1>1, <1>2 DEF Held
<1>7. Released'
  BY <1>1, <1>2, <1>3, <1>5 DEF IInv, Released
<1> QED
  BY <1>4, <1>6, <1>7 DEF IInv

(* The rest of hs_rule_del takes away what is at its index: the rule delf  *)
(* was called for, which is nowhere else, or that rule has gone astray.    *)
LEMMA DelRemoveInv == ASSUME IInv, DelRemove PROVE IInv'
<1>1. /\ del # NoDel /\ RemoveAt(del.at) /\ del' = NoDel /\ del.at < len
      /\ astray' = IF slots[del.at] = del.found THEN astray ELSE astray \union {del.found}
      /\ UNCHANGED <<tab, view, tree, released>>
  BY DEF DelRemove
<1>2. open /\ del.at \in 0..len - 1 /\ len \in Nat
  BY <1>1 DEF IInv, Memory, Held
<1>3. /\ Memory' /\ Ordered' /\ Reaches(view)' /\ Reaches(tree)'
      /\ \A k \in 0..len' - 1 : \E j \in 0..len - 1 : j # del.at /\ slots'[k] = slots[j]
  BY <1>1, <1>2, RemoveKeeps
<1>4. Held'
  BY <1>1 DEF Held
<1>5. Released'
  <2> SUFFICES ASSUME NEW k \in 0..len' - 1, slots'[k] \in released PROVE slots'[k] \in astray'
    BY <1>1 DEF Released
  <2>1. PICK j \in 0..len - 1 : j # del.at /\ slots'[k] = slots[j]
    BY <1>3
  <2>2. slots[j] \in astray \/ slots[j] = del.found
    BY <2>1 DEF IInv, Released
  <2>3. slots[j] # slots[del.at]
    <3>1. j < del.at \/ del.at < j
      BY <1>2, <2>1
    <3> QED
      BY <1>2, <3>1 DEF IInv, Ordered
  <2> QED
    BY <1>1, <2>1, <2>2, <2>3
<1> QED
  BY <1>3, <1>4, <1>5 DEF IInv

LEMMA DelWithIdxInv == ASSUME IInv, NEW i \in 0..len - 1, DelWithIdx(i) PROVE IInv'
<1>1. RemoveAt(i) /\ i < len /\ UNCHANGED <<tab, view, tree, del, released, astray>>
  BY DEF DelWithIdx
<1>2. open
  BY <1>1 DEF IInv, Memory
<1>3. /\ Memory' /\ Ordered' /\ Reaches(view)' /\ Reaches(tree)'
      /\ \A k \in 0..len' - 1 : \E j \in 0..len - 1 : j # i /\ slots'[k] = slots[j]
  BY <1>1, <1>2, RemoveKeeps
<1>4. Held'
  BY <1>1 DEF IInv, Held
<1>5. Released'
  BY <1>1, <1>3 DEF IInv, Released
<1> QED
  BY <1>3, <1>4, <1>5 DEF IInv

LEMMA ViewInitInv == ASSUME IInv, ViewInit PROVE IInv'
<1>1. /\ view' = [num |-> len, list |-> tab, cur |-> open]
      /\ UNCHANGED <<mem, tab, len, tree, del, released, astray>>
  BY DEF ViewInit, ViewOf
<1>2. open' = open /\ slots' = slots
  BY <1>1 DEF open, slots
<1>3. Memory' /\ Ordered' /\ Held' /\ Released'
  BY <1>1, <1>2 DEF IInv, Memory, Ordered, Held, Released
<1>4. Reaches(tree)'
  BY <1>1, <1>2 DEF IInv, Reaches
<1>5. tab \in Addresses \union {Null} /\ len \in Nat
      /\ (open => 0..len - 1 \subseteq DOMAIN slots /\ \A k \in 0..len - 1 : slots[k] \in Rules)
  BY DEF IInv, Memory, Ordered, IsArray
<1>6. Reaches(view)'
  BY <1>1, <1>2, <1>5 DEF Reaches
<1> QED
  BY <1>3, <1>4, <1>6 DEF IInv

LEMMA TakeTree ==
  ASSUME IInv, UNCHANGED <<mem, tab, len, view, del, released, astray>>, Reaches(tree')
  PROVE  IInv'
<1>1. open' = open /\ slots' = slots
  BY DEF open, slots
<1>2. Memory' /\ Ordered' /\ Held' /\ Released'
  BY <1>1 DEF IInv, Memory, Ordered, Held, Released
<1>3. Reaches(view)' /\ Reaches(tree)'
  BY <1>1 DEF IInv, Reaches
<1> QED
  BY <1>2, <1>3 DEF IInv

LEMMA BuildInv == ASSUME IInv, Build PROVE IInv'
<1>1. Reaches(tree')
  BY DEF Build, Reaches, IInv
<1> QED
  BY <1>1, TakeTree DEF Build

LEMMA FreeAllInv == ASSUME IInv, FreeAll PROVE IInv'
<1>1. tree' = NoTree /\ UNCHANGED <<tab, len, view, del, released, astray>>
  BY DEF FreeAll
<1>2. mem' = mem
  BY DEF FreeAll, FreedLists, IInv, Memory
<1>3. Reaches(tree')
  BY <1>1 DEF Reaches, NoTree
<1> QED
  BY <1>1, <1>2, <1>3, TakeTree

LEMMA AnswersOnly ==
  ASSUME IInv, UNCHANGED <<mem, tab, len, view, tree, del, released, astray>>
  PROVE  IInv'
<1>1. Reaches(tree')
  BY DEF IInv
<1> QED
  BY <1>1, TakeTree

LEMMA NextInv == ASSUME IInv, Next PROVE IInv'
<1>1. ASSUME NEW size \in Sizes, CtxInit(size) PROVE IInv'
  BY <1>1, CtxInitInv
<1>2. ASSUME NEW r \in Rules, Add(r) PROVE IInv'
  BY <1>2, AddInv
<1>3. ASSUME NEW r \in Rules, AddNoMemory(r) PROVE IInv'
  BY <1>3, AnswersOnly DEF AddNoMemory
<1>4. ASSUME NEW k \in 0..len - 1, DelWithIdx(k) PROVE IInv'
  BY <1>4, DelWithIdxInv
<1>5. ASSUME NEW r \in Asks, DelFind(r) PROVE IInv'
  BY <1>5, DelFindInv
<1>6. ASSUME NEW r \in Asks, DelMissing(r) PROVE IInv'
  BY <1>6, AnswersOnly DEF DelMissing
<1>7. CASE DelCrash
  BY <1>7, AnswersOnly DEF DelCrash
<1>8. CASE ViewFree
  <2>1. /\ view' = NoView /\ UNCHANGED <<mem, tab, len, tree, del, released, astray>>
    BY <1>8 DEF ViewFree
  <2>2. Reaches(NoView)'
    BY DEF Reaches, NoView
  <2> QED
    BY <2>1, <2>2 DEF IInv, Memory, Ordered, Held, Released, Reaches, open, slots
<1> QED
  BY <1>1, <1>2, <1>3, <1>4, <1>5, <1>6, <1>7, <1>8, CtxFreeInv, DelRemoveInv, ViewInitInv,
     BuildInv, FreeAllInv DEF Next, Call

-----------------------------------------------------------------------------
(* The theorems.                                                           *)

(* The inductive invariant of the table, its views and its trees.          *)
THEOREM SystemInvariant == Spec => []IInv
<1>1. ASSUME IInv, UNCHANGED vars PROVE IInv'
  BY <1>1, AnswersOnly DEF vars
<1> QED
  BY <1>1, InitInv, NextInv, PTL DEF Spec

(* The table's array is all that is allocated for it: no build and no      *)
(* hs_free_all frees it or keeps it, and growing leaves nothing behind.    *)
THEOREM AlwaysTableOwned == Spec => []TableOwned
<1>1. IInv => TableOwned
  <2> SUFFICES ASSUME IInv PROVE TableOwned
    OBVIOUS
  <2>1. open => slots # Freed /\ len \in 0..cap
    <3> SUFFICES ASSUME open PROVE slots # Freed /\ len \in 0..cap
      OBVIOUS
    <3>1. PICK n \in Nat : IsArray(slots, n) /\ len \in 0..n
      BY DEF IInv, Memory
    <3>2. cap = n
      BY <3>1, CapIs DEF cap
    <3>3. 0 \in DOMAIN slots /\ 0 \notin DOMAIN Freed
      BY <3>1 DEF IsArray, Freed
    <3> QED
      BY <3>1, <3>2, <3>3
  <2>2. TypeOK
    BY <2>1 DEF TypeOK, IInv, Memory, Held, Reaches
  <2>3. {a \in Addresses : mem[a] # Freed} = IF open THEN {tab} ELSE {}
    <3>1. \A a \in Addresses : a # tab => mem[a] = Freed
      BY DEF IInv, Memory
    <3> QED
      BY <2>1, <3>1 DEF IInv, Memory, open, slots
  <2> QED
    BY <2>2, <2>3 DEF TableOwned
<1> QED
  BY <1>1, SystemInvariant, PTL

(* A view or a tree whose pointer is still the table's can be read.        *)
THEOREM AlwaysSamePointerReads == Spec => []SamePointerReads
<1>1. IInv => SamePointerReads
  <2> SUFFICES ASSUME IInv, NEW p \in {view, tree}, p.cur, open, p.list = tab PROVE Readable(p)
    BY DEF SamePointerReads
  <2>1. Reaches(p)
    BY DEF IInv
  <2>2. p.list # Null /\ mem[p.list] = slots
    BY DEF open, slots
  <2> QED
    BY <2>1, <2>2 DEF Reaches, Readable
<1> QED
  BY <1>1, SystemInvariant, PTL

(* A rule delf has been given, and may have freed the entry of, is in the  *)
(* table between calls only if its delete removed another one.             *)
THEOREM AlwaysReleasedGone == Spec => []ReleasedGone
<1>1. IInv => ReleasedGone
  <2> SUFFICES ASSUME IInv, del = NoDel, NEW k \in 1..len, Table[k] \in released
               PROVE  Table[k] \in astray
    BY DEF ReleasedGone, Table
  <2>1. len \in Nat
    BY DEF IInv, Memory
  <2>2. k - 1 \in 0..len - 1 /\ Table[k] = slots[k - 1]
    BY <2>1 DEF Table
  <2> QED
    BY <2>2 DEF IInv, Released
<1> QED
  BY <1>1, SystemInvariant, PTL

-----------------------------------------------------------------------------
(* The table is the list.                                                  *)

LEMMA TableIs ==
  ASSUME IInv
  PROVE  /\ len \in Nat /\ Len(Table) = len
         /\ \A k \in 1..len : Table[k] = slots[k - 1] /\ Table[k] \in Rules
<1>1. len \in Nat /\ \A k \in 1..len : k - 1 \in 0..len - 1
  BY DEF IInv, Memory
<1>2. \A k \in 1..len : slots[k - 1] \in Rules
  BY <1>1 DEF IInv, Ordered
<1>3. Table \in [1..len -> Rules]
  BY <1>2 DEF Table
<1>4. Table \in Seq(Rules) /\ DOMAIN Table = 1..len
  BY <1>1, <1>3, SeqDef
<1>5. Len(Table) = len
  BY <1>1, <1>4, LenProperties
<1> QED
  BY <1>1, <1>2, <1>5 DEF Table

LEMMA SameTable ==
  ASSUME UNCHANGED <<mem, tab, len>> PROVE open' = open /\ Table' = Table
  BY DEF open, Table, slots

(* A call of the open table is a step of the list.                         *)
LEMMA CallIsStep ==
  ASSUME NEW r \in Rules \union Asks, open, UNCHANGED open,
         \/ Abstract!Add(r) \/ Abstract!AddDuplicate(r) \/ Abstract!AddNoMemory(r)
         \/ Abstract!Find(r) \/ Abstract!Exist(r) \/ Abstract!Del(r)
  PROVE  Abstract!Next
<1>1. \E q \in Rules \union Asks :
        \/ Abstract!Add(q) \/ Abstract!AddDuplicate(q) \/ Abstract!AddNoMemory(q)
        \/ Abstract!Find(q) \/ Abstract!Exist(q) \/ Abstract!Del(q)
  OBVIOUS
<1> QED
  BY <1>1, Zenon DEF Abstract!Next

LEMMA AddRefines ==
  ASSUME IInv, NEW r \in Rules, Add(r)
  PROVE  Abstract!Next
<1> DEFINE u == UpperBound(r)
<1>1. /\ open /\ open' /\ Memory' /\ DOMAIN slots \subseteq DOMAIN slots'
      /\ Twin(r) => len' = len /\ \A k \in DOMAIN slots : slots'[k] = slots[k]
      /\ ~Twin(r) => len' = len + 1 /\ Put(slots, len, u, r, slots')
  BY AddEffect DEF Add
<1>2. u \in 0..len /\ \A k \in 0..len - 1 : k < u <=> slots[k].pri <= r.pri
  BY UpperBoundIs
<1>3. /\ len \in Nat /\ Len(Table) = len
      /\ \A k \in 1..len : Table[k] = slots[k - 1] /\ k - 1 \in 0..len - 1
  BY TableIs
<1>4. 0..len - 1 \subseteq DOMAIN slots
  BY <1>1 DEF IInv, Memory, IsArray
<1>5. CASE Twin(r)
  <2>1. Table' = Table
    <3>1. len' = len /\ \A k \in 1..len : slots'[k - 1] = slots[k - 1]
      BY <1>1, <1>3, <1>4, <1>5
    <3> QED
      BY <3>1 DEF Table
  <2>2. last' = Abstract!Answer("add", r, -2)
    BY <1>5 DEF Add, Answer, Abstract!Answer
  <2>3. \E k \in 1..Len(Table) : Table[k].pri = r.pri /\ Table[k].range = r.range
    <3>1. PICK k \in 0..len - 1 : slots[k].pri = r.pri /\ slots[k].range = r.range
      BY <1>5 DEF Twin
    <3>2. k + 1 \in 1..len /\ Table[k + 1] = slots[k]
      BY <1>3
    <3> QED
      BY <1>3, <3>1, <3>2
  <2>4. Abstract!AddDuplicate(r)
    BY <2>1, <2>2, <2>3 DEF Abstract!AddDuplicate
  <2> QED
    BY <1>1, <2>4, CallIsStep
<1>6. CASE ~Twin(r)
  <2> HIDE DEF u
  <2>1. /\ len' = len + 1
        /\ \A k \in 0..u - 1 : slots'[k] = slots[k]
        /\ slots'[u] = r
        /\ \A k \in u + 1..len : slots'[k] = slots[k - 1]
    BY <1>1, <1>6 DEF Put
  <2>2. u \in Nat /\ u <= len
    BY <1>2, <1>3
  <2>3. Table' = Abstract!Inserted(u + 1, r)
    <3>1. Abstract!Inserted(u + 1, r) =
            [k \in 1..len + 1 |-> IF k < u + 1 THEN Table[k]
                                  ELSE IF k = u + 1 THEN r ELSE Table[k - 1]]
      BY <1>3 DEF Abstract!Inserted
    <3>2. Table' = [k \in 1..len + 1 |-> slots'[k - 1]]
      BY <2>1 DEF Table
    <3>3. ASSUME NEW k \in 1..len + 1
          PROVE  slots'[k - 1] = IF k < u + 1 THEN Table[k]
                                 ELSE IF k = u + 1 THEN r ELSE Table[k - 1]
      <4>1. CASE k < u + 1
        <5>1. k - 1 \in 0..u - 1 /\ k \in 1..len
          BY <4>1, <2>2, <1>3
        <5> QED
          BY <5>1, <4>1, <2>1, <1>3
      <4>2. CASE k = u + 1
        BY <4>2, <2>1, <2>2
      <4>3. CASE k > u + 1
        <5>1. k - 1 \in u + 1..len /\ k - 1 \in 1..len /\ k - 1 - 1 = k - 2
          BY <4>3, <2>2, <1>3
        <5> QED
          BY <5>1, <4>3, <2>1, <2>2, <1>3
      <4> QED
        BY <4>1, <4>2, <4>3, <2>2, <1>3
    <3> QED
      BY <3>1, <3>2, <3>3
  <2>4. \A k \in 1..len : ~(Table[k].pri = r.pri /\ Table[k].range = r.range)
    BY <1>3, <1>6 DEF Twin
  <2>5. \A k \in 1..len : k < u + 1 <=> Table[k].pri <= r.pri
    <3> SUFFICES ASSUME NEW k \in 1..len PROVE k < u + 1 <=> Table[k].pri <= r.pri
      OBVIOUS
    <3>1. Table[k] = slots[k - 1] /\ k - 1 \in 0..len - 1 /\ (k - 1 < u <=> k < u + 1)
      BY <1>3, <2>2
    <3> QED
      BY <3>1, <1>2
  <2>6. u + 1 \in 1..Len(Table) + 1
    BY <1>3, <2>2
  <2>7. last' = Abstract!Answer("add", r, 0)
    BY <1>6 DEF Add, Answer, Abstract!Answer
  <2>8. \E p \in 1..Len(Table) + 1 :
          /\ \A k \in 1..Len(Table) : k < p <=> Table[k].pri <= r.pri
          /\ Table' = Abstract!Inserted(p, r)
    BY <1>3, <2>3, <2>5, <2>6
  <2>9. Abstract!Add(r)
    BY <1>3, <2>4, <2>7, <2>8, Zenon DEF Abstract!Add
  <2> QED
    BY <1>1, <2>9, CallIsStep
<1> QED
  BY <1>5, <1>6

LEMMA AddNoMemoryRefines ==
  ASSUME NEW r \in Rules, AddNoMemory(r) PROVE Abstract!Next
<1>1. open /\ open' = open /\ Table' = Table
  BY SameTable DEF AddNoMemory
<1>2. Abstract!AddNoMemory(r)
  BY <1>1 DEF AddNoMemory, Answer, Abstract!AddNoMemory, Abstract!Answer
<1> QED
  BY <1>1, <1>2, CallIsStep

LEMMA RemovedIs ==
  ASSUME IInv, open, NEW i \in 0..len - 1, RemoveAt(i), UNCHANGED tab
  PROVE  open' /\ Table' = Abstract!Removed(i + 1)
<1>1. /\ open' /\ len' = len - 1 /\ 0..len - 1 \subseteq DOMAIN slots
      /\ \A j \in DOMAIN slots : slots'[j] = IF j \in i..len - 2 THEN slots[j + 1] ELSE slots[j]
  BY RemoveEffect
<1>2. /\ len \in Nat /\ Len(Table) = len /\ \A k \in 1..len : Table[k] = slots[k - 1]
  BY TableIs
<1>3. Abstract!Removed(i + 1) = [k \in 1..len - 1 |-> IF k < i + 1 THEN Table[k] ELSE Table[k + 1]]
  BY <1>2 DEF Abstract!Removed
<1>4. Table' = [k \in 1..len - 1 |-> slots'[k - 1]]
  BY <1>1 DEF Table
<1>5. ASSUME NEW k \in 1..len - 1
      PROVE  slots'[k - 1] = IF k < i + 1 THEN Table[k] ELSE Table[k + 1]
  <2>1. k \in 1..len /\ k + 1 \in 1..len /\ k - 1 \in 0..len - 1
    BY <1>2
  <2>2. Table[k] = slots[k - 1] /\ Table[k + 1] = slots[k]
    BY <2>1, <1>2
  <2>3. slots'[k - 1] = IF k - 1 \in i..len - 2 THEN slots[k] ELSE slots[k - 1]
    BY <2>1, <1>1
  <2>4. k - 1 \in i..len - 2 <=> ~(k < i + 1)
    BY <1>2
  <2> QED
    BY <2>2, <2>3, <2>4
<1> QED
  BY <1>1, <1>3, <1>4, <1>5

(* The first hit of the list is the index hs_rule_find returns.            *)
LEMMA HitsOf ==
  ASSUME IInv, NEW r \in Asks
  PROVE  Abstract!Hits(r) = {k \in 1..len : RuleIsEqual(slots[k - 1], r)}
<1>1. /\ len \in Nat /\ Len(Table) = len
      /\ \A k \in 1..len : Table[k] = slots[k - 1] /\ Table[k] \in Rules
  BY TableIs
<1> QED
  BY <1>1, LowestAssumption DEF Abstract!Hits, RuleIsEqual

LEMMA DelMissingRefines ==
  ASSUME IInv, NEW r \in Asks, DelMissing(r) PROVE Abstract!Next
<1>1. open /\ Hit(r) = {} /\ last' = Answer("del", r, -3)
  BY DEF DelMissing
<1>2. open' = open /\ Table' = Table
  BY SameTable DEF DelMissing
<1>3. Abstract!Hits(r) = {}
  <2>1. \A k \in 1..len : k - 1 \in 0..len - 1
    BY TableIs
  <2> QED
    BY <1>1, <2>1, HitsOf DEF Hit
<1>4. Abstract!Del(r)
  BY <1>1, <1>2, <1>3 DEF Abstract!Del, Answer, Abstract!Answer
<1> QED
  BY <1>1, <1>2, <1>4, CallIsStep

LEMMA DelRemoveRefines ==
  ASSUME IInv, DelRemove PROVE Abstract!Next \/ RemovesAnother
<1> DEFINE r == del.rule
           S == Abstract!Hits(r)
<1>1. /\ del # NoDel /\ RemoveAt(del.at) /\ UNCHANGED tab /\ last' = Answer("del", r, 0)
      /\ del' = NoDel /\ del.at < len
  BY DEF DelRemove
<1>2. open /\ r \in Asks /\ del.at \in 0..len - 1 /\ len \in Nat
  BY <1>1 DEF IInv, Memory, Held
<1>3. S = {k \in 1..len : RuleIsEqual(slots[k - 1], r)}
  BY <1>2, HitsOf
<1>4. Table' = Abstract!Removed(del.at + 1) /\ UNCHANGED open
  BY <1>1, <1>2, RemovedIs DEF open
<1>5. CASE IsFirstHit(del.at, r)
  <2>1. del.at + 1 \in S /\ \A k \in S : del.at + 1 <= k
    <3>1. del.at + 1 \in 1..len /\ del.at + 1 - 1 = del.at
      BY <1>2
    <3>2. ASSUME NEW k \in 1..len, RuleIsEqual(slots[k - 1], r) PROVE del.at + 1 <= k
      <4>1. k - 1 \in Hit(r)
        BY <1>2, <3>2 DEF Hit
      <4>2. del.at <= k - 1
        BY <4>1, <1>5 DEF IsFirstHit
      <4> QED
        BY <4>2, <1>2
    <3> QED
      BY <1>3, <1>5, <3>1, <3>2 DEF IsFirstHit, Hit
  <2>2. \A k \in S : k \in Int
    BY <1>3
  <2>3. Abstract!FirstOf(S) = del.at + 1
    <3> HIDE DEF S
    <3>1. \A j \in S : (\A n \in S : j <= n) => j = del.at + 1
      BY <1>2, <2>1, <2>2
    <3> QED
      BY <2>1, <3>1 DEF Abstract!FirstOf
  <2>4. Abstract!Del(r)
    <3>1. S # {} /\ Table' = Abstract!Removed(Abstract!FirstOf(S))
          /\ last' = Abstract!Answer("del", r, 0)
      BY <1>1, <1>4, <2>1, <2>3 DEF Answer, Abstract!Answer
    <3> QED
      BY <3>1 DEF Abstract!Del
  <2> HIDE DEF r
  <2> QED
    BY <1>2, <1>4, <2>4, CallIsStep
<1>6. CASE ~IsFirstHit(del.at, r)
  BY <1>1, <1>4, <1>6 DEF RemovesAnother
<1> QED
  BY <1>5, <1>6

LEMMA DelWithIdxRefines ==
  ASSUME IInv, NEW i \in 0..len - 1, DelWithIdx(i) PROVE Abstract!Next
<1>1. open /\ RemoveAt(i) /\ UNCHANGED tab /\ last' = Answer("delidx", slots[i], 0)
  BY DEF DelWithIdx, IInv, Memory
<1>2. open' /\ Table' = Abstract!Removed(i + 1)
  BY <1>1, RemovedIs
<1>3. i + 1 \in 1..Len(Table) /\ Table[i + 1] = slots[i]
  BY TableIs
<1>4. Abstract!DelWithIdx(i + 1)
  BY <1>1, <1>2, <1>3 DEF Abstract!DelWithIdx, Answer, Abstract!Answer
<1>5. open /\ UNCHANGED open
  BY <1>1 DEF open
<1> QED
  BY <1>3, <1>4, <1>5, Zenon DEF Abstract!Next

LEMMA CtxInitRefines ==
  ASSUME IInv, NEW size \in Sizes, CtxInit(size) PROVE Abstract!Next
<1>1. ~open /\ len = 0 /\ len' = 0
  BY DEF CtxInit, IInv, Memory
<1>2. Table' = <<>>
  BY <1>1 DEF Table
<1>3. \/ open' /\ last' = Answer("init", Blank, 0)
      \/ ~open' /\ last' = Answer("init", Blank, -1)
  BY <1>1 DEF CtxInit, open
<1>4. open' \in BOOLEAN
  BY DEF open
<1>5. Abstract!Open
  BY <1>1, <1>2, <1>3, <1>4 DEF Abstract!Open, Answer, Abstract!Answer
<1> QED
  BY <1>5 DEF Abstract!Next

LEMMA CtxFreeRefines == ASSUME CtxFree PROVE Abstract!Next
<1>1. open /\ ~open' /\ len' = 0 /\ last' = Answer("free", Blank, 0)
  BY DEF CtxFree, open
<1>2. Table' = <<>>
  BY <1>1 DEF Table
<1>3. open' \in BOOLEAN
  BY DEF open
<1>4. Abstract!Close
  BY <1>1, <1>2, <1>3 DEF Abstract!Close, Answer, Abstract!Answer
<1> QED
  BY <1>4 DEF Abstract!Next

LEMMA SameStep ==
  ASSUME UNCHANGED <<mem, tab, len, last>> PROVE UNCHANGED Abstract!vars
  BY SameTable DEF Abstract!vars

LEMMA StepRefines ==
  ASSUME IInv, [Next]_vars PROVE [Abstract!Next \/ RemovesAnother]_(Abstract!vars)
<1>1. CASE UNCHANGED vars
  BY <1>1, SameStep DEF vars
<1>2. ASSUME NEW size \in Sizes, CtxInit(size) PROVE Abstract!Next
  BY <1>2, CtxInitRefines
<1>3. ASSUME NEW r \in Rules, Add(r) \/ AddNoMemory(r) PROVE Abstract!Next
  BY <1>3, AddRefines, AddNoMemoryRefines
<1>4. ASSUME NEW k \in 0..len - 1, DelWithIdx(k) PROVE Abstract!Next
  BY <1>4, DelWithIdxRefines
<1>5. ASSUME NEW r \in Asks, DelFind(r) PROVE UNCHANGED Abstract!vars
  BY <1>5, SameStep DEF DelFind
<1>6. ASSUME NEW r \in Asks, DelMissing(r) PROVE Abstract!Next
  BY <1>6, DelMissingRefines
<1>7. CASE ViewInit \/ ViewFree \/ Build \/ DelCrash
  BY <1>7, SameStep DEF ViewInit, ViewFree, Build, DelCrash
<1>8. CASE FreeAll
  <2>1. mem' = mem /\ UNCHANGED <<tab, len, last>>
    BY <1>8 DEF FreeAll, FreedLists, IInv, Memory
  <2> QED
    BY <2>1, SameStep
<1> QED
  BY <1>1, <1>2, <1>3, <1>4, <1>5, <1>6, <1>7, <1>8, CtxFreeRefines, DelRemoveRefines
  DEF Next, Call

(* Whatever is done with views and trees, and whatever the delete callback *)
(* does to the table, the user's table is AclList's list, and a delete     *)
(* takes away the rule it asked for while that is the first one at its     *)
(* index, and else the one that is there and no other.                     *)
THEOREM AlwaysTableIsList == Spec => TableIsList
<1>1. Init => Abstract!Init
  <2>1. Init => [k \in 1..len |-> slots[k - 1]] = <<>>
    BY DEF Init
  <2> QED
    BY <2>1 DEF Init, open, Table, Answer, Abstract!Init, Abstract!Answer
<1>2. IInv /\ [Next]_vars => [Abstract!Next \/ RemovesAnother]_(Abstract!vars)
  BY StepRefines
<1> QED
  BY <1>1, <1>2, SystemInvariant, PTL DEF Spec, TableIsList
=============================================================================
