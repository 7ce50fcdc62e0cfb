-------------------------- MODULE FilterFileProofs ----------------------------
(***************************************************************************)
(* Proofs about FilterFile for any files, any number of slots and any      *)
(* width of a digit: a file that is read is read whole and in order, the   *)
(* reader gives up for a reason, and the intervals are the prefixes'.      *)
(***************************************************************************)
EXTENDS FilterFile, SequenceTheorems, FiniteSetTheorems, WellFoundedInduction, TLAPS

-----------------------------------------------------------------------------
(* Powers of two and remainders.                                           *)

LEMMA IntervalIs ==
  ASSUME NEW m \in Nat, NEW n \in Nat
  PROVE  IsFiniteSet((m + 1)..(m + n)) /\ Cardinality((m + 1)..(m + n)) = n
<1>1. /\ IsFiniteSet((m + 1)..(m + n))
      /\ Cardinality((m + 1)..(m + n)) = IF m + 1 > m + n THEN 0 ELSE (m + n) - (m + 1) + 1
  BY FS_Interval
<1> QED
  BY <1>1

(* 2^n counts the sets of n things.                                        *)
LEMMA PowSum ==
  ASSUME NEW m \in Nat, NEW n \in Nat
  PROVE  2^(m + n) = 2^m * 2^n
<1> DEFINE A == 1..m
           B == (m + 1)..(m + n)
           C == 1..(m + n)
           P == (SUBSET A) \X (SUBSET B)
           f == [p \in P |-> p[1] \union p[2]]
<1>1. /\ IsFiniteSet(A) /\ Cardinality(A) = m /\ IsFiniteSet(B) /\ Cardinality(B) = n
      /\ IsFiniteSet(C) /\ Cardinality(C) = m + n
  <2>1. \A k \in Nat : IsFiniteSet(1..k) /\ Cardinality(1..k) = k
    BY FS_Interval
  <2>2. m + n \in Nat
    OBVIOUS
  <2> QED
    BY <2>1, <2>2, IntervalIs
<1>2. A \union B = C /\ A \intersect B = {}
  OBVIOUS
<1> HIDE DEF A, B, C
<1>3. /\ IsFiniteSet(SUBSET A) /\ Cardinality(SUBSET A) = 2^m
      /\ IsFiniteSet(SUBSET B) /\ Cardinality(SUBSET B) = 2^n
      /\ IsFiniteSet(SUBSET C) /\ Cardinality(SUBSET C) = 2^(m + n)
  BY <1>1, FS_SUBSET
<1>4. IsFiniteSet(P) /\ Cardinality(P) = Cardinality(SUBSET A) * Cardinality(SUBSET B)
  BY <1>3, FS_Product
<1>5. f \in Bijection(P, SUBSET C)
  <2>1. \A p \in P : f[p] \in SUBSET C
    BY <1>2
  <2>2. \A p, q \in P : f[p] = f[q] => p = q
    <3> SUFFICES ASSUME NEW p \in P, NEW q \in P, p[1] \union p[2] = q[1] \union q[2]
                 PROVE  p = q
      OBVIOUS
    <3>1. p[1] \subseteq A /\ q[1] \subseteq A /\ p[2] \subseteq B /\ q[2] \subseteq B
      OBVIOUS
    <3>2. p[1] = q[1] /\ p[2] = q[2]
      BY <1>2, <3>1
    <3> QED
      BY <3>2
  <2>3. \A T \in SUBSET C : \E p \in P : f[p] = T
    <3> SUFFICES ASSUME NEW T \in SUBSET C PROVE \E p \in P : f[p] = T
      OBVIOUS
    <3>1. <<T \intersect A, T \intersect B>> \in P
      OBVIOUS
    <3>2. f[<<T \intersect A, T \intersect B>>] = T
      BY <1>2, <3>1
    <3> QED
      BY <3>1, <3>2
  <2> HIDE DEF P
  <2>4. f \in [P -> SUBSET C]
    BY <2>1
  <2> HIDE DEF f
  <2> QED
    BY <2>2, <2>3, <2>4 DEF Bijection, Injection, Surjection, IsInjective
<1> HIDE DEF f, P
<1>6. Cardinality(P) = Cardinality(SUBSET C)
  <2>1. ExistsBijection(P, SUBSET C)
    BY <1>5 DEF ExistsBijection
  <2> QED
    BY <2>1, <1>4, FS_Bijection, <1>5
<1> QED
  BY <1>3, <1>4, <1>6

LEMMA PowIs == \A n \in Nat : 2^n \in Nat /\ 2^n > 0
<1> SUFFICES ASSUME NEW n \in Nat PROVE 2^n \in Nat /\ 2^n > 0
  OBVIOUS
<1>1. IsFiniteSet(1..n) /\ Cardinality(1..n) = n
  BY FS_Interval
<1>2. IsFiniteSet(SUBSET (1..n)) /\ Cardinality(SUBSET (1..n)) = 2^n
  BY <1>1, FS_SUBSET
<1>3. {} \in SUBSET (1..n)
  OBVIOUS
<1>4. Cardinality(SUBSET (1..n)) \in Nat /\ Cardinality(SUBSET (1..n)) # 0
  <2> DEFINE S == SUBSET (1..n)
  <2> HIDE DEF S
  <2>1. IsFiniteSet(S) /\ S # {}
    BY <1>2, <1>3 DEF S
  <2>2. Cardinality(S) \in Nat /\ Cardinality(S) # 0
    BY <2>1, FS_CardinalityType, FS_EmptySet
  <2> QED
    BY <2>2 DEF S
<1> QED
  BY <1>2, <1>4

LEMMA PowZero == 2^0 = 1
<1>1. 2^(0 + 0) = 2^0 * 2^0 /\ 2^0 \in Nat /\ 2^0 > 0
  BY PowSum, PowIs
<1> QED
  BY <1>1

LEMMA DivIs ==
  ASSUME NEW d \in Nat, d > 0, NEW q \in Nat, NEW r \in Nat, r < d, NEW n, n = q * d + r
  PROVE  n \div d = q /\ n % d = r
<1>1. n \in Nat /\ n \div d \in Int /\ n % d \in 0..d - 1 /\ n = d * (n \div d) + (n % d)
  OBVIOUS
<1> DEFINE x == n \div d
           y == n % d
<1> HIDE DEF x, y
<1>2. (q - x) * d = y - r /\ y \in 0..d - 1 /\ x \in Int
  BY <1>1 DEF x, y
<1>3. ASSUME q > x PROVE FALSE
  <2>1. (q - x) * d >= d
    BY <1>2, <1>3
  <2> QED
    BY <1>2, <2>1
<1>4. ASSUME q < x PROVE FALSE
  <2>1. (x - q) * d >= d
    BY <1>2, <1>4
  <2> QED
    BY <1>2, <2>1
<1>5. x = q
  BY <1>2, <1>3, <1>4
<1> QED
  BY <1>2, <1>5 DEF x, y

LEMMA DivMod ==
  ASSUME NEW n \in Nat, NEW d \in Nat, d > 0
  PROVE  /\ n \div d \in Nat /\ n % d \in Nat /\ n % d < d
         /\ n = (n \div d) * d + (n % d)
  OBVIOUS

LEMMA SameParts ==
  ASSUME NEW d \in Nat, NEW x \in Nat, NEW y \in Nat, NEW u \in Nat, NEW v \in Nat, u < d, v < d
  PROVE  x * d + u = y * d + v <=> x = y /\ u = v
<1>1. ASSUME x < y PROVE x * d + u # y * d + v
  <2>1. (y - x) * d >= d
    BY <1>1
  <2> QED
    BY <2>1
<1>2. ASSUME y < x PROVE x * d + u # y * d + v
  <2>1. (x - y) * d >= d
    BY <1>2
  <2> QED
    BY <2>1
<1> QED
  BY <1>1, <1>2

LEMMA ZeroParts ==
  ASSUME NEW d \in Nat, d > 0, NEW x \in Nat, NEW u \in Nat
  PROVE  x * d + u = 0 <=> x = 0 /\ u = 0
<1>1. ASSUME x > 0 PROVE x * d + u > 0
  <2>1. x * d >= d
    BY <1>1
  <2> QED
    BY <2>1
<1> QED
  BY <1>1

(* The numbers that agree with x but for the remainder.                    *)
LEMMA SameQuotient ==
  ASSUME NEW x \in Nat, NEW n \in Nat, NEW d \in Nat, d > 0
  PROVE  (x - (x % d) <= n /\ n <= x - (x % d) + d - 1) <=> n \div d = x \div d
<1> DEFINE q == x \div d
           r == x % d
           u == n \div d
           v == n % d
<1>1. /\ q \in Nat /\ r \in Nat /\ r < d /\ x = q * d + r
      /\ u \in Nat /\ v \in Nat /\ v < d /\ n = u * d + v
  BY DivMod
<1> HIDE DEF q, r, u, v
<1>2. u < q => (q - u) * d >= d
  BY <1>1
<1>3. u > q => (u - q) * d >= d
  BY <1>1
<1>4. (q * d <= n /\ n <= q * d + d - 1) <=> u = q
  BY <1>1, <1>2, <1>3
<1>5. x - r = q * d
  BY <1>1
<1> QED
  BY <1>4, <1>5 DEF q, r, u

-----------------------------------------------------------------------------
Above(a, p) == CASE p = 0 -> 0
                 [] p = 1 -> a[0]
                 [] p = 2 -> a[0] * Base + a[1]
                 [] p = 3 -> (a[0] * Base + a[1]) * Base + a[2]

Below(a, p) == CASE p = 3 -> 0
                 [] p = 2 -> a[3]
                 [] p = 1 -> a[2] * Base + a[3]
                 [] p = 0 -> (a[1] * Base + a[2]) * Base + a[3]

Unit(p) == CASE p = 3 -> 1
             [] p = 2 -> Base
             [] p = 1 -> Base * Base
             [] p = 0 -> Base * Base * Base

LEMMA BaseIs == Base \in Nat /\ Base > 1
<1> DEFINE S == SUBSET (1..Bits)
<1>1. IsFiniteSet(1..Bits) /\ Cardinality(1..Bits) = Bits
  BY FS_Interval, BitsAssumption
<1>2. IsFiniteSet(S) /\ Cardinality(S) = Base
  BY <1>1, FS_SUBSET DEF Base
<1>3. {} \in S /\ {1} \in S /\ {} # {1}
  BY BitsAssumption
<1> HIDE DEF S
<1>4. Base # 1
  BY <1>2, <1>3, FS_Singleton
<1>5. Base \in Nat /\ Base > 0
  BY PowIs, BitsAssumption DEF Base
<1> QED
  BY <1>4, <1>5

LEMMA Place ==
  ASSUME NEW a \in Digits, NEW p \in 0..3
  PROVE  /\ Above(a, p) \in Nat /\ Below(a, p) \in Nat /\ Unit(p) \in Nat
         /\ Below(a, p) < Unit(p) /\ a[p] \in Nat /\ a[p] < Base
         /\ Number(a) = (Above(a, p) * Base + a[p]) * Unit(p) + Below(a, p)
<1> DEFINE B == Base
<1>1. B \in Nat /\ B > 1
  BY BaseIs
<1>2. \A i \in 0..3 : a[i] \in Nat /\ a[i] < B
  BY <1>1 DEF Digits
<1> HIDE DEF B
<1>3. /\ a[0] \in Nat /\ a[0] < B /\ a[1] \in Nat /\ a[1] < B
      /\ a[2] \in Nat /\ a[2] < B /\ a[3] \in Nat /\ a[3] < B
  BY <1>2
<1>4. Number(a) = ((a[0] * B + a[1]) * B + a[2]) * B + a[3]
  BY DEF Number, B
<1>5. a[2] * B + a[3] \in Nat /\ a[2] * B + a[3] < B * B
  BY <1>1, <1>3
<1>6. (a[1] * B + a[2]) * B + a[3] < B * B * B /\ (a[1] * B + a[2]) * B + a[3] \in Nat
  BY <1>1, <1>3
<1>7. CASE p = 0
  BY <1>1, <1>3, <1>4, <1>6, <1>7 DEF Above, Below, Unit, B
<1>8. CASE p = 1
  BY <1>1, <1>3, <1>4, <1>5, <1>8 DEF Above, Below, Unit, B
<1>9. CASE p = 2
  BY <1>1, <1>3, <1>4, <1>9 DEF Above, Below, Unit, B
<1>10. CASE p = 3
  BY <1>1, <1>3, <1>4, <1>10 DEF Above, Below, Unit, B
<1> QED
  BY <1>7, <1>8, <1>9, <1>10

(* A number cut r bits above the unit of digit p.                          *)
LEMMA Cut ==
  ASSUME NEW a \in Digits, NEW p \in 0..3, NEW r \in 0..Bits
  PROVE  /\ Number(a) \in Nat /\ 2^r \in Nat /\ 2^r > 0 /\ Unit(p) > 0
         /\ 2^(Bits - r) \in Nat /\ 2^(Bits - r) > 0 /\ Base = 2^(Bits - r) * 2^r
         /\ 2^r * Unit(p) \in Nat /\ 2^r * Unit(p) > 0
         /\ a[p] \div 2^r \in Nat /\ a[p] \div 2^r < 2^(Bits - r)
         /\ Number(a) \div (2^r * Unit(p)) = Above(a, p) * 2^(Bits - r) + (a[p] \div 2^r)
         /\ Number(a) % (2^r * Unit(p)) = (a[p] % 2^r) * Unit(p) + Below(a, p)
<1> DEFINE c == 2^r
           K == 2^(Bits - r)
           U == Unit(p)
           H == Above(a, p)
           L == Below(a, p)
           x == a[p]
           q == x \div c
           m == x % c
<1>1. c \in Nat /\ c > 0 /\ K \in Nat /\ K > 0
  BY PowIs, BitsAssumption
<1>2. Base = K * c
  <2>1. Bits - r \in Nat /\ r \in Nat /\ (Bits - r) + r = Bits
    BY BitsAssumption
  <2> QED
    BY <2>1, PowSum DEF Base
<1>3. /\ H \in Nat /\ L \in Nat /\ U \in Nat /\ L < U /\ x \in Nat /\ x < K * c
      /\ Number(a) = (H * (K * c) + x) * U + L
  BY <1>2, Place
<1> HIDE DEF c, K, U, H, L, x
<1>4. q \in Nat /\ m \in Nat /\ m < c /\ x = q * c + m
  BY <1>1, <1>3, DivMod
<1> HIDE DEF q, m
<1>5. q < K
  <2> SUFFICES ASSUME q >= K PROVE FALSE
    BY <1>1, <1>4
  <2>1. q * c >= K * c
    BY <1>1, <1>4
  <2> QED
    BY <2>1, <1>1, <1>3, <1>4
<1>6. c * U \in Nat /\ c * U > 0 /\ m * U + L \in Nat /\ H * K + q \in Nat
  BY <1>1, <1>3, <1>4
<1>7. m * U + L < c * U
  <2>1. (c - m) * U >= U
    BY <1>1, <1>3, <1>4
  <2> QED
    BY <2>1, <1>1, <1>3, <1>4
<1>8. Number(a) = (H * K + q) * (c * U) + (m * U + L)
  BY <1>1, <1>3, <1>4
<1>9. Number(a) \div (c * U) = H * K + q /\ Number(a) % (c * U) = m * U + L
  BY <1>6, <1>7, <1>8, DivIs
<1>10. Number(a) \in Nat
  BY <1>6, <1>8
<1> QED
  BY <1>1, <1>2, <1>3, <1>4, <1>5, <1>6, <1>9, <1>10 DEF c, K, U, H, L, x, q, m

LEMMA UnitIs ==
  ASSUME NEW p \in 0..3, NEW r \in Nat
  PROVE  2^(Bits * (3 - p) + r) = 2^r * Unit(p)
<1> DEFINE B2 == Bits + Bits
           B3 == Bits + Bits + Bits
<1>1. /\ Bits \in Nat /\ B2 \in Nat /\ B3 \in Nat
      /\ 2^0 = 1 /\ 2^B2 = Base * Base /\ 2^B3 = Base * Base * Base
  <2>1. Bits \in Nat /\ B2 \in Nat /\ B3 \in Nat
    BY BitsAssumption
  <2>2. 2^B2 = Base * Base
    BY <2>1, PowSum DEF Base
  <2>3. 2^(B2 + Bits) = 2^B2 * Base
    BY <2>1, PowSum DEF Base
  <2> QED
    BY <2>1, <2>2, <2>3, PowZero
<1>2. 2^r \in Nat /\ Base \in Nat
  BY PowIs, BaseIs
<1>3. CASE p = 3
  <2>1. Bits * (3 - p) + r = r
    BY <1>1, <1>3
  <2> QED
    BY <2>1, <1>2, <1>3 DEF Unit
<1>4. CASE p = 2
  <2>1. Bits * (3 - p) + r = r + Bits
    BY <1>1, <1>4
  <2>2. 2^(r + Bits) = 2^r * Base
    BY <1>1, PowSum DEF Base
  <2> QED
    BY <2>1, <2>2, <1>4 DEF Unit
<1>5. CASE p = 1
  <2>1. Bits * (3 - p) + r = r + B2
    BY <1>1, <1>5
  <2>2. 2^(r + B2) = 2^r * 2^B2
    BY <1>1, PowSum
  <2> QED
    BY <2>1, <2>2, <1>1, <1>5 DEF Unit
<1>6. CASE p = 0
  <2>1. Bits * (3 - p) + r = r + B3
    BY <1>1, <1>6
  <2>2. 2^(r + B3) = 2^r * 2^B3
    BY <1>1, PowSum
  <2> QED
    BY <2>1, <2>2, <1>1, <1>6 DEF Unit
<1> QED
  BY <1>3, <1>4, <1>5, <1>6

-----------------------------------------------------------------------------
(* IPv4.                                                                   *)

(* Where a mask ends: r bits into digit p.                                 *)
LEMMA MaskIs ==
  ASSUME NEW mask \in 0..4 * Bits
  PROVE  \E p \in 0..3, r \in 0..Bits :
           /\ mask = Bits * (3 - p) + r
           /\ \/ r < Bits /\ 3 - (mask \div Bits) = p /\ mask % Bits = r
              \/ p = 0 /\ r = Bits /\ mask \div Bits = 4 /\ mask % Bits = 0
<1> DEFINE q == mask \div Bits
           r == mask % Bits
<1>1. Bits \in Nat /\ Bits > 0 /\ mask \in Nat
  BY BitsAssumption
<1>2. q \in Nat /\ r \in Nat /\ r < Bits /\ mask = q * Bits + r
  BY <1>1, DivMod
<1> HIDE DEF q, r
<1>3. q <= 4
  BY <1>1, <1>2
<1>4. CASE q = 4
  <2>1. r = 0 /\ mask = Bits * (3 - 0) + Bits
    BY <1>1, <1>2, <1>4
  <2> QED
    BY <1>1, <1>4, <2>1 DEF q, r
<1>5. CASE q < 4
  <2>1. 3 - q \in 0..3 /\ mask = Bits * (3 - (3 - q)) + r /\ r \in 0..Bits
    BY <1>1, <1>2, <1>5
  <2> QED
    BY <1>2, <2>1 DEF q, r
<1> QED
  BY <1>2, <1>3, <1>4, <1>5

LEMMA FilledIs ==
  ASSUME NEW p \in 0..3, NEW r \in 0..Bits, NEW a \in Digits
  PROVE  /\ Cleared(a[p], r) \in 0..Base - 1 /\ Filled(a[p], r) \in 0..Base - 1
         /\ Cleared(a[p], r) = a[p] - (a[p] % 2^r)
         /\ Filled(a[p], r) = a[p] - (a[p] % 2^r) + 2^r - 1
<1> DEFINE c == 2^r
           K == 2^(Bits - r)
           x == a[p]
           q == x \div c
           m == x % c
<1>1. /\ c \in Nat /\ c > 0 /\ K \in Nat /\ K > 0 /\ Base = K * c /\ q \in Nat /\ q < K
      /\ x \in Nat
  BY Cut, Place
<1> HIDE DEF c, K, x
<1>2. m \in Nat /\ m < c /\ x = q * c + m
  BY <1>1, DivMod
<1> HIDE DEF q, m
<1>3. (q + 1) * c <= K * c
  BY <1>1
<1>4. x - m = q * c /\ x - m + c - 1 = (q + 1) * c - 1 /\ q * c \in Nat
  BY <1>1, <1>2
<1>5. /\ Cleared(x, r) = x - m /\ Filled(x, r) = x - m + c - 1
  BY DEF Cleared, Filled, m, c
<1>6. Cleared(x, r) \in 0..Base - 1 /\ Filled(x, r) \in 0..Base - 1
  BY <1>1, <1>3, <1>4, <1>5
<1> QED
  BY <1>5, <1>6 DEF c, x, m

(* The interval is the multiples' between which the address lies.          *)
LEMMA RangeIs ==
  ASSUME NEW a \in Digits, NEW len \in Lengths
  PROVE  LET d == 2^(4 * Bits - len)
             iv == ReadIPRange(a, len)
         IN  iv[1] = Number(a) - (Number(a) % d) /\ iv[2] = Number(a) - (Number(a) % d) + d - 1
<1> DEFINE mask == 4 * Bits - len
           d == 2^mask
           lo == Edge(mask, 0, a)
           hi == Edge(mask, Base - 1, a)
<1>1. mask \in 0..4 * Bits
  BY BitsAssumption DEF Lengths
<1> HIDE DEF mask
<1>2. PICK p \in 0..3, r \in 0..Bits :
           /\ mask = Bits * (3 - p) + r
           /\ \/ r < Bits /\ 3 - (mask \div Bits) = p /\ mask % Bits = r
              \/ p = 0 /\ r = Bits /\ mask \div Bits = 4 /\ mask % Bits = 0
  BY <1>1, MaskIs
<1> DEFINE c == 2^r
           U == Unit(p)
           H == Above(a, p)
           L == Below(a, p)
           x == a[p]
           m == x % c
<1>3. d = c * U
  BY <1>2, UnitIs
<1>4. /\ Number(a) = (H * Base + x) * U + L /\ Number(a) % d = m * U + L
      /\ U \in Nat /\ U > 0 /\ c \in Nat /\ c > 0 /\ H \in Nat /\ L \in Nat /\ x \in Nat
  BY <1>3, Cut, Place
<1>5. m \in Nat /\ m <= x /\ Base \in Nat /\ Base > 1
  BY <1>4, BaseIs, DivMod
<1>6. /\ lo \in Digits /\ hi \in Digits
      /\ \A i \in 0..3 : i < p => lo[i] = a[i] /\ hi[i] = a[i]
      /\ \A i \in 0..3 : i > p => lo[i] = 0 /\ hi[i] = Base - 1
      /\ lo[p] = x - m /\ hi[p] = x - m + c - 1
  <2>1. \A i \in 0..3 : a[i] \in 0..Base - 1
    BY DEF Digits
  <2>2. CASE r < Bits /\ 3 - (mask \div Bits) = p /\ mask % Bits = r
    <3>1. HostDigits(mask) = {i \in 0..3 : i > p}
      BY <2>2 DEF HostDigits
    <3>2. /\ \A i \in 0..3 : lo[i] = IF i > p THEN 0 ELSE IF i # p THEN a[i] ELSE Cleared(a[i], r)
          /\ \A i \in 0..3 : hi[i] = IF i > p THEN Base - 1 ELSE IF i # p THEN a[i]
                                     ELSE Filled(a[i], r)
      BY <2>2, <3>1, <1>5 DEF Edge
    <3>3. \A i \in 0..3 : lo[i] \in 0..Base - 1 /\ hi[i] \in 0..Base - 1
      BY <1>5, <2>1, <3>2, FilledIs
    <3>4. lo \in Digits /\ hi \in Digits
      BY <3>3 DEF Edge, Digits
    <3>5. lo[p] = x - m /\ hi[p] = x - m + c - 1
      BY <3>2, FilledIs
    <3> QED
      BY <3>2, <3>4, <3>5
  <2>3. CASE p = 0 /\ r = Bits /\ mask \div Bits = 4 /\ mask % Bits = 0
    <3>1. HostDigits(mask) = 0..3
      BY <2>3 DEF HostDigits
    <3>2. \A i \in 0..3 : lo[i] = 0 /\ hi[i] = Base - 1
      BY <3>1 DEF Edge
    <3>3. lo \in Digits /\ hi \in Digits
      BY <3>2, <1>5 DEF Edge, Digits
    <3>4. m = x /\ c = Base
      <4>1. x \in Nat /\ x < Base
        BY Place
      <4>2. x % Base = x
        BY <4>1, <1>5
      <4> QED
        BY <2>3, <4>2 DEF Base
    <3> QED
      BY <2>3, <3>2, <3>3, <3>4, <1>4
  <2> QED
    BY <1>2, <2>2, <2>3
<1> HIDE DEF lo, hi
<1>7. Above(lo, p) = H /\ Above(hi, p) = H
  BY <1>6 DEF Above
<1>8. Below(lo, p) = 0 /\ Below(hi, p) = U - 1
  <2>1. 1 \in 0..3 /\ 2 \in 0..3 /\ 3 \in 0..3
    OBVIOUS
  <2> QED
    BY <1>5, <1>6, <2>1 DEF Below, Unit
<1>9. Number(lo) = (H * Base + lo[p]) * U /\ Number(hi) = (H * Base + hi[p]) * U + U - 1
  BY <1>4, <1>5, <1>6, <1>7, <1>8, Place
<1> HIDE DEF H, L, x, U, c, m, d
<1>10. Number(lo) = Number(a) - (m * U + L) /\ Number(hi) = Number(a) - (m * U + L) + c * U - 1
  BY <1>4, <1>5, <1>6, <1>9
<1>11. Number(lo) = Number(a) - (Number(a) % d) /\ Number(hi) = Number(a) - (Number(a) % d) + d - 1
  BY <1>3, <1>4, <1>10
<1> QED
  BY <1>11 DEF ReadIPRange, d, lo, hi, mask

LEMMA ReadV4 ==
  ASSUME NEW a \in Digits, NEW len \in Lengths, NEW b \in Digits
  PROVE  Between(Number(b), ReadIPRange(a, len)) <=> InPrefix(b, a, len)
<1> DEFINE d == 2^(4 * Bits - len)
<1>1. d \in Nat /\ d > 0
  BY PowIs, BitsAssumption DEF Lengths
<1>2. Number(a) \in Nat /\ Number(b) \in Nat
  BY Cut, BitsAssumption
<1> QED
  BY <1>1, <1>2, RangeIs, SameQuotient DEF Between, InPrefix

-----------------------------------------------------------------------------
(* IPv6.                                                                   *)

(* The word a prefix ends in, and how many of its bits are the host's.     *)
LEMMA LengthIs ==
  ASSUME NEW len \in Lengths
  PROVE  \E p \in 0..3, r \in 0..Bits :
           /\ 4 * Bits - len = Bits * (3 - p) + r
           /\ \/ p = WholeWords(len) /\ r = Bits - (len % Bits)
              \/ p = 3 /\ r = 0 /\ WholeWords(len) = 4
<1> DEFINE q == len \div Bits
           s == len % Bits
<1>1. Bits \in Nat /\ Bits > 0 /\ len \in Nat /\ len <= 4 * Bits
  BY BitsAssumption DEF Lengths
<1>2. q \in Nat /\ s \in Nat /\ s < Bits /\ len = q * Bits + s
  BY <1>1, DivMod
<1> HIDE DEF q, s
<1>3. q <= 4
  BY <1>1, <1>2
<1>4. CASE q = 4
  <2>1. s = 0 /\ 4 * Bits - len = Bits * (3 - 3) + 0
    BY <1>1, <1>2, <1>4
  <2> QED
    BY <1>1, <1>4, <2>1 DEF q, WholeWords
<1>5. CASE q < 4
  <2>1. q \in 0..3 /\ 4 * Bits - len = Bits * (3 - q) + (Bits - s) /\ Bits - s \in 0..Bits
    BY <1>1, <1>2, <1>5
  <2> QED
    BY <2>1 DEF q, s, WholeWords
<1> QED
  BY <1>2, <1>3, <1>4, <1>5

(* Two addresses have the same bits up to there: the digits before p and   *)
(* p's upper bits.                                                         *)
LEMMA SameAbove ==
  ASSUME NEW a \in Digits, NEW b \in Digits, NEW p \in 0..3
  PROVE  Above(a, p) = Above(b, p) <=> \A i \in 0..3 : i < p => a[i] = b[i]
<1> DEFINE B == Base
<1>1. B \in Nat /\ B > 1
  BY BaseIs
<1>2. \A i \in 0..3 : a[i] \in Nat /\ a[i] < B /\ b[i] \in Nat /\ b[i] < B
  BY <1>1 DEF Digits
<1> HIDE DEF B
<1>3. \A x, y, u, v \in Nat : u < B /\ v < B => (x * B + u = y * B + v <=> x = y /\ u = v)
  BY <1>1, SameParts
<1>4. CASE p = 0
  BY <1>4 DEF Above
<1>5. CASE p = 1
  <2>1. (\A i \in 0..3 : i < 1 => a[i] = b[i]) <=> a[0] = b[0]
    OBVIOUS
  <2>2. Above(a, p) = a[0] /\ Above(b, p) = b[0]
    BY <1>5 DEF Above
  <2> QED
    BY <1>5, <2>1, <2>2
<1>6. CASE p = 2
  <2>1. a[0] * B + a[1] = b[0] * B + b[1] <=> a[0] = b[0] /\ a[1] = b[1]
    BY <1>2, <1>3
  <2>2. (\A i \in 0..3 : i < 2 => a[i] = b[i]) <=> a[0] = b[0] /\ a[1] = b[1]
    OBVIOUS
  <2>3. Above(a, p) = a[0] * B + a[1] /\ Above(b, p) = b[0] * B + b[1]
    BY <1>6 DEF Above, B
  <2> QED
    BY <1>6, <2>1, <2>2, <2>3
<1>7. CASE p = 3
  <2> DEFINE u == a[0] * B + a[1]
             v == b[0] * B + b[1]
  <2>1. u \in Nat /\ v \in Nat
    BY <1>1, <1>2
  <2>2. u = v <=> a[0] = b[0] /\ a[1] = b[1]
    BY <1>2, <1>3
  <2>3. u * B + a[2] = v * B + b[2] <=> u = v /\ a[2] = b[2]
    <3> HIDE DEF u, v
    <3> QED
      BY <1>2, <1>3, <2>1
  <2>4. (\A i \in 0..3 : i < 3 => a[i] = b[i]) <=> a[0] = b[0] /\ a[1] = b[1] /\ a[2] = b[2]
    OBVIOUS
  <2>5. Above(a, p) = u * B + a[2] /\ Above(b, p) = v * B + b[2]
    BY <1>7 DEF Above, B
  <2> HIDE DEF u, v
  <2> QED
    BY <1>7, <2>2, <2>3, <2>4, <2>5
<1> QED
  BY <1>4, <1>5, <1>6, <1>7

LEMMA PrefixIs ==
  ASSUME NEW a \in Digits, NEW b \in Digits, NEW p \in 0..3, NEW r \in 0..Bits,
         NEW len, 4 * Bits - len = Bits * (3 - p) + r
  PROVE  /\ InPrefix(b, a, len) <=> /\ \A i \in 0..3 : i < p => a[i] = b[i]
                                    /\ a[p] \div 2^r = b[p] \div 2^r
         /\ HostBitsZero(a, len) <=> a[p] % 2^r = 0 /\ \A i \in 0..3 : i > p => a[i] = 0
<1> DEFINE c == 2^r
           K == 2^(Bits - r)
           U == Unit(p)
           d == 2^(4 * Bits - len)
           x == a[p] \div c
           y == b[p] \div c
           m == a[p] % c
           H == Above(a, p)
           J == Above(b, p)
           L == Below(a, p)
<1>1. d = c * U
  BY UnitIs
<1>2. /\ K \in Nat /\ K > 0 /\ c \in Nat /\ c > 0 /\ x \in Nat /\ x < K /\ y \in Nat /\ y < K
      /\ Number(a) \div d = H * K + x /\ Number(b) \div d = J * K + y
      /\ Number(a) % d = m * U + L
  BY <1>1, Cut
<1>3. H \in Nat /\ J \in Nat /\ U \in Nat /\ L \in Nat /\ L < U /\ m \in Nat
  BY <1>2, Place, DivMod
<1>4. InPrefix(b, a, len) <=> H * K + x = J * K + y
  BY <1>2 DEF InPrefix
<1>5. HostBitsZero(a, len) <=> m * U + L = 0
  BY <1>2 DEF HostBitsZero
<1>6. H * K + x = J * K + y <=> H = J /\ x = y
  <2> HIDE DEF H, K, x, J, y
  <2> QED
    BY <1>2, <1>3, SameParts
<1>7. m * U + L = 0 <=> m = 0 /\ L = 0
  <2> HIDE DEF m, U, L
  <2> QED
    BY <1>3, ZeroParts
<1>8. L = 0 <=> \A i \in 0..3 : i > p => a[i] = 0
  <2>1. Base \in Nat /\ Base > 1 /\ \A i \in 0..3 : a[i] \in Nat
    BY BaseIs, Place
  <2>2. a[0] \in Nat /\ a[1] \in Nat /\ a[2] \in Nat /\ a[3] \in Nat
    BY <2>1
  <2> HIDE DEF L
  <2>7. \A u, v \in Nat : u * Base + v = 0 <=> u = 0 /\ v = 0
    BY <2>1, ZeroParts
  <2>3. CASE p = 0
    <3>1. L = (a[1] * Base + a[2]) * Base + a[3]
      BY <2>3 DEF Below, L
    <3>2. a[1] * Base + a[2] \in Nat
      BY <2>1, <2>2
    <3>3. L = 0 <=> a[1] * Base + a[2] = 0 /\ a[3] = 0
      BY <2>2, <2>7, <3>1, <3>2
    <3>4. a[1] * Base + a[2] = 0 <=> a[1] = 0 /\ a[2] = 0
      BY <2>2, <2>7
    <3> QED
      BY <2>3, <3>3, <3>4
  <2>4. CASE p = 1
    <3>1. L = a[2] * Base + a[3]
      BY <2>4 DEF Below, L
    <3>2. L = 0 <=> a[2] = 0 /\ a[3] = 0
      BY <2>2, <2>7, <3>1
    <3> QED
      BY <2>4, <3>2
  <2>5. CASE p = 2
    BY <2>5 DEF Below, L
  <2>6. CASE p = 3
    BY <2>6 DEF Below, L
  <2> QED
    BY <2>3, <2>4, <2>5, <2>6
<1> QED
  BY <1>4, <1>5, <1>6, <1>7, <1>8, SameAbove

(* What the box of an IPv6 prefix holds.                                   *)
LEMMA BoxHolds ==
  ASSUME NEW a \in Digits, NEW len \in Lengths, NEW b \in Digits, NEW p \in 0..3, NEW r \in 0..Bits,
         \/ p = WholeWords(len) /\ r = Bits - (len % Bits)
         \/ p = 3 /\ r = 0 /\ WholeWords(len) = 4
  PROVE  InBox(b, ReadIP6Range(a, len)) <=>
           /\ \A i \in 0..3 : i < p => a[i] = b[i]
           /\ a[p] <= b[p] /\ b[p] <= a[p] - (a[p] % 2^r) + 2^r - 1
           /\ \A i \in 0..3 : i > p => a[i] <= b[i]
<1>1. Base \in Nat /\ \A i \in 0..3 : a[i] \in 0..Base - 1 /\ b[i] \in 0..Base - 1
  BY BaseIs DEF Digits
<1>2. InBox(b, ReadIP6Range(a, len)) <=> \A i \in 0..3 : a[i] <= b[i] /\ b[i] <= High6(i, a, len)
  BY DEF InBox, ReadIP6Range, Between
<1>3. \A i \in 0..3 : /\ i < p => High6(i, a, len) = a[i]
                      /\ i > p => High6(i, a, len) = Base - 1
  BY DEF High6
<1>4. High6(p, a, len) = a[p] - (a[p] % 2^r) + 2^r - 1
  <2>1. CASE p = WholeWords(len) /\ r = Bits - (len % Bits)
    BY <2>1, FilledIs DEF High6
  <2>2. CASE p = 3 /\ r = 0 /\ WholeWords(len) = 4
    <3>1. High6(p, a, len) = a[p]
      BY <2>2 DEF High6
    <3>2. a[p] % 1 = 0
      BY <1>1
    <3> QED
      BY <1>1, <2>2, <3>1, <3>2, PowZero
  <2> QED
    BY <2>1, <2>2
<1>5. \A i \in 0..3 : i < p \/ i = p \/ i > p
  OBVIOUS
<1>6. ASSUME InBox(b, ReadIP6Range(a, len))
      PROVE  /\ \A i \in 0..3 : i < p => a[i] = b[i]
             /\ a[p] <= b[p] /\ b[p] <= a[p] - (a[p] % 2^r) + 2^r - 1
             /\ \A i \in 0..3 : i > p => a[i] <= b[i]
  <2>1. \A i \in 0..3 : a[i] <= b[i] /\ b[i] <= High6(i, a, len)
    BY <1>2, <1>6
  <2>2. \A i \in 0..3 : i < p => a[i] = b[i]
    BY <1>1, <1>3, <2>1
  <2>3. a[p] <= b[p] /\ b[p] <= High6(p, a, len)
    BY <2>1
  <2> QED
    BY <1>4, <2>1, <2>2, <2>3
<1>7. ASSUME /\ \A i \in 0..3 : i < p => a[i] = b[i]
             /\ a[p] <= b[p] /\ b[p] <= a[p] - (a[p] % 2^r) + 2^r - 1
             /\ \A i \in 0..3 : i > p => a[i] <= b[i]
      PROVE  InBox(b, ReadIP6Range(a, len))
  BY <1>1, <1>2, <1>3, <1>4, <1>5, <1>7
<1> QED
  BY <1>6, <1>7

LEMMA ReadV6 ==
  ASSUME NEW a \in Digits, NEW len \in Lengths
  PROVE  /\ InsideV6(<<a, len>>, ReadIP6Range(a, len))
         /\ WholeV6(<<a, len>>, ReadIP6Range(a, len)) <=> HostBitsZero(a, len)
<1> DEFINE box == ReadIP6Range(a, len)
<1>1. PICK p \in 0..3, r \in 0..Bits :
         /\ 4 * Bits - len = Bits * (3 - p) + r
         /\ \/ p = WholeWords(len) /\ r = Bits - (len % Bits)
            \/ p = 3 /\ r = 0 /\ WholeWords(len) = 4
  BY LengthIs
<1> DEFINE c == 2^r
<1>2. c \in Nat /\ c > 0 /\ \A e \in Digits : e[p] \in Nat
  BY Cut, Place
<1>3. \A b \in Digits :
        InBox(b, box) <=> /\ \A i \in 0..3 : i < p => a[i] = b[i]
                          /\ a[p] <= b[p] /\ b[p] <= a[p] - (a[p] % c) + c - 1
                          /\ \A i \in 0..3 : i > p => a[i] <= b[i]
  BY <1>1, BoxHolds
<1>4. \A b \in Digits :
        InPrefix(b, a, len) <=> /\ \A i \in 0..3 : i < p => a[i] = b[i]
                                /\ a[p] \div c = b[p] \div c
  BY <1>1, PrefixIs
<1>5. HostBitsZero(a, len) <=> a[p] % c = 0 /\ \A i \in 0..3 : i > p => a[i] = 0
  BY <1>1, PrefixIs
<1> HIDE DEF box, c
<1>6. \A b \in Digits : (a[p] - (a[p] % c) <= b[p] /\ b[p] <= a[p] - (a[p] % c) + c - 1)
                          <=> b[p] \div c = a[p] \div c
  BY <1>2, SameQuotient
<1>7. a[p] % c \in Nat
  BY <1>2, DivMod
<1>8. \A b \in Digits : InBox(b, box) => InPrefix(b, a, len)
  BY <1>2, <1>3, <1>4, <1>6, <1>7
<1>9. ASSUME HostBitsZero(a, len), NEW b \in Digits, InPrefix(b, a, len) PROVE InBox(b, box)
  <2>1. \A i \in 0..3 : b[i] >= 0
    BY Place
  <2>2. (\A i \in 0..3 : i < p => a[i] = b[i]) /\ a[p] \div c = b[p] \div c
    BY <1>4, <1>9
  <2>3. a[p] <= b[p] /\ b[p] <= a[p] - (a[p] % c) + c - 1
    BY <1>2, <1>5, <1>6, <1>9, <2>2
  <2>4. \A i \in 0..3 : i > p => a[i] <= b[i]
    BY <1>5, <1>9, <2>1
  <2> QED
    BY <2>2, <2>3, <2>4, <1>3
<1>10. ASSUME \A b \in Digits : InPrefix(b, a, len) => InBox(b, box) PROVE HostBitsZero(a, len)
  <2> DEFINE b == [i \in 0..3 |-> IF i < p THEN a[i] ELSE IF i = p THEN a[i] - (a[i] % c) ELSE 0]
  <2>1. a[p] - (a[p] % c) \in 0..Base - 1
    BY FilledIs DEF c
  <2>2. \A i \in 0..3 : a[i] \in 0..Base - 1 /\ 0 \in 0..Base - 1
    BY BaseIs DEF Digits
  <2>3. b \in Digits
    BY <2>1, <2>2 DEF Digits
  <2>4. /\ b[p] = a[p] - (a[p] % c)
        /\ \A i \in 0..3 : i < p => b[i] = a[i]
        /\ \A i \in 0..3 : i > p => b[i] = 0
    OBVIOUS
  <2> HIDE DEF b
  <2>5. b[p] \div c = a[p] \div c
    BY <1>2, <1>6, <1>7, <2>3, <2>4
  <2>6. InBox(b, box)
    BY <1>4, <1>10, <2>3, <2>4, <2>5
  <2>7. a[p] <= b[p] /\ \A i \in 0..3 : i > p => a[i] <= b[i]
    BY <1>3, <2>3, <2>6
  <2>8. a[p] % c = 0
    BY <1>2, <1>7, <2>4, <2>7
  <2>9. \A i \in 0..3 : i > p => a[i] = 0
    BY <2>2, <2>4, <2>7
  <2> QED
    BY <1>5, <2>8, <2>9
<1> QED
  BY <1>8, <1>9, <1>10 DEF InsideV6, WholeV6, box

-----------------------------------------------------------------------------
(* The inductive invariant.                                                *)

Entry == [cost : Nat, rule : DOMAIN file, ip : {Address(file[n].prefix) : n \in DOMAIN file}]

(* How far the file is read, and what of it is in filtArr: the rules up to *)
(* pos, each once and in order, and nothing bad was met.                   *)
Taken ==
  /\ file \in Seq(Item) /\ pos \in 0..Len(file) /\ eof \in BOOLEAN
  /\ eof => pos = Len(file)
  /\ filters \in Seq(Entry)
  /\ \A k \in 1..Len(filters) : /\ filters[k].cost = k - 1 /\ filters[k].rule \in 1..pos
                                /\ file[filters[k].rule].kind = "rule"
  /\ \A j, k \in 1..Len(filters) : j < k => filters[j].rule < filters[k].rule
  /\ \A n \in 1..pos : file[n].kind = "rule" => \E k \in 1..Len(filters) : filters[k].rule = n
  /\ \A n \in 1..pos : file[n].kind # "bad"

Loading == pc \in {"load", "read"} /\ ~eof

(* A call that starts at the end of a file of one character or more comes  *)
(* behind a character: a rule there would have set feof.                   *)
AtEnd == Loading /\ pos = Len(file) /\ file # <<>> /\ tail = "eof"

IInv ==
  /\ Taken
  /\ pc \in {"load", "read", "copy", "done", "exit", "overrun", "crash"}
  /\ tail \in {"eof", "error"} /\ line \in Nat /\ (Loading => line = Len(filters))
  /\ AtEnd => pc = "read" /\ validfilter = "char"
  /\ pc = "copy" => eof
  /\ pc = "overrun" => Len(filters) > MAXFILTERS
  /\ pc = "exit" => Bad # {} \/ file = <<>> \/ tail = "error"
  /\ pc # "done" => ruleset = <<>>
  /\ FileLoaded

-----------------------------------------------------------------------------
LEMMA Least ==
  ASSUME NEW S \in SUBSET Nat, S # {}
  PROVE  \E n \in S : \A m \in S : n <= m
<1> DEFINE T == {0..n : n \in S}
           R == StrictSubsetOrdering(Nat)
<1>0. \A n \in S : 0..n \in FiniteSubsetsOf(Nat)
  BY FS_Interval DEF FiniteSubsetsOf
<1>1. T \subseteq FiniteSubsetsOf(Nat) /\ T # {}
  BY <1>0
<1>2. PICK x \in T : \A y \in T : ~ (<<y, x>> \in R)
  <2> HIDE DEF T
  <2> QED
    BY <1>1, FS_StrictSubsetOrderingWellFounded, WFMin
<1>3. PICK n \in S : x = 0..n
  OBVIOUS
<1>4. ASSUME NEW m \in S, m < n PROVE FALSE
  <2>1. 0..m \in T /\ 0..m \subseteq 0..n /\ n \in 0..n /\ n \notin 0..m
    BY <1>4
  <2>2. <<0..m, x>> \in R
    BY <2>1, <1>3 DEF StrictSubsetOrdering
  <2> QED
    BY <2>1, <2>2, <1>2
<1> QED
  BY <1>4

(* Numbers rearranged in ascending order stand where they were.            *)
LEMMA AscendingIsSame ==
  ASSUME NEW n \in Nat, NEW p \in Bijection(1..n, 1..n),
         \A j, k \in 1..n : j < k => p[j] <= p[k]
  PROVE  \A k \in 1..n : p[k] = k
<1>1. /\ \A k \in 1..n : p[k] \in 1..n
      /\ \A j, k \in 1..n : p[j] = p[k] => j = k
      /\ \A m \in 1..n : \E k \in 1..n : p[k] = m
  BY DEF Bijection, Injection, Surjection, IsInjective
<1> DEFINE S == {k \in 1..n : p[k] # k}
<1> SUFFICES ASSUME S # {} PROVE FALSE
  OBVIOUS
<1>2. PICK k \in S : \A j \in S : k <= j
  <2>1. S \in SUBSET Nat
    OBVIOUS
  <2> HIDE DEF S
  <2> QED
    BY <2>1, Least
<1>3. \A j \in 1..n : j < k => p[j] = j
  BY <1>2
<1>4. p[k] > k
  <2>1. k \in 1..n /\ p[k] \in 1..n /\ p[k] # k
    BY <1>1
  <2>2. ASSUME p[k] < k PROVE FALSE
    <3>1. p[p[k]] = p[k]
      BY <2>1, <2>2, <1>3
    <3> QED
      BY <2>1, <3>1, <1>1
  <2> QED
    BY <2>1, <2>2
<1>5. PICK m \in 1..n : p[m] = k
  BY <1>1, <1>2
<1>6. k \in 1..n /\ p[k] \in 1..n /\ p[k] # k
  BY <1>1
<1>7. m > k
  BY <1>3, <1>5, <1>6
<1>8. p[k] <= p[m]
  BY <1>6, <1>7
<1> QED
  BY <1>4, <1>5, <1>6, <1>8

-----------------------------------------------------------------------------
LEMMA InitIInv == Init => IInv
<1> SUFFICES ASSUME Init PROVE IInv
  OBVIOUS
<1>1. /\ file \in Seq(Item) /\ tail \in {"eof", "error"} /\ pos = 0
      /\ ~eof /\ eof \in BOOLEAN /\ line = 0 /\ pc = "load"
      /\ filters = <<>> /\ ruleset = <<>>
  BY FilesAssumption, TailsAssumption DEF Init
<1>2. Len(file) \in Nat /\ filters \in Seq(Entry) /\ Len(filters) = 0
  BY <1>1
<1>3. Taken
  BY <1>1, <1>2 DEF Taken
<1>4. file # <<>> => Len(file) # 0
  BY <1>1
<1> QED
  BY <1>1, <1>2, <1>3, <1>4 DEF IInv, Loading, AtEnd, FileLoaded

(* Nothing is taken in a step that leaves pos and filters as they are.     *)
LEMMA TakenKept ==
  ASSUME Taken, UNCHANGED <<file, v6, pos, filters>>, eof' \in BOOLEAN, eof' => pos = Len(file)
  PROVE  Taken'
<1>1. Entry' = Entry
  BY DEF Entry, Address
<1> QED
  BY <1>1 DEF Taken

LEMMA SkipKeeps == IInv /\ Skip => IInv'
<1> SUFFICES ASSUME IInv, Skip PROVE IInv'
  OBVIOUS
<1>1. /\ pc = "read" /\ ~eof /\ Scanned # "@" /\ validfilter' = Scanned
      /\ UNCHANGED <<file, tail, v6, line, filters, ruleset, pc>>
  BY DEF Skip
<1>2. /\ Taken /\ Len(file) \in Nat /\ pos \in Nat /\ pos <= Len(file)
      /\ line = Len(filters) /\ line \in Nat
  BY <1>1 DEF IInv, Taken, Loading
<1>3. Entry' = Entry
  BY <1>1 DEF Entry, Address
<1>4. CASE More
  <2>1. pos' = pos + 1 /\ ~eof' /\ eof' \in BOOLEAN /\ pos < Len(file)
    BY <1>4 DEF Skip, More
  <2>2. file[pos + 1].kind = "char" /\ validfilter' = "char"
    BY <1>1, <1>4 DEF Scanned
  <2>3. \A n \in 1..pos + 1 : n \in 1..pos \/ n = pos + 1
    BY <1>2
  <2>4. Taken'
    <3>1. /\ file' = file /\ filters' = filters /\ pos' = pos + 1 /\ Entry' = Entry /\ Item' = Item
          /\ pos + 1 \in 0..Len(file) /\ ~eof' /\ eof' \in BOOLEAN
      BY <1>1, <1>2, <1>3, <2>1 DEF Item
    <3>2. /\ file \in Seq(Item) /\ filters \in Seq(Entry)
          /\ \A k \in 1..Len(filters) : /\ filters[k].cost = k - 1 /\ filters[k].rule \in 1..pos
                                        /\ file[filters[k].rule].kind = "rule"
          /\ \A j, k \in 1..Len(filters) : j < k => filters[j].rule < filters[k].rule
      BY <1>2 DEF Taken
    <3>3. \A n \in 1..pos :
            /\ file[n].kind # "bad"
            /\ file[n].kind = "rule" => \E k \in 1..Len(filters) : filters[k].rule = n
      BY <1>2 DEF Taken
    <3>4. \A n \in 1..pos : n \in 1..pos + 1
      BY <1>2
    <3>5. \A k \in 1..Len(filters) : /\ filters[k].cost = k - 1 /\ filters[k].rule \in 1..pos + 1
                                     /\ file[filters[k].rule].kind = "rule"
      BY ONLY <3>2, <3>4
    <3>6. \A n \in 1..pos + 1 :
            /\ file[n].kind # "bad"
            /\ file[n].kind = "rule" => \E k \in 1..Len(filters) : filters[k].rule = n
      BY ONLY <2>2, <2>3, <3>3
    <3> QED
      BY ONLY <3>1, <3>2, <3>5, <3>6 DEF Taken
  <2> QED
    BY <1>1, <1>2, <2>1, <2>2, <2>4 DEF IInv, Loading, AtEnd, FileLoaded
<1>5. CASE ~More
  <2>1. pos' = pos /\ eof' = EofAfter(pos) /\ pos = Len(file)
    BY <1>2, <1>5 DEF Skip, More, EofAfter
  <2>2. eof' \in BOOLEAN /\ (tail = "eof" => eof') /\ validfilter' = validfilter
    BY <1>1, <1>5, <2>1 DEF EofAfter, Scanned
  <2>3. Taken'
    BY <1>1, <1>2, <2>1, <2>2, TakenKept
  <2> QED
    BY <1>1, <1>2, <2>1, <2>2, <2>3 DEF IInv, Loading, AtEnd, FileLoaded
<1> QED
  BY <1>4, <1>5

LEMMA TakeRuleKeeps == IInv /\ TakeRule => IInv'
<1> SUFFICES ASSUME IInv, TakeRule PROVE IInv'
  OBVIOUS
<1> DEFINE e == [cost |-> Cost, rule |-> pos + 1, ip |-> Address(file[pos + 1].prefix)]
           h == Len(filters)
<1>1. /\ pc = "read" /\ ~eof /\ More /\ file[pos + 1].kind = "rule"
      /\ filters' = Append(filters, e) /\ pos' = pos + 1 /\ eof' = EofAfter(pos + 1)
      /\ line' = line + 1 /\ pc' = IF h < MAXFILTERS THEN "load" ELSE "overrun"
      /\ UNCHANGED <<file, tail, v6, validfilter, ruleset>>
  BY DEF TakeRule
<1>2. /\ Taken /\ Len(file) \in Nat /\ pos \in Nat /\ pos < Len(file) /\ line = h /\ h \in Nat
      /\ filters \in Seq(Entry)
  BY <1>1 DEF IInv, Taken, Loading, More
<1>3. Entry' = Entry
  BY <1>1 DEF Entry, Address
<1>4. e.cost = h /\ e.rule = pos + 1 /\ e \in Entry
  <2>1. pos + 1 \in DOMAIN file
    BY <1>2 DEF Taken
  <2> QED
    BY <1>2, <2>1 DEF Entry, Cost
<1> HIDE DEF e
<1>5. /\ filters' \in Seq(Entry) /\ Len(filters') = h + 1 /\ filters'[h + 1] = e
      /\ \A k \in 1..h : filters'[k] = filters[k]
  BY <1>1, <1>2, <1>4, AppendProperties
<1> HIDE DEF h
<1>6. /\ \A k \in 1..h + 1 : k \in 1..h \/ k = h + 1
      /\ \A k \in 1..h : k \in 1..h + 1
      /\ \A n \in 1..pos + 1 : n \in 1..pos \/ n = pos + 1
      /\ h + 1 \in 1..h + 1
  BY <1>2
<1>7. /\ \A k \in 1..h : /\ filters[k].cost = k - 1 /\ filters[k].rule \in 1..pos
                         /\ file[filters[k].rule].kind = "rule"
      /\ \A j, k \in 1..h : j < k => filters[j].rule < filters[k].rule
      /\ \A n \in 1..pos : file[n].kind = "rule" => \E k \in 1..h : filters[k].rule = n
      /\ \A n \in 1..pos : file[n].kind # "bad"
  BY <1>2 DEF Taken, h
<1>8. \A k \in 1..h + 1 : /\ filters'[k].cost = k - 1 /\ filters'[k].rule \in 1..pos + 1
                          /\ file[filters'[k].rule].kind = "rule"
  BY <1>1, <1>2, <1>4, <1>5, <1>6, <1>7
<1>9. \A j, k \in 1..h + 1 : j < k => filters'[j].rule < filters'[k].rule
  <2> SUFFICES ASSUME NEW j \in 1..h + 1, NEW k \in 1..h + 1, j < k
               PROVE  filters'[j].rule < filters'[k].rule
    OBVIOUS
  <2>1. j \in 1..h /\ filters'[j].rule = filters[j].rule /\ filters[j].rule \in 1..pos
    BY <1>2, <1>5, <1>7
  <2>2. CASE k \in 1..h
    BY <2>1, <2>2, <1>5, <1>7
  <2>3. CASE k = h + 1
    BY <2>1, <2>3, <1>2, <1>4, <1>5
  <2> QED
    BY <1>6, <2>2, <2>3
<1>10. \A n \in 1..pos + 1 : file[n].kind = "rule" => \E k \in 1..h + 1 : filters'[k].rule = n
  BY <1>4, <1>5, <1>6, <1>7
<1>11. \A n \in 1..pos + 1 : file[n].kind # "bad"
  BY <1>1, <1>6, <1>7
<1>12. eof' \in BOOLEAN /\ (eof' => pos + 1 = Len(file))
       /\ (pos + 1 = Len(file) /\ tail = "eof" => eof')
  BY <1>1 DEF EofAfter
<1>13. Taken'
  <2>1. filters' \in Seq(Entry')
    BY <1>3, <1>5
  <2>2. /\ file' = file /\ pos' = pos + 1 /\ pos + 1 \in 0..Len(file) /\ file \in Seq(Item)
    BY <1>1, <1>2 DEF Taken
  <2>3. /\ \A k \in 1..Len(filters') : /\ filters'[k].cost = k - 1
                                       /\ filters'[k].rule \in 1..pos'
                                       /\ file[filters'[k].rule].kind = "rule"
        /\ \A j, k \in 1..Len(filters') : j < k => filters'[j].rule < filters'[k].rule
        /\ \A n \in 1..pos' : file[n].kind = "rule"
                                => \E k \in 1..Len(filters') : filters'[k].rule = n
    BY <1>5, <1>8, <1>9, <1>10, <2>2
  <2>4. eof' \in BOOLEAN /\ (eof' => pos' = Len(file'))
    BY <1>12, <2>2
  <2>5. file' \in Seq(Item') /\ pos' \in 0..Len(file')
    BY <2>2 DEF Item
  <2>6. \A k \in 1..Len(filters') : /\ filters'[k].cost = k - 1
                                     /\ filters'[k].rule \in 1..pos'
                                     /\ file'[filters'[k].rule].kind = "rule"
    BY ONLY <2>2, <2>3
  <2>7. \A n \in 1..pos' :
          file'[n].kind = "rule" => \E k \in 1..Len(filters') : filters'[k].rule = n
    BY ONLY <2>2, <2>3
  <2>8. \A n \in 1..pos' : file'[n].kind # "bad"
    BY ONLY <2>2, <1>11
  <2>9. \A j, k \in 1..Len(filters') : j < k => filters'[j].rule < filters'[k].rule
    BY ONLY <2>3
  <2> QED
    BY ONLY <2>1, <2>4, <2>5, <2>6, <2>7, <2>8, <2>9 DEF Taken
<1>14. pc' \in {"load", "overrun"} /\ (pc' = "overrun" => h + 1 > MAXFILTERS)
  BY <1>1, <1>2, FilterAssumption
<1>15. line' \in Nat /\ line' = Len(filters') /\ ~AtEnd'
  BY <1>1, <1>2, <1>5, <1>12 DEF AtEnd, Loading
<1> QED
  BY <1>1, <1>5, <1>13, <1>14, <1>15 DEF IInv, FileLoaded

LEMMA RejectKeeps == IInv /\ Reject => IInv'
<1> SUFFICES ASSUME IInv, Reject PROVE IInv'
  OBVIOUS
<1>1. /\ pc = "read" /\ ~eof /\ Scanned = "@" /\ ~(More /\ file[pos + 1].kind = "rule")
      /\ pc' = "exit"
      /\ UNCHANGED <<file, tail, v6, pos, eof, line, validfilter, filters, ruleset>>
  BY DEF Reject
<1>2. /\ Taken /\ Len(file) \in Nat /\ pos \in Nat /\ pos <= Len(file)
      /\ file \in Seq(Item)
  BY DEF IInv, Taken
<1>3. Bad # {} \/ file = <<>> \/ tail = "error"
  <2>1. CASE More
    <3>1. pos + 1 \in DOMAIN file /\ file[pos + 1] \in Item
      BY <1>2, <2>1 DEF More
    <3>2. file[pos + 1].kind \in {"rule", "bad", "char"}
      BY <3>1 DEF Item
    <3>3. file[pos + 1].kind = "bad"
      BY <1>1, <2>1, <3>2 DEF Scanned
    <3> QED
      BY <3>1, <3>3 DEF Bad
  <2>2. CASE ~More
    <3>1. pos = Len(file) /\ validfilter = "@"
      BY <1>1, <1>2, <2>2 DEF More, Scanned
    <3>2. ~AtEnd
      BY <3>1 DEF IInv
    <3> QED
      BY <1>1, <3>1, <3>2 DEF AtEnd, Loading, IInv
  <2> QED
    BY <2>1, <2>2
<1>4. Taken' /\ Bad' = Bad
  BY <1>1, <1>2, TakenKept DEF Taken, Bad
<1> QED
  BY <1>1, <1>3, <1>4 DEF IInv, Loading, AtEnd, FileLoaded

LEMMA CopyKeeps == IInv /\ Copy => IInv'
<1> SUFFICES ASSUME IInv, Copy PROVE IInv'
  OBVIOUS
<1> DEFINE h == Len(filters)
<1>1. /\ pc = "copy" /\ pc' = "done"
      /\ UNCHANGED <<file, tail, v6, pos, eof, line, validfilter, filters>>
  BY DEF Copy
<1>2. /\ Taken /\ filters \in Seq(Entry) /\ h \in Nat /\ DOMAIN filters = 1..h
      /\ pos = Len(file) /\ DOMAIN file = 1..pos /\ file \in Seq(Item)
  BY <1>1 DEF IInv, Taken
<1>3. /\ \A k \in 1..h : /\ filters[k].cost = k - 1 /\ filters[k].rule \in 1..pos
                         /\ file[filters[k].rule].kind = "rule"
      /\ \A j, k \in 1..h : j < k => filters[j].rule < filters[k].rule
      /\ \A n \in 1..pos : file[n].kind = "rule" => \E k \in 1..h : filters[k].rule = n
      /\ \A n \in 1..pos : file[n].kind # "bad"
  BY <1>2 DEF Taken
<1>4. PICK p \in Bijection(1..h, 1..h) :
        LET sorted == [k \in 1..h |-> RuleOf(filters[p[k]])]
        IN  /\ \A m, n \in 1..h : m < n => ~Before(sorted[n], sorted[m])
            /\ ruleset' = sorted
  BY <1>2 DEF Copy
<1> HIDE DEF h
<1>5. \A k \in 1..h : p[k] \in 1..h
  BY DEF Bijection, Injection
<1>6. \A m, n \in 1..h : m < n => p[m] <= p[n]
  <2> SUFFICES ASSUME NEW m \in 1..h, NEW n \in 1..h, m < n PROVE p[m] <= p[n]
    OBVIOUS
  <2>1. ~(filters[p[n]].cost < filters[p[m]].cost)
    BY <1>4 DEF Before, RuleOf
  <2>2. filters[p[n]].cost = p[n] - 1 /\ filters[p[m]].cost = p[m] - 1
    BY <1>3, <1>5
  <2> QED
    BY <2>1, <2>2, <1>5
<1>7. \A k \in 1..h : p[k] = k
  BY <1>2, <1>6, AscendingIsSame
<1>8. DOMAIN ruleset' = 1..h /\ \A k \in 1..h : ruleset'[k] = RuleOf(filters[k])
  BY <1>4, <1>7
<1>9. \A k \in 1..h : ruleset'[k].pri = k - 1 /\ ruleset'[k].rule = filters[k].rule
  BY <1>3, <1>8 DEF RuleOf
<1>10. Bad' = {}
  BY <1>1, <1>2, <1>3 DEF Bad
<1>11. {ruleset'[k].rule : k \in DOMAIN ruleset'} = Rules'
  <2>1. Rules' = {n \in 1..pos : file[n].kind = "rule"}
    BY <1>1, <1>2 DEF Rules
  <2> QED
    BY <2>1, <1>3, <1>8, <1>9
<1>12. \A k \in 1..h : k > 1 => ruleset'[k - 1].rule < ruleset'[k].rule
  <2> SUFFICES ASSUME NEW k \in 1..h, k > 1 PROVE ruleset'[k - 1].rule < ruleset'[k].rule
    OBVIOUS
  <2>1. k - 1 \in 1..h /\ k - 1 < k
    BY <1>2
  <2> QED
    BY <2>1, <1>3, <1>9
<1>13. FileLoaded'
  BY <1>8, <1>9, <1>10, <1>11, <1>12 DEF FileLoaded
<1>14. Taken'
  BY <1>1, <1>2, TakenKept DEF Taken
<1> QED
  BY <1>1, <1>13, <1>14 DEF IInv, Loading, AtEnd

LEMMA NextKeeps == IInv /\ [Next]_vars => IInv'
<1> SUFFICES ASSUME IInv, [Next]_vars PROVE IInv'
  OBVIOUS
<1>1. Taken /\ eof \in BOOLEAN /\ (eof => pos = Len(file))
  BY DEF IInv, Taken
<1>2. CASE LoadNext
  <2>1. ~(pos = Len(file) /\ file # <<>> /\ tail = "eof")
    BY <1>2 DEF LoadNext, IInv, AtEnd, Loading
  <2>2. Taken'
    BY <1>1, <1>2, TakenKept DEF LoadNext
  <2> QED
    BY <1>2, <2>1, <2>2 DEF LoadNext, IInv, AtEnd, Loading, FileLoaded
<1>3. CASE LoadEnd
  <2>1. Taken'
    BY <1>1, <1>3, TakenKept DEF LoadEnd
  <2> QED
    BY <1>3, <2>1 DEF LoadEnd, IInv, AtEnd, Loading, FileLoaded
<1>4. CASE NoMoreRules
  <2>1. Taken'
    BY <1>1, <1>4, TakenKept DEF NoMoreRules
  <2> QED
    BY <1>4, <2>1 DEF NoMoreRules, IInv, AtEnd, Loading, FileLoaded
<1>5. CASE CopyNoMemory
  <2>1. Taken'
    BY <1>1, <1>5, TakenKept DEF CopyNoMemory
  <2>2. CASE filters = <<>>
    <3>1. /\ pos = Len(file) /\ file \in Seq(Item) /\ DOMAIN file = 1..pos
          /\ Len(filters) = 0 /\ 1..Len(filters) = {}
      BY <1>1, <1>5, <2>2 DEF CopyNoMemory, IInv, Taken
    <3>2. Bad = {} /\ Rules = {}
      BY <1>1, <3>1 DEF Taken, Bad, Rules
    <3>3. ruleset' = <<>> /\ file' = file
      BY <1>5 DEF CopyNoMemory, IInv
    <3>4. FileLoaded'
      <4>1. Bad' = {} /\ Rules' = {}
        BY <3>2, <3>3 DEF Bad, Rules
      <4>2. DOMAIN ruleset' = {}
        BY <3>3
      <4> QED
        BY <4>1, <4>2 DEF FileLoaded
    <3> QED
      BY <1>5, <2>1, <2>2, <3>4 DEF CopyNoMemory, IInv, AtEnd, Loading
  <2>3. CASE filters # <<>>
    BY <1>5, <2>1, <2>3 DEF CopyNoMemory, IInv, AtEnd, Loading, FileLoaded
  <2> QED
    BY <2>2, <2>3
<1>6. CASE UNCHANGED vars
  <2>1. Taken'
    BY <1>1, <1>6, TakenKept DEF vars
  <2> QED
    BY <1>6, <2>1 DEF vars, IInv, AtEnd, Loading, FileLoaded, Bad, Rules
<1> QED
  BY <1>2, <1>3, <1>4, <1>5, <1>6, SkipKeeps, TakeRuleKeeps, RejectKeeps, CopyKeeps DEF Next

(* One filter per rule: more filters than slots means more rules.          *)
LEMMA InvReject == IInv => RejectedForReason
<1> SUFFICES ASSUME IInv, pc = "overrun" PROVE Cardinality(Rules) > MAXFILTERS
  BY DEF IInv, RejectedForReason
<1> DEFINE h == Len(filters)
           r == [k \in 1..h |-> filters[k].rule]
<1>1. h \in Nat /\ h > MAXFILTERS /\ file \in Seq(Item) /\ pos \in 0..Len(file)
  BY DEF IInv, Taken
<1>2. /\ \A k \in 1..h : filters[k].rule \in 1..pos /\ file[filters[k].rule].kind = "rule"
      /\ \A j, k \in 1..h : j < k => filters[j].rule < filters[k].rule
  BY DEF IInv, Taken
<1> HIDE DEF h
<1>3. \A k \in 1..h : r[k] \in Rules
  BY <1>1, <1>2 DEF Rules
<1>4. \A j, k \in 1..h : r[j] = r[k] => j = k
  <2> SUFFICES ASSUME NEW j \in 1..h, NEW k \in 1..h, j # k PROVE r[j] # r[k]
    OBVIOUS
  <2>1. j < k \/ k < j
    BY <1>1
  <2>2. r[j] \in 1..pos /\ r[k] \in 1..pos
    BY <1>2
  <2> QED
    BY <1>1, <1>2, <2>1, <2>2
<1>5. r \in Injection(1..h, Rules)
  BY <1>3, <1>4 DEF Injection, IsInjective
<1>6. IsFiniteSet(Rules)
  <2>1. DOMAIN file = 1..Len(file) /\ Len(file) \in Nat
    BY <1>1
  <2>2. IsFiniteSet(1..Len(file)) /\ Rules \subseteq 1..Len(file)
    BY <2>1, FS_Interval DEF Rules
  <2> QED
    BY <2>2, FS_Subset
<1>7. IsFiniteSet(1..h) /\ Cardinality(1..h) = h
  BY <1>1, FS_Interval
<1> HIDE DEF r
<1>8. Cardinality(1..h) <= Cardinality(Rules)
  BY <1>5, <1>6, <1>7, FS_Injection
<1>9. Cardinality(Rules) \in Nat
  BY <1>6, FS_CardinalityType
<1> QED
  BY <1>1, <1>7, <1>8, <1>9, FilterAssumption

LEMMA Invariant == Spec => []IInv
<1> QED
  BY InitIInv, NextKeeps, PTL DEF Spec

(* A file that ReadFilterFile reads at all it reads whole: it met no       *)
(* ill-formed rule, and the rules it returns are the file's, each once, in *)
(* the order of the file, the k-th with priority k - 1.                    *)
THEOREM AlwaysLoaded == Spec => []FileLoaded
<1>1. IInv => FileLoaded
  BY DEF IInv
<1> QED
  BY <1>1, Invariant, PTL

(* ReadFilter exits over an ill-formed rule or over the two files whose    *)
(* end meets a validfilter nobody set, and LoadFilters writes past filtArr *)
(* for a file of more than MAXFILTERS rules only.                          *)
THEOREM AlwaysForReason == Spec => []RejectedForReason
<1> QED
  BY InvReject, Invariant, PTL

-----------------------------------------------------------------------------
(* Every address is the one its prefix stands for, in filtArr and in what  *)
(* is returned.                                                            *)
Translated ==
  /\ \A k \in 1..Len(filters) : filters[k].ip = Address(file[filters[k].rule].prefix)
  /\ \A k \in DOMAIN ruleset : /\ ruleset[k].rule \in Rules
                               /\ ruleset[k].ip = Address(file[ruleset[k].rule].prefix)

LEMMA StepTranslated == IInv /\ Translated /\ [Next]_vars => Translated'
<1> SUFFICES ASSUME IInv, Translated, [Next]_vars PROVE Translated'
  OBVIOUS
<1>1. UNCHANGED <<file, v6>>
  BY DEF Next, vars, LoadNext, LoadEnd, Skip, TakeRule, Reject, NoMoreRules, Copy, CopyNoMemory
<1>2. ASSUME NEW x PROVE Address(x)' = Address(x')
  BY <1>1 DEF Address
<1>3. Rules' = Rules
  BY <1>1 DEF Rules
<1>4. CASE UNCHANGED <<filters, ruleset>>
  BY <1>1, <1>3, <1>4 DEF Translated, Address
<1>5. CASE TakeRule
  <2> DEFINE h == Len(filters)
             e == [cost |-> Cost, rule |-> pos + 1, ip |-> Address(file[pos + 1].prefix)]
  <2>1. filters \in Seq(Entry) /\ h \in Nat
    BY DEF IInv, Taken
  <2>2. filters' = Append(filters, e) /\ UNCHANGED ruleset
    BY <1>5 DEF TakeRule
  <2>3. e.rule = pos + 1 /\ e.ip = Address(file[pos + 1].prefix)
    OBVIOUS
  <2> HIDE DEF e
  <2>4. /\ Len(filters') = h + 1 /\ filters'[h + 1] = e
        /\ \A k \in 1..h : filters'[k] = filters[k]
    BY <2>1, <2>2
  <2>5. \A k \in 1..h : filters'[k].ip = Address(file[filters'[k].rule].prefix)
    BY <2>4 DEF Translated
  <2>6. filters'[h + 1].ip = Address(file[filters'[h + 1].rule].prefix)
    BY <2>3, <2>4
  <2>7. \A k \in 1..h + 1 : k \in 1..h \/ k = h + 1
    BY <2>1
  <2>8. \A k \in 1..Len(filters') : filters'[k].ip = Address(file[filters'[k].rule].prefix)
    BY <2>4, <2>5, <2>6, <2>7
  <2> QED
    BY <1>1, <1>3, <2>2, <2>8 DEF Translated, Address
<1>6. CASE Copy
  <2>1. filters \in Seq(Entry) /\ DOMAIN filters = 1..Len(filters) /\ UNCHANGED filters
    BY <1>6 DEF IInv, Taken, Copy
  <2>2. \A k \in DOMAIN filters : filters[k].rule \in Rules
    <3>1. /\ DOMAIN file = 1..Len(file) /\ pos \in 0..Len(file) /\ Len(file) \in Nat
          /\ \A k \in 1..Len(filters) : /\ filters[k].rule \in 1..pos
                                        /\ file[filters[k].rule].kind = "rule"
      BY DEF IInv, Taken
    <3>2. \A n \in 1..pos : n \in DOMAIN file
      BY ONLY <3>1
    <3> QED
      BY ONLY <2>1, <3>1, <3>2 DEF Rules
  <2>3. PICK p \in Bijection(DOMAIN filters, DOMAIN filters) :
          ruleset' = [k \in DOMAIN filters |-> RuleOf(filters[p[k]])]
    BY <1>6 DEF Copy
  <2>4. \A k \in DOMAIN filters : p[k] \in DOMAIN filters
    BY DEF Bijection, Injection
  <2>5. DOMAIN ruleset' = DOMAIN filters
    BY <2>3
  <2>6. \A k \in DOMAIN filters : /\ ruleset'[k].rule = filters[p[k]].rule
                                  /\ ruleset'[k].ip = filters[p[k]].ip
    BY <2>3 DEF RuleOf
  <2>7. \A k \in DOMAIN ruleset' : /\ ruleset'[k].rule \in Rules
                                   /\ ruleset'[k].ip = Address(file[ruleset'[k].rule].prefix)
    BY <2>1, <2>2, <2>4, <2>5, <2>6 DEF Translated
  <2>8. \A k \in 1..Len(filters) : filters[k].ip = Address(file[filters[k].rule].prefix)
    BY DEF Translated
  <2> QED
    BY <1>1, <1>3, <2>1, <2>7, <2>8 DEF Translated, Address
<1> QED
  BY <1>4, <1>5, <1>6
     DEF Next, vars, LoadNext, LoadEnd, Skip, Reject, NoMoreRules, CopyNoMemory

(* The interval of an IPv4 rule holds the addresses of its prefix and no   *)
(* other; the box of an IPv6 rule lies inside the prefix and is all of it  *)
(* if and only if the file has no host bits: for every prefix length, and  *)
(* any width of an octet or word.                                          *)
THEOREM AlwaysPrefixRead == Spec => []PrefixRead
<1>1. Init => Translated
  <2> SUFFICES ASSUME Init PROVE Translated
    OBVIOUS
  <2>1. filters = <<>> /\ ruleset = <<>>
    BY DEF Init
  <2> QED
    BY <2>1 DEF Translated
<1>2. IInv /\ Translated => PrefixRead
  <2> SUFFICES ASSUME IInv, Translated, NEW k \in DOMAIN ruleset
               PROVE  LET prefix == file[ruleset[k].rule].prefix
                          ip     == ruleset[k].ip
                      IN  IF v6 THEN /\ InsideV6(prefix, ip)
                                     /\ WholeV6(prefix, ip) <=> HostBitsZero(prefix[1], prefix[2])
                                ELSE ExactV4(prefix, ip)
    BY DEF PrefixRead
  <2> DEFINE n == ruleset[k].rule
             prefix == file[n].prefix
  <2>1. n \in DOMAIN file /\ file[n].kind = "rule" /\ ruleset[k].ip = Address(prefix)
    BY DEF Translated, Rules
  <2>2. file[n] \in Item
    BY <2>1 DEF IInv, Taken
  <2>3. prefix \in Digits \X Lengths
    BY <2>1, <2>2 DEF Item
  <2> HIDE DEF n, prefix
  <2>4. PICK a \in Digits, len \in Lengths : prefix = <<a, len>>
    BY <2>3
  <2>5. prefix[1] = a /\ prefix[2] = len
    BY <2>4
  <2>6. CASE v6
    <3>1. ruleset[k].ip = ReadIP6Range(a, len)
      BY <2>1, <2>5, <2>6 DEF Address
    <3> QED
      BY <2>4, <2>5, <2>6, <3>1, ReadV6 DEF prefix, n
  <2>7. CASE ~v6
    <3>1. ruleset[k].ip = ReadIPRange(a, len)
      BY <2>1, <2>5, <2>7 DEF Address
    <3>2. ExactV4(prefix, ruleset[k].ip)
      BY <2>5, <3>1, ReadV4 DEF ExactV4
    <3> QED
      BY <2>7, <3>2 DEF prefix, n
  <2> QED
    BY <2>6, <2>7
<1> QED
  BY <1>1, <1>2, StepTranslated, InitIInv, NextKeeps, PTL DEF Spec

=============================================================================
