----------------------------- MODULE PrefixRange ------------------------------
(***************************************************************************)
(* How the rule file reader turns an address prefix into intervals: one    *)
(* interval of numbers for IPv4, put together from four octets; one per    *)
(* 32-bit word for IPv6.  An address is four digits of Bits bits, octets   *)
(* (8 in the code) or words (32).  No state: FilterFile reads with it.       *)
(***************************************************************************)
EXTENDS Integers

CONSTANT Bits

ASSUME BitsAssumption == Bits \in Nat \ {0}

Base    == 2^Bits
Digits  == [0..3 -> 0..Base - 1]
Lengths == 0..4 * Bits

Number(a) == ((a[0] * Base + a[1]) * Base + a[2]) * Base + a[3]

-----------------------------------------------------------------------------
(* Mutants (see PROJECT.json): slips the runs must notice.                 *)
HostDigits_NoneAtZero(mask) == IF mask = 4 * Bits THEN {} ELSE {i \in 0..3 : i > 3 - mask \div Bits}

-----------------------------------------------------------------------------
Cleared(digit, bits) == digit - (digit % 2^bits)
Filled(digit, bits)  == Cleared(digit, bits) + 2^bits - 1

(* ReadIPRange, with mask = 32 - plen: the digits below the mask are all   *)
(* host, and of the next one the low mask % 8 bits.                        *)
HostDigits(mask) == {i \in 0..3 : i > 3 - mask \div Bits}

Edge(mask, digit, a) ==
  [i \in 0..3 |-> IF i \in HostDigits(mask) THEN digit
                  ELSE IF i # 3 - mask \div Bits THEN a[i]
                  ELSE IF digit = 0 THEN Cleared(a[i], mask % Bits)
                                    ELSE Filled(a[i], mask % Bits)]

ReadIPRange(a, len) ==
  LET mask == 4 * Bits - len
  IN  <<Number(Edge(mask, 0, a)), Number(Edge(mask, Base - 1, a))>>

(* ReadIP6Range: a low is the word as it stands, the high of the word the  *)
(* prefix ends in is that word with ones behind the prefix.                *)
WholeWords(len) == len \div Bits

High6(i, a, len) ==
  IF i < WholeWords(len) THEN a[i]
  ELSE IF i = WholeWords(len) THEN Filled(a[i], Bits - (len % Bits)) ELSE Base - 1

ReadIP6Range(a, len) == [i \in 0..3 |-> <<a[i], High6(i, a, len)>>]

-----------------------------------------------------------------------------
(* What a prefix stands for: the addresses that begin as it does.          *)
InPrefix(b, a, len) == Number(b) \div 2^(4 * Bits - len) = Number(a) \div 2^(4 * Bits - len)

HostBitsZero(a, len) == Number(a) % 2^(4 * Bits - len) = 0

Between(n, iv) == iv[1] <= n /\ n <= iv[2]

InBox(b, box) == \A i \in 0..3 : Between(b[i], box[i])
=============================================================================
