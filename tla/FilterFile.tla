------------------------------ MODULE FilterFile ------------------------------
(***************************************************************************)
(* The rule file reader: ReadFilterFile (for IPv6 ReadFilterFile6, which   *)
(* differs in the format of a rule only), LoadFilters and ReadFilter.      *)
(*                                                                         *)
(* A file is a sequence of items: an '@' with a well-formed rule behind it,*)
(* an '@' with anything else behind it, or any other character.  Of a rule *)
(* its place in the file and one address prefix are kept; PrefixRange is   *)
(* what the reader makes of the prefix.                                    *)
(*                                                                         *)
(* A file ends in "eof", or in an "error": reading fails for good and feof *)
(* stays false (a directory opens like that, a disk breaks like that).     *)
(***************************************************************************)
EXTENDS PrefixRange, Sequences, FiniteSets, Functions

CONSTANTS MAXFILTERS, \* slots of filtArr
          Files,      \* the files, sequences of items
          Tails       \* how files end: a subset of {"eof", "error"}

Item == [kind : {"bad", "char"}, prefix : {<<>>}]
          \union [kind : {"rule"}, prefix : Digits \X Lengths]

ASSUME FilterAssumption == MAXFILTERS \in Nat \ {0}
ASSUME FilesAssumption  == \A f \in Files : f \in Seq(Item)
ASSUME TailsAssumption  == Tails \subseteq {"eof", "error"}

VARIABLES file, tail,  \* the file
          v6,          \* whether it is read by ReadFilterFile6
          pos, eof,    \* the items read; feof(fp)
          line,        \* LoadFilters's count of calls
          validfilter, \* ReadFilter's local
          filters,     \* filtArr[0..numFilters - 1], as [cost, rule, ip]
          ruleset,     \* the result, as [pri, rule, ip]
          pc           \* "load", "read", "copy", "done", "exit", "overrun", "crash"

vars == <<file, tail, v6, pos, eof, line, validfilter, filters, ruleset, pc>>

More == pos < Len(file)

-----------------------------------------------------------------------------
(* Mutants (see PROJECT.json): slips the runs must notice.                 *)
Cost_Items == pos
EofAfter_Never(p) == FALSE
Scanned_Kept == validfilter

-----------------------------------------------------------------------------
Init == /\ file \in Files /\ tail \in Tails /\ v6 \in BOOLEAN
        /\ pos = 0 /\ eof = FALSE /\ line = 0 /\ validfilter = "char"
        /\ filters = <<>> /\ ruleset = <<>> /\ pc = "load"

(* LoadFilters calls ReadFilter, whose validfilter starts as anything.     *)
LoadNext ==
  /\ pc = "load" /\ ~eof
  /\ pc' = "read" /\ validfilter' \in {"@", "char"}
  /\ UNCHANGED <<file, tail, v6, pos, eof, line, filters, ruleset>>

LoadEnd ==
  /\ pc = "load" /\ eof
  /\ pc' = "copy"
  /\ UNCHANGED <<file, tail, v6, pos, eof, line, validfilter, filters, ruleset>>

-----------------------------------------------------------------------------
(* ReadFilter.  Nothing is scanned at the end: validfilter keeps its value.*)
Scanned == IF More THEN IF file[pos + 1].kind = "char" THEN "char" ELSE "@" ELSE validfilter

(* Reading at or up to the end of the file sets feof.                      *)
EofAfter(p) == p = Len(file) /\ tail = "eof"

Skip ==
  /\ pc = "read" /\ ~eof /\ Scanned # "@"
  /\ validfilter' = Scanned
  /\ pos' = IF More THEN pos + 1 ELSE pos
  /\ eof' = (~More /\ EofAfter(pos))
  /\ UNCHANGED <<file, tail, v6, line, filters, ruleset, pc>>

(* The cost of a rule is its line: the number of calls before this one.    *)
Cost == line

(* ReadIP6Range or ReadIPRange.                                            *)
Address(prefix) == IF v6 THEN ReadIP6Range(prefix[1], prefix[2])
                         ELSE ReadIPRange(prefix[1], prefix[2])

(* A rule is stored wherever numFilters is, and ends at a number, so that  *)
(* the end of the file is seen with it.                                    *)
TakeRule ==
  /\ pc = "read" /\ ~eof /\ Scanned = "@"
  /\ More /\ file[pos + 1].kind = "rule"
  /\ filters' = Append(filters, [cost |-> Cost, rule |-> pos + 1,
                                 ip |-> Address(file[pos + 1].prefix)])
  /\ pos' = pos + 1 /\ eof' = EofAfter(pos + 1)
  /\ line' = line + 1
  /\ pc' = IF Len(filters) < MAXFILTERS THEN "load" ELSE "overrun"
  /\ UNCHANGED <<file, tail, v6, validfilter, ruleset>>

Reject ==
  /\ pc = "read" /\ ~eof /\ Scanned = "@"
  /\ ~(More /\ file[pos + 1].kind = "rule")
  /\ pc' = "exit"
  /\ UNCHANGED <<file, tail, v6, pos, eof, line, validfilter, filters, ruleset>>

NoMoreRules ==
  /\ pc = "read" /\ eof
  /\ line' = line + 1 /\ pc' = "load"
  /\ UNCHANGED <<file, tail, v6, pos, eof, validfilter, filters, ruleset>>

-----------------------------------------------------------------------------
(* _rule_pri_compare.                                                      *)
Before(r, s) == r.pri < s.pri

RuleOf(f) == [pri |-> f.cost, rule |-> f.rule, ip |-> f.ip]

(* The filters become rules, sorted by priority, in a new array; qsort     *)
(* promises nothing of rules with one priority.                            *)
Copy ==
  /\ pc = "copy"
  /\ \E p \in Bijection(DOMAIN filters, DOMAIN filters) :
       LET sorted == [k \in DOMAIN filters |-> RuleOf(filters[p[k]])]
       IN  /\ \A m, n \in DOMAIN filters : m < n => ~Before(sorted[n], sorted[m])
           /\ ruleset' = sorted
  /\ pc' = "done"
  /\ UNCHANGED <<file, tail, v6, pos, eof, line, validfilter, filters>>

(* malloc's result is not looked at before rules are written through it.   *)
CopyNoMemory ==
  /\ pc = "copy"
  /\ pc' = IF filters = <<>> THEN "done" ELSE "crash"
  /\ UNCHANGED <<file, tail, v6, pos, eof, line, validfilter, filters, ruleset>>

Next ==
  LoadNext \/ LoadEnd \/ Skip \/ TakeRule \/ Reject \/ NoMoreRules \/ Copy \/ CopyNoMemory

Spec == Init /\ [][Next]_vars /\ WF_vars(Next)

-----------------------------------------------------------------------------
Rules == {n \in DOMAIN file : file[n].kind = "rule"}
Bad   == {n \in DOMAIN file : file[n].kind = "bad"}

(* A file that is read at all is read whole: every rule, in the order of   *)
(* the file, the k-th with priority k - 1 however many characters lie      *)
(* between the rules, which is what "the first rule that matches" means to *)
(* the tree and to the linear search.                                      *)
FileLoaded ==
  pc = "done" =>
    /\ Bad = {}
    /\ {ruleset[k].rule : k \in DOMAIN ruleset} = Rules
    /\ \A k \in DOMAIN ruleset :
         ruleset[k].pri = k - 1 /\ (k > 1 => ruleset[k - 1].rule < ruleset[k].rule)

(* The program exits over an ill-formed rule, over nothing else; except for*)
(* the two files whose end meets a validfilter nobody set.  It writes past *)
(* filtArr for a file of more than MAXFILTERS rules only.                  *)
RejectedForReason ==
  /\ pc = "exit" => Bad # {} \/ file = <<>> \/ tail = "error"
  /\ pc = "overrun" => Cardinality(Rules) > MAXFILTERS

(* Reading ends when the file can be read to its end.                      *)
LoadEnds == tail = "eof" ~> pc \in {"done", "exit", "overrun", "crash"}

ExactV4(prefix, iv) ==
  \A b \in Digits : Between(Number(b), iv) <=> InPrefix(b, prefix[1], prefix[2])

InsideV6(prefix, box) ==
  \A b \in Digits : InBox(b, box) => InPrefix(b, prefix[1], prefix[2])

WholeV6(prefix, box) ==
  \A b \in Digits : InPrefix(b, prefix[1], prefix[2]) => InBox(b, box)

(* The interval of an IPv4 rule holds the addresses of the prefix and no   *)
(* other, for every length, 0 and 32 included, whatever the host bits are. *)
(* The box of an IPv6 rule lies inside the prefix; its lows keep the file's*)
(* host bits, so it is all of the prefix where there are none, and only    *)
(* there.                                                                  *)
PrefixRead ==
  pc = "done" =>
    \A k \in DOMAIN ruleset :
      LET prefix == file[ruleset[k].rule].prefix
          ip     == ruleset[k].ip
      IN  IF v6 THEN /\ InsideV6(prefix, ip)
                     /\ WholeV6(prefix, ip) <=> HostBitsZero(prefix[1], prefix[2])
                ELSE ExactV4(prefix, ip)
=============================================================================
