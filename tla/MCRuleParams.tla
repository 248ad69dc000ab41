---------------------------- MODULE MCRuleParams ----------------------------
(* RuleParams with a word of twelve bits.  A minute is 2^3 * 5 units, so that
   its multiples wrap around to numbers that are neither minutes nor seconds,
   as 60e9 = 2^11 * ... does in 64 bits.  All minutes of the word are asked,
   with the other fields at and around their limits. *)
EXTENDS RuleParams

Range(lo, hi) == [min |-> lo, max |-> hi]
RangeOr(lo, hi, d) == [min |-> lo, max |-> hi, default |-> d]

MCCooldown == RangeOr(40, 400, 120)
MCBudget == Range(10, 1000)
MCImpact == RangeOr(1, 10, 5)
MCPremium == Range(-50, 5)

MCRequests ==
  [minutes : {Absent} \cup MinInt .. MaxInt, halves : {20}, impact : {Absent}, premium : {0}]
    \cup
  [minutes : {Absent, -1, 0, 1, 10, 11},
   halves : {-1, 0, 18, 19, 20, 21, 1999, 2000, 2001, 2 * MaxInt, 2 * MaxInt + 1},
   impact : {Absent, -1, 0, 1, 10, 11},
   premium : {-51, -50, 0, 5, 6}]
=============================================================================
