----------------------------- MODULE RuleParams -----------------------------
(***************************************************************************)
(* What becomes of the numbers of a new rule on their way from the body of *)
(* POST /v1/rules through NewRule and a store and back: the router turns   *)
(* minutes into a Duration in machine arithmetic and dollars into          *)
(* micro-USDC by rounding, NewRule fills defaults and checks ranges, and   *)
(* SQLite keeps whole seconds of the cooldown.                             *)
(*                                                                         *)
(* The units are scaled down with the machine word, so that it overflows   *)
(* within reach; budgets are asked in halves of a micro-USDC, to see both  *)
(* sides of the rounding.                                                  *)
(***************************************************************************)
EXTENDS Integers

CONSTANTS
  Word,      \* 2^64 in Go: the number of values of an int64
  Second,    \* nanoseconds in a second
  Minute,    \* nanoseconds in a minute
  Cooldown,  \* [min, max, default] of a cooldown, in nanoseconds
  Budget,    \* [min, max] of a budget, in micro-USDC
  Impact,    \* [min, max, default] of the price impact, in bps
  Premium,   \* [min, max] of the premium, in bps
  Requests,  \* bodies, [minutes, halves, impact, premium], with Absent fields
  Absent     \* an optional field that is not in the body

\* Amounts and durations of a range fit in the word, and each default is within
\* its range; MinCooldown is one minute, and a minute and the default cooldown
\* are whole seconds.
ASSUME ParamsAssumption ==
  /\ {Word, Second, Minute} \subseteq Nat \ {0}
  /\ Word % 2 = 0 /\ Minute % Second = 0
  /\ \A r \in {Cooldown, Budget, Impact} : {r.min, r.max} \subseteq Nat
  /\ \A r \in {Cooldown, Impact} : r.default \in r.min .. r.max
  /\ Cooldown.min = Minute /\ Cooldown.default % Second = 0
  /\ Impact.min > 0
  /\ {Cooldown.max, Budget.max} \subseteq 0 .. (Word \div 2) - 1

\* The fields of a body are numbers; two of them are optional.
ASSUME RequestsAssumption ==
  /\ Absent \notin Int
  /\ \A a \in Requests :
       a \in [minutes : Int \cup {Absent}, halves : Int, impact : Int \cup {Absent},
              premium : Int]

MaxInt == (Word \div 2) - 1
MinInt == -(Word \div 2)

\* The int64 that represents n modulo the word.
Wrap(n) == ((n - MinInt) % Word) + MinInt

In(n, range) == range.min <= n /\ n <= range.max

-----------------------------------------------------------------------------
\* The amounts USDCFromFloat may return, none when it refuses: half away from
\* zero, and for a number too large for an int64 what the processor converts
\* it to, the least int64 (amd64) or the greatest (arm64).
USDCFromFloat(halves) ==
  IF halves < 0 THEN {}
  ELSE LET rounded == (halves + 1) \div 2
       IN  IF rounded <= MaxInt THEN {rounded} ELSE {MinInt, MaxInt}

\* The conversion is written with the wrong unit.
DurationInSeconds(minutes) == IF minutes = Absent THEN 0 ELSE Wrap(minutes * Second)

\* time.Duration(*req.CooldownMinutes) * time.Minute, zero when absent.
Duration(minutes) == IF minutes = Absent THEN 0 ELSE Wrap(minutes * Minute)

OrZero(n) == IF n = Absent THEN 0 ELSE n
OrDefault(n, range) == IF n = 0 THEN range.default ELSE n

\* Only the upper end of the ranges is checked.
InRangesAbove(p) ==
  /\ p.premium <= Premium.max
  /\ p.budget <= Budget.max
  /\ OrDefault(p.impact, Impact) <= Impact.max
  /\ OrDefault(p.cooldown, Cooldown) <= Cooldown.max

\* The checks of NewRule; zero means the default.
InRanges(p) ==
  /\ In(p.premium, Premium)
  /\ In(p.budget, Budget)
  /\ In(OrDefault(p.impact, Impact), Impact)
  /\ In(OrDefault(p.cooldown, Cooldown), Cooldown)

NewRule(p) ==
  [p EXCEPT !.impact = OrDefault(@, Impact), !.cooldown = OrDefault(@, Cooldown)]

\* A row of the SQLite table and the rule read from it; the memory store keeps
\* the rule itself.
Row(rule) ==
  [premium |-> rule.premium, budget |-> rule.budget, impact |-> rule.impact,
   cooldownSec |-> rule.cooldown \div Second]
ToDomain(row) ==
  [premium |-> row.premium, budget |-> row.budget, impact |-> row.impact,
   cooldown |-> Wrap(row.cooldownSec * Second)]

-----------------------------------------------------------------------------
VARIABLES
  asked,  \* the body in hand
  state,  \* "idle", "asked", "params", "kept" or "refused"
  params  \* the parameters, then the rule as the store returns it

paramVars == <<asked, state, params>>

NoRule == [premium |-> 0, budget |-> 0, impact |-> 0, cooldown |-> 0]

NoBody == [minutes |-> 0, halves |-> 0, impact |-> 0, premium |-> 0]

ParamsInit ==
  /\ asked = NoBody
  /\ state = "idle"
  /\ params = NoRule

\* A body arrives.
Receive(body) ==
  /\ state = "idle"
  /\ asked' = body
  /\ state' = "asked"
  /\ UNCHANGED params

\* The handler of POST /v1/rules reads the body.
Post ==
  /\ state = "asked"
  /\ \E budget \in USDCFromFloat(asked.halves) :
       params' = [premium |-> asked.premium, budget |-> budget,
                  impact |-> OrZero(asked.impact), cooldown |-> Duration(asked.minutes)]
  /\ state' = "params"
  /\ UNCHANGED asked

\* CreateRule builds the rule and saves it; a scan reads it back from SQLite,
\* or from memory.
CreateRule(sqlite) ==
  /\ state = "params"
  /\ InRanges(params)
  /\ params' = IF sqlite THEN ToDomain(Row(NewRule(params))) ELSE NewRule(params)
  /\ state' = "kept"
  /\ UNCHANGED asked

\* The budget is no amount, or NewRule returns ErrInvalidRule.
Refuse ==
  /\ \/ state = "asked" /\ USDCFromFloat(asked.halves) = {}
     \/ state = "params" /\ ~InRanges(params)
  /\ params' = NoRule
  /\ state' = "refused"
  /\ UNCHANGED asked

\* The answer is sent.
Answer ==
  /\ state \in {"kept", "refused"}
  /\ asked' = NoBody
  /\ params' = NoRule
  /\ state' = "idle"

ParamsNext ==
  \/ \E body \in Requests : Receive(body)
  \/ Post
  \/ \E sqlite \in BOOLEAN : CreateRule(sqlite)
  \/ Refuse
  \/ Answer

ParamsSpec == ParamsInit /\ [][ParamsNext]_paramVars

-----------------------------------------------------------------------------
\* Whatever a body holds and however its numbers overflow, a rule that a store
\* returns is within the limits the scan relies on.
KeptInRange ==
  state = "kept" =>
    /\ In(params.premium, Premium)
    /\ In(params.budget, Budget)
    /\ In(params.impact, Impact)
    /\ In(params.cooldown, Cooldown)

MinutesInRange(minutes) == minutes * Minute \in Cooldown.min .. Cooldown.max

\* A body within the ranges is accepted, and both stores return what it asked
\* for, the budget within half a micro-USDC.
Reasonable(a) ==
  /\ a.minutes = Absent \/ MinutesInRange(a.minutes)
  /\ a.impact = Absent \/ In(a.impact, Impact)
  /\ In(a.premium, Premium)
  /\ a.halves \in 2 * Budget.min .. 2 * Budget.max
HonoredAsAsked ==
  Reasonable(asked) =>
    /\ state # "refused"
    /\ state = "kept" =>
         /\ params.cooldown = IF asked.minutes = Absent THEN Cooldown.default
                              ELSE asked.minutes * Minute
         /\ params.impact = IF asked.impact = Absent THEN Impact.default ELSE asked.impact
         /\ params.premium = asked.premium
         /\ 2 * params.budget - asked.halves \in 0 .. 1

\* "Every range above is inclusive. Any violation returns ErrInvalidRule"
\* (rule.go): a cooldown of so many minutes that it is out of range is refused.
OutOfRangeRefused ==
  state = "kept" =>
    asked.minutes \in {Absent, 0} \/ MinutesInRange(asked.minutes)
=============================================================================
