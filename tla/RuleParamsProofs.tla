-------------------------- MODULE RuleParamsProofs --------------------------
(***************************************************************************)
(* The numbers of a new rule, for any width of the machine word, units and *)
(* ranges that satisfy the assumptions, and any bodies: what a store       *)
(* returns is in range, and is what a body within the ranges asked for.    *)
(*                                                                         *)
(* The second needs to know what the router has made of the body when      *)
(* NewRule sees it (Read), the first that it is an integer of the word.    *)
(***************************************************************************)
EXTENDS RuleParams, TLAPS

Body == [minutes : Int \cup {Absent}, halves : Int, impact : Int \cup {Absent}, premium : Int]
Params == [premium : Int, budget : Int, impact : Int, cooldown : MinInt .. MaxInt]

\* The parameters say what a body within the ranges says, in machine units.
Read ==
  /\ params.cooldown = IF asked.minutes = Absent THEN 0 ELSE asked.minutes * Minute
  /\ params.impact = OrZero(asked.impact)
  /\ params.premium = asked.premium
  /\ In(params.budget, Budget)
  /\ 2 * params.budget - asked.halves \in 0 .. 1

ParamsInv ==
  /\ asked \in Body
  /\ state = "params" => params \in Params /\ (Reasonable(asked) => Read)
  /\ KeptInRange
  /\ HonoredAsAsked

-----------------------------------------------------------------------------
\* Division and remainder.
LEMMA ModSmall ==
  ASSUME NEW b \in Nat \ {0}, NEW a \in 0 .. b - 1
  PROVE  a % b = a
  OBVIOUS

LEMMA WholeMultiple ==
  ASSUME NEW b \in Nat \ {0}, NEW a \in Int, a % b = 0
  PROVE  (a \div b) * b = a
  OBVIOUS

\* Rounding down to a multiple of b stays above every multiple of b below.
LEMMA RoundDown ==
  ASSUME NEW b \in Nat \ {0}, NEW a \in Nat
  PROVE  /\ a \div b \in Nat
         /\ (a \div b) * b \in Nat /\ (a \div b) * b <= a
         /\ \A m \in Nat : m % b = 0 /\ m <= a => m <= (a \div b) * b
  OBVIOUS

LEMMA MultipleOfMultiple ==
  ASSUME NEW b \in Nat \ {0}, NEW m \in Int, NEW n \in Int, m % b = 0
  PROVE  (n * m) % b = 0
<1> DEFINE q == m \div b
<1>1. q \in Int /\ m = q * b
  BY WholeMultiple
<1> HIDE DEF q
<1>2. n * m = (n * q) * b
  BY <1>1
<1>3. n * q \in Int
  BY <1>1
<1>4. \A k \in Int : (k * b) % b = 0
  OBVIOUS
<1> QED
  BY <1>2, <1>3, <1>4

\* Half away from zero stays within whole limits.
LEMMA RoundHalf ==
  ASSUME NEW h \in Int, NEW p \in Int, NEW q \in Int, 2 * p <= h, h <= 2 * q
  PROVE  LET n == (h + 1) \div 2
         IN  n \in Int /\ p <= n /\ n <= q /\ 2 * n - h \in 0 .. 1
  OBVIOUS

LEMMA ConstantsType ==
  /\ Word \in Nat \ {0} /\ Second \in Nat \ {0} /\ Minute \in Nat \ {0}
  /\ MaxInt \in Nat /\ MinInt = -MaxInt - 1 /\ Word = 2 * MaxInt + 2
  /\ Minute % Second = 0 /\ Cooldown.default % Second = 0
  /\ Cooldown.min = Minute /\ Cooldown.max \in 0 .. MaxInt
  /\ Cooldown.default \in Cooldown.min .. Cooldown.max
  /\ Budget.min \in Nat /\ Budget.max \in 0 .. MaxInt
  /\ Impact.min \in Nat \ {0} /\ Impact.max \in Nat
  /\ Impact.default \in Impact.min .. Impact.max
  BY ParamsAssumption DEF MaxInt, MinInt

\* An integer of the word is what the word represents.
LEMMA WrapIsIdentity ==
  ASSUME NEW n \in MinInt .. MaxInt
  PROVE  Wrap(n) = n
<1>1. n - MinInt \in 0 .. Word - 1
  BY ConstantsType
<1>2. (n - MinInt) % Word = n - MinInt
  BY <1>1, ConstantsType, ModSmall
<1> QED
  BY <1>2, ConstantsType DEF Wrap

LEMMA WrapInWord ==
  ASSUME NEW n \in Int
  PROVE  Wrap(n) \in MinInt .. MaxInt
<1>1. n - MinInt \in Int
  BY ConstantsType
<1>2. (n - MinInt) % Word \in 0 .. Word - 1
  BY <1>1, ConstantsType
<1> QED
  BY <1>2, ConstantsType DEF Wrap

\* SQLite cuts a cooldown to whole seconds: it stays in range, and one that is
\* whole seconds stays as it is.
LEMMA CooldownStored ==
  ASSUME NEW c \in Cooldown.min .. Cooldown.max
  PROVE  LET d == Wrap((c \div Second) * Second)
         IN  /\ d \in Cooldown.min .. Cooldown.max
             /\ c % Second = 0 => d = c
<1> DEFINE d == (c \div Second) * Second
<1>1. c \in Nat /\ Minute <= c
  BY ConstantsType
<1>2. d \in Nat /\ d <= c /\ Minute <= d
  BY <1>1, ConstantsType, RoundDown
<1>3. c % Second = 0 => d = c
  BY <1>1, ConstantsType, WholeMultiple
<1> HIDE DEF d
<1>4. Wrap(d) = d
  BY <1>1, <1>2, ConstantsType, WrapIsIdentity
<1>5. d \in Cooldown.min .. Cooldown.max
  BY <1>1, <1>2, ConstantsType
<1> QED
  BY <1>3, <1>4, <1>5 DEF d

\* NewRule and the stores.  What the rule kept looks like.
LEMMA RuleKept ==
  ASSUME NEW p \in Params, InRanges(p), NEW sqlite \in BOOLEAN
  PROVE  LET r == IF sqlite THEN ToDomain(Row(NewRule(p))) ELSE NewRule(p)
         IN  /\ r.premium = p.premium /\ r.budget = p.budget
             /\ r.impact = OrDefault(p.impact, Impact)
             /\ r.cooldown \in Cooldown.min .. Cooldown.max
             /\ OrDefault(p.cooldown, Cooldown) % Second = 0 =>
                  r.cooldown = OrDefault(p.cooldown, Cooldown)
<1> DEFINE n == NewRule(p)
           c == OrDefault(p.cooldown, Cooldown)
<1>1. /\ n.premium = p.premium /\ n.budget = p.budget
      /\ n.impact = OrDefault(p.impact, Impact) /\ n.cooldown = c
  BY DEF NewRule, Params
<1>2. c \in Cooldown.min .. Cooldown.max
  BY ConstantsType DEF InRanges, In, OrDefault, Params
<1> HIDE DEF n, c
<1>3. LET r == ToDomain(Row(n))
      IN  /\ r.premium = n.premium /\ r.budget = n.budget /\ r.impact = n.impact
          /\ r.cooldown = Wrap((n.cooldown \div Second) * Second)
  BY DEF ToDomain, Row
<1>4. /\ Wrap((c \div Second) * Second) \in Cooldown.min .. Cooldown.max
      /\ c % Second = 0 => Wrap((c \div Second) * Second) = c
  BY <1>2, CooldownStored
<1>5. CASE sqlite
  BY <1>1, <1>3, <1>4, <1>5, Zenon DEF n, c
<1>6. CASE ~sqlite
  BY <1>1, <1>2, <1>6, Zenon DEF n, c
<1> QED
  BY <1>5, <1>6

-----------------------------------------------------------------------------
LEMMA ParamsInitHolds == ParamsInit => ParamsInv
<1> SUFFICES ASSUME ParamsInit PROVE ParamsInv
  OBVIOUS
<1>1. asked \in Body /\ state = "idle"
  BY DEF ParamsInit, NoBody, Body
<1> QED
  BY <1>1 DEF ParamsInv, KeptInRange, HonoredAsAsked

\* The body and the route's numbers.
LEMMA PostReads ==
  ASSUME ParamsInv, Post
  PROVE  params' \in Params /\ (Reasonable(asked) => Read')
<1>1. asked \in Body
  BY DEF ParamsInv
<1>2. PICK budget \in USDCFromFloat(asked.halves) :
        params' = [premium |-> asked.premium, budget |-> budget,
                 impact |-> OrZero(asked.impact), cooldown |-> Duration(asked.minutes)]
  BY DEF Post
<1>3. UNCHANGED asked
  BY DEF Post
<1>4. Duration(asked.minutes) \in MinInt .. MaxInt
  <2>1. CASE asked.minutes = Absent
    BY <2>1, ConstantsType DEF Duration
  <2>2. CASE asked.minutes # Absent
    <3>1. asked.minutes * Minute \in Int
      BY <1>1, <2>2, ConstantsType DEF Body
    <3> QED
      BY <2>2, <3>1, WrapInWord DEF Duration
  <2> QED
    BY <2>1, <2>2
<1>5. budget \in Int
  BY <1>1, <1>2, ConstantsType DEF USDCFromFloat, Body
<1>6. params' \in Params
  BY <1>1, <1>2, <1>4, <1>5 DEF Params, Body, OrZero
<1>7. ASSUME Reasonable(asked) PROVE Read'
  <2>1. Duration(asked.minutes) = IF asked.minutes = Absent THEN 0 ELSE asked.minutes * Minute
    <3>1. CASE asked.minutes = Absent
      BY <3>1 DEF Duration
    <3>2. CASE asked.minutes # Absent
      <4>1. asked.minutes * Minute \in Cooldown.min .. Cooldown.max
        BY <1>7, <3>2 DEF Reasonable, MinutesInRange
      <4>2. asked.minutes * Minute \in MinInt .. MaxInt
        BY <4>1, ConstantsType
      <4> QED
        BY <3>2, <4>2, WrapIsIdentity DEF Duration
    <3> QED
      BY <3>1, <3>2
  <2>2. In(budget, Budget) /\ 2 * budget - asked.halves \in 0 .. 1
    <3> DEFINE n == (asked.halves + 1) \div 2
    <3>1. asked.halves \in Int /\ 2 * Budget.min <= asked.halves /\ asked.halves <= 2 * Budget.max
      BY <1>1, <1>7, ConstantsType DEF Reasonable, Body
    <3>2. n \in Int /\ Budget.min <= n /\ n <= Budget.max /\ 2 * n - asked.halves \in 0 .. 1
      BY <3>1, ConstantsType, RoundHalf
    <3> HIDE DEF n
    <3>3. asked.halves >= 0 /\ n <= MaxInt
      BY <3>1, <3>2, ConstantsType
    <3>4. budget = n
      BY <1>2, <3>1, <3>3 DEF USDCFromFloat, n
    <3> QED
      BY <3>2, <3>4 DEF In
  <2> QED
    BY <1>2, <1>3, <2>1, <2>2 DEF Read
<1> QED
  BY <1>6, <1>7

\* A body within the ranges passes the checks.
LEMMA ReadInRanges ==
  ASSUME asked \in Body, Reasonable(asked), Read
  PROVE  /\ InRanges(params)
         /\ OrDefault(params.cooldown, Cooldown) = IF asked.minutes = Absent THEN Cooldown.default
                                                 ELSE asked.minutes * Minute
         /\ OrDefault(params.cooldown, Cooldown) % Second = 0
         /\ OrDefault(params.impact, Impact) = IF asked.impact = Absent THEN Impact.default
                                             ELSE asked.impact
<1> DEFINE c == OrDefault(params.cooldown, Cooldown)
           i == OrDefault(params.impact, Impact)
<1>1. /\ c = IF asked.minutes = Absent THEN Cooldown.default ELSE asked.minutes * Minute
      /\ In(c, Cooldown) /\ c % Second = 0
  <2>1. CASE asked.minutes = Absent
    BY <2>1, ConstantsType DEF Read, OrDefault, In
  <2>2. CASE asked.minutes # Absent
    <3>1. asked.minutes * Minute \in Cooldown.min .. Cooldown.max
      BY <2>2 DEF Reasonable, MinutesInRange
    <3>2. /\ asked.minutes \in Int
          /\ asked.minutes * Minute \in Cooldown.min .. Cooldown.max
      BY <2>2, <3>1 DEF Body
    <3>3. (asked.minutes * Minute) % Second = 0
      <4>1. Second \in Nat \ {0} /\ Minute \in Int /\ Minute % Second = 0
        BY ConstantsType
      <4> QED
        BY <3>2, <4>1, MultipleOfMultiple, Zenon
    <3>4. params.cooldown = asked.minutes * Minute
      BY <2>2 DEF Read
    <3>5. c = asked.minutes * Minute
      BY <3>2, <3>4, ConstantsType DEF OrDefault
    <3>6. In(c, Cooldown)
      BY <3>2, <3>5, ConstantsType DEF In
    <3> QED
      BY <2>2, <3>3, <3>5, <3>6
  <2> QED
    BY <2>1, <2>2
<1>2. i = (IF asked.impact = Absent THEN Impact.default ELSE asked.impact) /\ In(i, Impact)
  <2>1. CASE asked.impact = Absent
    BY <2>1, ConstantsType DEF Read, OrDefault, OrZero, In
  <2>2. CASE asked.impact # Absent
    BY <2>2, ConstantsType DEF Read, OrDefault, OrZero, In, Reasonable, Body
  <2> QED
    BY <2>1, <2>2
<1>3. In(params.premium, Premium) /\ In(params.budget, Budget)
  BY DEF Read, Reasonable
<1> QED
  BY <1>1, <1>2, <1>3 DEF InRanges

LEMMA ParamsStep == ParamsInv /\ [ParamsNext]_paramVars => ParamsInv'
<1> SUFFICES ASSUME ParamsInv, [ParamsNext]_paramVars PROVE ParamsInv'
  OBVIOUS
<1>0. /\ asked \in Body /\ KeptInRange /\ HonoredAsAsked
      /\ state = "params" => params \in Params /\ (Reasonable(asked) => Read)
  BY DEF ParamsInv
<1>1. ASSUME NEW body \in Requests, Receive(body) PROVE ParamsInv'
  <2>1. asked' \in Body /\ state' = "asked"
    BY <1>1, RequestsAssumption DEF Receive, Body
  <2> QED
    BY <2>1 DEF ParamsInv, KeptInRange, HonoredAsAsked
<1>2. ASSUME Post PROVE ParamsInv'
  <2>1. UNCHANGED asked /\ state' = "params"
    BY <1>2 DEF Post
  <2>2. Reasonable(asked)' => Reasonable(asked)
    BY <2>1 DEF Reasonable, MinutesInRange, In
  <2> QED
    BY <1>0, <1>2, <2>1, <2>2, PostReads DEF ParamsInv, KeptInRange, HonoredAsAsked
<1>3. ASSUME NEW sqlite \in BOOLEAN, CreateRule(sqlite) PROVE ParamsInv'
  <2>1. /\ params \in Params /\ InRanges(params) /\ UNCHANGED asked /\ state' = "kept"
        /\ params' = IF sqlite THEN ToDomain(Row(NewRule(params))) ELSE NewRule(params)
        /\ Reasonable(asked) => Read
    BY <1>0, <1>3 DEF CreateRule
  <2>2. /\ params'.premium = params.premium /\ params'.budget = params.budget
        /\ params'.impact = OrDefault(params.impact, Impact)
        /\ params'.cooldown \in Cooldown.min .. Cooldown.max
        /\ OrDefault(params.cooldown, Cooldown) % Second = 0 =>
             params'.cooldown = OrDefault(params.cooldown, Cooldown)
    BY <2>1, RuleKept, Zenon
  <2>3. KeptInRange'
    BY <2>1, <2>2, ConstantsType DEF KeptInRange, InRanges, In
  <2>4. HonoredAsAsked'
    <3> SUFFICES ASSUME Reasonable(asked)
                 PROVE  /\ params'.cooldown = IF asked.minutes = Absent THEN Cooldown.default
                                            ELSE asked.minutes * Minute
                        /\ params'.impact = IF asked.impact = Absent THEN Impact.default
                                          ELSE asked.impact
                        /\ params'.premium = asked.premium
                        /\ 2 * params'.budget - asked.halves \in 0 .. 1
      BY <2>1 DEF HonoredAsAsked, Reasonable, MinutesInRange, In
    <3>1. Read
      BY <2>1
    <3>2. /\ OrDefault(params.cooldown, Cooldown) =
               IF asked.minutes = Absent THEN Cooldown.default ELSE asked.minutes * Minute
          /\ OrDefault(params.cooldown, Cooldown) % Second = 0
          /\ OrDefault(params.impact, Impact) =
               IF asked.impact = Absent THEN Impact.default ELSE asked.impact
      BY <1>0, <3>1, ReadInRanges
    <3> QED
      BY <2>2, <3>1, <3>2 DEF Read
  <2> QED
    BY <1>0, <2>1, <2>3, <2>4 DEF ParamsInv
<1>4. ASSUME Refuse PROVE ParamsInv'
  <2>1. UNCHANGED asked /\ state' = "refused"
    BY <1>4 DEF Refuse
  <2>2. ~Reasonable(asked)
    <3>1. CASE state = "asked" /\ USDCFromFloat(asked.halves) = {}
      <4>1. asked.halves < 0
        BY <3>1, ConstantsType, <1>0 DEF USDCFromFloat, Body
      <4> QED
        BY <1>0, <4>1, ConstantsType DEF Reasonable, Body
    <3>2. CASE state = "params" /\ ~InRanges(params)
      BY <1>0, <3>2, ReadInRanges
    <3> QED
      BY <1>4, <3>1, <3>2 DEF Refuse
  <2>3. ~Reasonable(asked)'
    BY <2>1, <2>2 DEF Reasonable, MinutesInRange, In
  <2> QED
    BY <1>0, <2>1, <2>3 DEF ParamsInv, KeptInRange, HonoredAsAsked
<1>5. ASSUME Answer PROVE ParamsInv'
  <2>1. asked' \in Body /\ state' = "idle"
    BY <1>5 DEF Answer, NoBody, Body
  <2> QED
    BY <2>1 DEF ParamsInv, KeptInRange, HonoredAsAsked
<1>6. CASE UNCHANGED paramVars
  BY <1>0, <1>6 DEF paramVars, ParamsInv, KeptInRange, HonoredAsAsked, Reasonable,
     MinutesInRange, In, Read, OrZero
<1> QED
  BY <1>1, <1>2, <1>3, <1>4, <1>5, <1>6 DEF ParamsNext

LEMMA ParamsInvariance == ParamsSpec => []ParamsInv
  BY ParamsInitHolds, ParamsStep, PTL DEF ParamsSpec

\* A rule that a store returns is within the limits the scan relies on, however
\* the machine arithmetic of the router overflowed on the way.
THEOREM RulesAreInRange == ParamsSpec => []KeptInRange
<1>1. ParamsInv => KeptInRange
  BY DEF ParamsInv
<1> QED
  BY <1>1, ParamsInvariance, PTL

\* CreateRule accepts every body within the ranges and keeps what it asks for,
\* in both stores.
THEOREM ReasonableBodiesHonored == ParamsSpec => []HonoredAsAsked
<1>1. ParamsInv => HonoredAsAsked
  BY DEF ParamsInv
<1> QED
  BY <1>1, ParamsInvariance, PTL
=============================================================================
