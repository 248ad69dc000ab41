------------------------------ MODULE Decision ------------------------------
(***************************************************************************)
(* The numbers behind one rule's verdict: domain.Rule.Precheck and Decide, *)
(* the premium, and the quote that jupiter.Client makes of the strings in  *)
(* a route and of the mint's decimals and multiplier, all in float64.      *)
(***************************************************************************)
EXTENDS Float64

CONSTANTS
  Routes,    \* [outAmount, impact]: two numbers, Garbled where none is read
  MintInfos, \* [unit, multiplier]: 10^decimals, and the ScaledUiAmount in force
  Garbled,   \* a string strconv.ParseFloat refuses
  USDCUnit,  \* micro-USDC in one USDC
  RuleCooldown,      \* the rules' cooldown
  MaxSnapshotAge,
  ImpactIsFraction   \* Config.ImpactIsFraction

ASSUME DecisionAssumption ==
  /\ Garbled \notin Float64
  /\ \A x \in Routes : {x.outAmount, x.impact} \subseteq Float64 \cup {Garbled}
  /\ \A m \in MintInfos : m.unit \in Nat \ {0} /\ m.multiplier \in Float64
  /\ USDCUnit \in Nat \ {0}
  /\ RuleCooldown \in Nat /\ MaxSnapshotAge \in Nat
  /\ ImpactIsFraction \in BOOLEAN

Never == -1   \* sinceTrigger of a rule that has not triggered
DivergenceLimitBps == 1000

-----------------------------------------------------------------------------
\* NewPremium refuses prices that are not positive numbers.
InvalidPrice(s) == ~Positive(s.token) \/ ~Positive(s.mark)

\* (price/reference - 1) * 10000, each step rounded.
BpsTruncated(price, reference) == Product(MinusOne(Over(price, reference)), Number(1000))
Bps(price, reference) == Product(MinusOne(Over(price, reference)), Number(10000))

\* A rule in the pipeline that passes so far.
Pass == "pass"
\* The first of a sequence of checks that fails decides.
Check(failed, reason, rest) == IF failed THEN reason ELSE rest

Precheck(r, s) ==
  Check(~r.enabled, "disabled",
  Check(r.sinceTrigger # Never /\ r.sinceTrigger < RuleCooldown, "cooldown_active",
  Check(s.age > MaxSnapshotAge, "snapshot_stale",
  Check(InvalidPrice(s), "invalid_price",
  Check(Greater(Bps(s.token, s.mark), Number(r.maxPremiumBps)), "premium_above_threshold",
  Pass)))))

\* USDC.Float64 and Quote.PricePerToken.
Amount(usdc) == Over(Number(usdc), Number(USDCUnit))
PricePerToken(q) == Over(Amount(q.inAmount), q.outTokens)

\* The divergence is looked at last.
DecideDivergenceLast(r, s, q) ==
  LET price == PricePerToken(q)
  IN  Check(Precheck(r, s) # Pass, Precheck(r, s),
      Check(q.inAmount # r.budget \/ ~Positive(q.outTokens), "invalid_quote",
      Check(Greater(q.impactBps, Number(r.maxImpactBps)), "price_impact_too_high",
      Check(Greater(Bps(price, s.mark), Number(r.maxPremiumBps)), "exec_premium_above_threshold",
      Check(Greater(Abs(Bps(price, s.token)), Number(DivergenceLimitBps)), "price_divergence",
      "triggered")))))

Decide(r, s, q) ==
  LET price == PricePerToken(q)
  IN  Check(Precheck(r, s) # Pass, Precheck(r, s),
      Check(q.inAmount # r.budget \/ ~Positive(q.outTokens), "invalid_quote",
      Check(Greater(Abs(Bps(price, s.token)), Number(DivergenceLimitBps)), "price_divergence",
      Check(Greater(q.impactBps, Number(r.maxImpactBps)), "price_impact_too_high",
      Check(Greater(Bps(price, s.mark), Number(r.maxPremiumBps)), "exec_premium_above_threshold",
      "triggered")))))

\* outAmount and priceImpactPct of the route are strings: a usable amount is a
\* positive number, a usable impact is a number.
UsableAmount(x) == x # Garbled /\ Positive(x)
UsableImpactParsed(x) == x # Garbled
UsableImpact(x) == x # Garbled /\ Finite(x)

\* In UI units: raw units over 10^decimals, times the multiplier.
OutTokens(route, mint) == Product(Over(route.outAmount, Number(mint.unit)), mint.multiplier)

\* QuoteBuy returns a quote, unless the tokens bought are no positive number.
QuotableUnchecked(route, mint) == UsableAmount(route.outAmount) /\ UsableImpact(route.impact)
Quotable(route, mint) ==
  /\ UsableAmount(route.outAmount)
  /\ UsableImpact(route.impact)
  /\ Positive(OutTokens(route, mint))

QuoteBuy(budget, route, mint) ==
  [inAmount  |-> budget,
   outTokens |-> OutTokens(route, mint),
   impactBps |-> Product(route.impact, Number(IF ImpactIsFraction THEN 10000 ELSE 100))]

-----------------------------------------------------------------------------
VARIABLES
  rule,     \* [enabled, maxPremiumBps, budget, maxImpactBps, sinceTrigger]
  snap,     \* [token, mark, age]: its token's two prices and their age at `now`
  route,    \* what Jupiter answered
  mintInfo, \* what the mint reader answered
  verdict   \* "idle", "new", Pass, the reason of a skip, "quote_failed" or "triggered"

decisionVars == <<rule, snap, route, mintInfo, verdict>>

NoRoute == [outAmount |-> Garbled, impact |-> Garbled]
NoMint == [unit |-> 1, multiplier |-> NaN]

NoInput == [symbol |-> "none"]

DecisionInit ==
  /\ rule = NoInput
  /\ snap = NoInput
  /\ route = NoRoute
  /\ mintInfo = NoMint
  /\ verdict = "idle"

\* The loop comes to a rule whose symbol has a snapshot.
NextRule(r, s) ==
  /\ verdict = "idle"
  /\ rule' = r
  /\ snap' = s
  /\ verdict' = "new"
  /\ UNCHANGED <<route, mintInfo>>

\* The loop comes to a rule whose symbol has none.
SkipNoData(r) ==
  /\ verdict = "idle"
  /\ rule' = r
  /\ verdict' = "no_market_data"
  /\ UNCHANGED <<snap, route, mintInfo>>

\* Stage 1, without a call to the network.
Stage1 ==
  /\ verdict = "new"
  /\ verdict' = Precheck(rule, snap)
  /\ UNCHANGED <<rule, snap, route, mintInfo>>

\* Stage 2: the quote is made, or fails, and the rule is decided.
Stage2(x, m) ==
  /\ verdict = Pass
  /\ route' = x
  /\ mintInfo' = m
  /\ verdict' = IF Quotable(x, m) THEN Decide(rule, snap, QuoteBuy(rule.budget, x, m))
                ELSE "quote_failed"
  /\ UNCHANGED <<rule, snap>>

\* The loop goes on.
EndRule ==
  /\ verdict \notin {"idle", "new", Pass}
  /\ rule' = NoInput
  /\ snap' = NoInput
  /\ route' = NoRoute
  /\ mintInfo' = NoMint
  /\ verdict' = "idle"

-----------------------------------------------------------------------------
\* The exact price of one token, budget / (outAmount / unit * multiplier), as
\* numerator and denominator.
PriceNum(r, x, m) == r.budget * (x.outAmount[2] * m.unit * m.multiplier[2])
PriceDen(x, m) == USDCUnit * (x.outAmount[1] * m.multiplier[1])

\* By how much, in bps and times den, the exact premium of num/den is too high.
Excess(num, den, limit) == (num - den) * 10000 - limit * den

\* A check compares a computed number with a limit.  The few roundings behind
\* it, each of one part in Precision, are worth less than 16 such parts of
\* `scale`: it fails for sure when the excess is above that margin, and may
\* fail unless the excess is below it.  Rounding takes no number across one
\* that needs none, such as a limit: an impact within its limit never fails,
\* nor does a price at or below the mark where a premium is permitted.
Margin(scale) == scale \div (Precision \div 16)
Fails(sure, excess, scale) ==
  IF sure THEN excess > Margin(scale) ELSE excess >= -Margin(scale)

\* The comments of Precheck and Decide number the checks and say "first
\* failing check wins".  Here are the numbers of those that fail, for sure or
\* perhaps, in integer arithmetic, for prices that are finite.
Failing(sure, r, s) ==
  LET num == s.token[1] * s.mark[2]
      den == s.token[2] * s.mark[1]
  IN  {i \in 1 .. 5 :
         \/ i = 1 /\ ~r.enabled
         \/ i = 2 /\ r.sinceTrigger \in 0 .. RuleCooldown - 1
         \/ i = 3 /\ s.age > MaxSnapshotAge
         \/ i = 4 /\ (s.token[1] <= 0 \/ s.mark[1] <= 0)
         \/ /\ i = 5
            /\ r.maxPremiumBps >= 0 => num > den
            /\ Fails(sure, Excess(num, den, r.maxPremiumBps), (num + den) * 10000)}
QuoteFailing(sure, r, s, x, m) ==
  LET num(p) == PriceNum(r, x, m) * p[2]
      den(p) == PriceDen(x, m) * p[1]
      off == num(s.token) - den(s.token)
      impact == x.impact[1] * (IF ImpactIsFraction THEN 10000 ELSE 100)
      size(n) == IF n < 0 THEN -n ELSE n
  IN  {i \in 7 .. 9 :
         \/ i = 7 /\ Fails(sure, size(off) * 10000 - DivergenceLimitBps * den(s.token),
                           (num(s.token) + den(s.token)) * 10000)
         \/ /\ i = 8
            /\ impact > r.maxImpactBps * x.impact[2]
            /\ Fails(sure, impact - r.maxImpactBps * x.impact[2], size(impact))
         \/ i = 9 /\ Fails(sure, Excess(num(s.mark), den(s.mark), r.maxPremiumBps),
                           (num(s.mark) + den(s.mark)) * 10000)}

ReasonOf ==
  [disabled |-> 1, cooldown_active |-> 2, snapshot_stale |-> 3, invalid_price |-> 4,
   premium_above_threshold |-> 5, price_divergence |-> 7, price_impact_too_high |-> 8,
   exec_premium_above_threshold |-> 9]

FirstOf(n, surely, perhaps) == n \in perhaps /\ \A i \in surely : n <= i

\* A skip names a check that fails, and none before it does, in the documented
\* order; a rule that passes stage 1 fails none of 1 to 5, and a signal none of
\* 7 to 9.  The numbers are exact but for the margin of the roundings: what the
\* code computes may fall on either side of a limit only that close to it.
FirstFailingCheckWins ==
  /\ verdict \in DOMAIN ReasonOf =>
       LET n == ReasonOf[verdict]
       IN  IF n <= 5
           THEN FirstOf(n, Failing(TRUE, rule, snap), Failing(FALSE, rule, snap))
           ELSE FirstOf(n, QuoteFailing(TRUE, rule, snap, route, mintInfo),
                           QuoteFailing(FALSE, rule, snap, route, mintInfo))
  /\ verdict \in {Pass, "triggered"} => Failing(TRUE, rule, snap) = {}
  /\ verdict = "triggered" => QuoteFailing(TRUE, rule, snap, route, mintInfo) = {}

\* "premium_above_threshold (equal passes)" (decision.go, check 5, and 9 says
\* the same of the price to be paid): a premium equal to the threshold is not
\* above it.
EqualPasses ==
  /\ verdict = "premium_above_threshold" =>
       Excess(snap.token[1] * snap.mark[2], snap.token[2] * snap.mark[1],
              rule.maxPremiumBps) # 0
  /\ verdict = "exec_premium_above_threshold" =>
       Excess(PriceNum(rule, route, mintInfo) * snap.mark[2],
              PriceDen(route, mintInfo) * snap.mark[1], rule.maxPremiumBps) # 0

\* Whatever strings the services send, a signal rests on numbers only: no NaN
\* slips through a comparison.
SignalHasNumbers ==
  verdict = "triggered" =>
    /\ Positive(snap.token) /\ Positive(snap.mark)
    /\ Positive(OutTokens(route, mintInfo))
    /\ Finite(route.impact)

\* The adapter filters its quotes: the domain's own check of a quote's form
\* never has to refuse one, so a bad quote is a failure and not a skip.
BadQuoteIsFailure == verdict # "invalid_quote"
=============================================================================
