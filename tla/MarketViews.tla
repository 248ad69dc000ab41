---------------------------- MODULE MarketViews ----------------------------
(***************************************************************************)
(* One list of snapshots and its readers: the list page and the page of a  *)
(* token (usecase.MarketQuery), the check that a new rule's token exists   *)
(* (RuleService.CreateRule) and the evaluator, which then takes a rule     *)
(* through the two stages of Decision.  A list may hold several snapshots  *)
(* of one symbol and prices that make no premium.  The order of the list   *)
(* page is left out.                                                       *)
(***************************************************************************)
EXTENDS Decision, Sequences

CONSTANTS
  Rules,   \* [symbol, enabled, maxPremiumBps, budget, maxImpactBps, sinceTrigger]
  Feeds    \* sequences of [symbol, token, mark, age]

\* Numbers of the JSON the services send are finite; an impact limit (at most
\* 1000 bps) is a number that needs no rounding.
ASSUME ViewsAssumption ==
  /\ \A r \in Rules :
       /\ r.enabled \in BOOLEAN /\ r.sinceTrigger \in Nat \cup {Never}
       /\ r.budget \in Nat \ {0} /\ r.maxPremiumBps \in Int
       /\ r.maxImpactBps \in 0 .. Precision - 1
  /\ \A f \in Feeds :
       /\ Len(f) \in Nat /\ DOMAIN f = 1 .. Len(f)
       /\ \A i \in DOMAIN f :
            {f[i].token, f[i].mark} \subseteq Int \X (Nat \ {0}) /\ f[i].age \in Int

CheapThresholdBps == -100
RichThresholdBps == 100

VARIABLE feed   \* the answer of FetchAll, until a rule has passed stage 1

viewsVars == <<decisionVars, feed>>

Places(f, symbol) == {i \in DOMAIN f : f[i].symbol = symbol}
First(I) == CHOOSE i \in I : \A j \in I : i <= j
Last(I) == CHOOSE i \in I : \A j \in I : i >= j

\* Both limits belong to the label.
Label(bps) ==
  IF ~Greater(bps, Number(CheapThresholdBps)) THEN "cheap"
  ELSE IF ~Greater(Number(RichThresholdBps), bps) THEN "rich"
  ELSE "fair"

View(s) == [snapshot |-> s, bps |-> Bps(s.token, s.mark), label |-> Label(Bps(s.token, s.mark))]

\* The list page leaves out what has no premium.  The variant also leaves out
\* all but the first snapshot of a symbol.
ListMarketOnce(f) ==
  {View(f[i]) : i \in {j \in DOMAIN f : ~InvalidPrice(f[j]) /\ j = First(Places(f, f[j].symbol))}}
ListMarket(f) == {View(f[i]) : i \in {j \in DOMAIN f : ~InvalidPrice(f[j])}}

\* The page of a token: the first snapshot of the symbol, or an error.  The
\* variant passes over prices that make no premium, as the list page does.
GetMarketPassingOver(f, symbol) ==
  LET I == {i \in Places(f, symbol) : ~InvalidPrice(f[i])}
  IN  IF I = {} THEN [error |-> "not_found"] ELSE [error |-> "none", view |-> View(f[First(I)])]
GetMarket(f, symbol) ==
  LET I == Places(f, symbol)
  IN  IF I = {} THEN [error |-> "not_found"]
      ELSE IF InvalidPrice(f[First(I)]) THEN [error |-> "invalid_price"]
      ELSE [error |-> "none", view |-> View(f[First(I)])]

\* CreateRule looks for any snapshot of the symbol.
TokenFound(f, symbol) == \E i \in DOMAIN f : f[i].symbol = symbol

ViewsInit == DecisionInit /\ feed = <<>>

FetchAll(f) ==
  /\ verdict = "idle"
  /\ feed = <<>>
  /\ feed' = f
  /\ UNCHANGED decisionVars

\* The evaluator's map keeps the last snapshot of each symbol.
TakeRule(r) ==
  LET I == Places(feed, r.symbol)
  IN  /\ IF I = {} THEN SkipNoData(r) ELSE NextRule(r, feed[Last(I)])
      /\ UNCHANGED feed

ViewsNext ==
  \/ \E f \in Feeds : FetchAll(f)
  \/ \E r \in Rules : TakeRule(r)
  \/ Stage1 /\ feed' = <<>>
  \/ \E x \in Routes, m \in MintInfos : Stage2(x, m) /\ UNCHANGED feed
  \/ EndRule /\ feed' = <<>>

ViewsSpec == ViewsInit /\ [][ViewsNext]_viewsVars

-----------------------------------------------------------------------------
\* A rule is skipped for want of market data exactly when a rule for its token
\* could not be created and the token's page is not found.
NoDataIffUnknown ==
  verdict \in {"new", "no_market_data"} =>
    /\ verdict = "new" <=> TokenFound(feed, rule.symbol)
    /\ verdict = "new" <=> GetMarket(feed, rule.symbol).error # "not_found"

Above(v) == Greater(v.bps, Number(rule.maxPremiumBps))

\* What stage 1 has just said of the rule, and the pages made of its list.
VerdictOnPages ==
  LET lines == {v \in ListMarket(feed) : v.snapshot.symbol = rule.symbol}
      page  == GetMarket(feed, rule.symbol)
      alone == \A i, j \in Places(feed, rule.symbol) : i = j
  IN  /\ verdict' = Pass => \E v \in lines :
           /\ ~Above(v)
           /\ rule.maxPremiumBps <= CheapThresholdBps => v.label = "cheap"
      /\ verdict' = "premium_above_threshold" => \E v \in lines :
           /\ Above(v)
           /\ rule.maxPremiumBps >= CheapThresholdBps => v.label # "cheap"
      /\ alone => /\ verdict' = "invalid_price" => page.error = "invalid_price"
                  /\ verdict' \in {Pass, "premium_above_threshold"} =>
                       page.error = "none" /\ page.view \in lines

\* What stage 1 says of a rule can be seen on the pages made of the same list,
\* although the token's page takes the first and the evaluator the last of
\* several snapshots: there is a line within, or above, the rule's threshold,
\* whose label agrees; with a single snapshot the token's page shows it, and a
\* price that stops the rule is an error there.
PagesAgree == [][verdict = "new" /\ verdict' # "new" => VerdictOnPages]_viewsVars
=============================================================================
