--------------------------- MODULE MCMarketViews ---------------------------
(* Decision and MarketViews at and around each of their boundaries. *)
EXTENDS MarketViews

CONSTANTS aapl, tsla

MCRules ==
  [symbol : {aapl}, enabled : BOOLEAN, maxPremiumBps : {-200, -100, 0, 500},
   budget : {980, 1000, 1100, 1110}, maxImpactBps : {625},
   sinceTrigger : {Never, RuleCooldown - 1, RuleCooldown}]

Prices(P) == {Number(p) : p \in P}
Fresh == {MaxSnapshotAge}

\* Prices from JSON are finite; the mark is 100.  Each boundary alone, then
\* every pair of a few snapshots of the rule's symbol and another.
MCSnapshots ==
  [symbol : {aapl}, token : Prices({-1, 0, 98, 99, 100, 105}) \cup {<<197, 2>>},
   mark : Prices({0, 100}), age : Fresh \cup {MaxSnapshotAge + 1}]
MCPairs ==
  [symbol : {aapl, tsla}, token : Prices({0, 98, 99, 106}), mark : Prices({100}), age : Fresh]
MCFeeds ==
  {<<s>> : s \in MCSnapshots} \cup {<<s, t>> : s, t \in MCPairs}

MCRoutes ==
  [outAmount : {Garbled, NaN, Inf, Number(0), Number(10), Number(20)},
   impact : {Garbled, NaN, Inf, Number(-1), <<1, 16>>, <<17, 256>>, Number(1)}]

MCMintInfos ==
  [unit : {10}, multiplier : {NaN, Inf, Number(0), Number(1), <<1, 2>>}]
=============================================================================
