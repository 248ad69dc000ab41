SPECIFICATION NumbersSpec
CONSTANTS
  aapl = aapl  tsla = tsla
  Garbled = Garbled
  Rules <- MCRules
  Feeds <- MCFeeds
  Routes <- MCRoutes
  MintInfos <- MCMintInfos
  Precision = 8192
  USDCUnit = 10
  RuleCooldown = 2
  MaxSnapshotAge = 3
  ImpactIsFraction = TRUE
  m1 = m1  m2 = m2
  Mints = {m1, m2}
  Mults = {1, 2}
  TTL = 2
  Timeout = 1
  MaxTime = 3
  NoEntry = NoEntry
  Absent = Absent
  Word = 4096
  Second = 10
  Minute = 40
  Cooldown <- MCCooldown
  Budget <- MCBudget
  Impact <- MCImpact
  Premium <- MCPremium
  Requests <- MCRequests
INVARIANTS FirstFailingCheckWins SignalHasNumbers BadQuoteIsFailure NoDataIffUnknown QuoteTypeOK MultiplierRecent KeptInRange HonoredAsAsked
PROPERTIES PagesAgree QuoteEnds
