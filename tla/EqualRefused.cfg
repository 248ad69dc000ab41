SPECIFICATION ViewsSpec
CONSTANTS
  aapl = aapl  tsla = tsla
  Garbled = Garbled
  Rules <- MCRules
  Feeds <- MCFeeds
  Routes <- MCRoutes
  MintInfos <- MCMintInfos
  Precision = 8192
  USDCUnit = 10
  RuleCooldown = 2
  MaxSnapshotAge = 3
  ImpactIsFraction = TRUE
INVARIANTS EqualPasses
