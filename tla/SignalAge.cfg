SPECIFICATION TimingFairSpec
CONSTANTS
  scan = scan  page = page
  Clients = {scan, page}
  Scan = scan
  NoAnswer = NoAnswer
  TTL = 2
  Timeout = 1
  Rules = 2
  MaxSnapshotAge = 1
  RuleTime = 0
  NotifyTime <- MCNotifyTime
  MaxTime = 5
INVARIANTS TimingTypeOK AgeBounded PriceAgeWhenSurfaced AllNotifiersAsked
PROPERTIES CallEnds
