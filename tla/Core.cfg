SPECIFICATION MCFairSpec
CONSTANTS
  r1 = r1  r2 = r2  alice = alice  bob = bob
  scheduler = scheduler  http = http  p1 = p1  p2 = p2
  RuleIDs = {r1, r2}
  Owners = {alice}
  Callers = {scheduler, http}
  Reqs = {p1}
  NoRule = NoRule
  Cooldown <- MCCooldown
  Durable = TRUE
  MaxTime = 3
  MaxSignals = 2
INVARIANTS TypeOK OneScan MarkHasSignal MarkCovers ReportSound
PROPERTIES GoneIsGone QuietUntilEnabled AnnouncedIsStored AlertPromise NoRuleLost ScanEnds
