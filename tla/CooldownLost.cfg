SPECIFICATION Spec
CONSTANTS
  r1 = r1  r2 = r2  alice = alice  bob = bob
  scheduler = scheduler  http = http  p1 = p1  p2 = p2
  RuleIDs = {r1}
  Owners = {alice}
  Callers = {http}
  Reqs = {p1}
  NoRule = NoRule
  Cooldown <- MCCooldown
  Durable = FALSE
  MaxTime = 1
  MaxSignals = 2
INVARIANTS CooldownSinceLastSignal
