SPECIFICATION ParamsSpec
CONSTANTS
  Absent = Absent
  Word = 4096
  Second = 10
  Minute = 40
  Cooldown <- MCCooldown
  Budget <- MCBudget
  Impact <- MCImpact
  Premium <- MCPremium
  Requests <- MCRequests
INVARIANTS OutOfRangeRefused
