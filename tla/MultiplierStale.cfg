SPECIFICATION QuoteSpec
CONSTANTS
  m1 = m1  m2 = m2
  Mints = {m1}
  Mults = {1, 2}
  TTL = 2
  Timeout = 0
  MaxTime = 2
  NoEntry = NoEntry
INVARIANTS MultiplierInForce
