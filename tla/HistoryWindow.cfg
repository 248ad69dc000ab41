SPECIFICATION StoresSpec
CONSTANTS
  aapl = aapl
  alice = alice  bob = bob
  Symbols = {aapl}
  Owners = {alice, bob}
  scan = scan  page = page
  Scans = {scan}
  Pages = {page}
  Nobody = Nobody
  RowIDs = {1, 2}
  MaxTime = 3
  Milli = 2
  Windows <- MCWindows
  MinWindow = 1
  MaxWindow = 1
  Limits <- MCLimits
  DefaultLimit = 1
  MaxLimit = 1
PROPERTIES SinceKept
