SPECIFICATION FrontFairSpec
CONSTANTS
  h1 = h1  h2 = h2  h3 = h3
  Handlers = {h1, h2, h3}
  Scheduler = Scheduler
  Nobody = Nobody
INVARIANTS FrontTypeOK
PROPERTIES KeepsScanning ShutdownEnds
