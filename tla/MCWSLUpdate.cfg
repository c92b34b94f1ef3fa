SPECIFICATION Spec
CONSTANTS
  Handlers = {h1, h2}
  Chunks = 2
  LogCount = 3
  MaxRequests = 4
INVARIANTS TypeOK InstalledIsWanted NewestFirst
PROPERTIES LostIsOldest
CHECK_DEADLOCK FALSE
