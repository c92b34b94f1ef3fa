SPECIFICATION Spec
CONSTANTS
  Handlers = {"h1"}
  MaxRequests = 1
  Machines <- MCBadConfig
  DismCodes = {0}
  Failures = {}
PROPERTY BoundExit
CHECK_DEADLOCK FALSE
