SPECIFICATION Spec
CONSTANTS
  Handlers = {"h1", "h2"}
  MaxRequests = 3
  Machines <- MCMachines
  DismCodes = {0, 1641, 3010}
  Failures = {"setup", "listen", "install", "updateLog", "admin", "fix", "touch", "open", "shutdown", "runOnce"}
INVARIANTS TypeOK UpdateWakeup ShutdownObtainable SuccessMeansReady RebootGrantedWhenTold RebootPrepared
CHECK_DEADLOCK FALSE
