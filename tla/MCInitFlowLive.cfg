SPECIFICATION Spec
CONSTANTS
  Handlers = {"h1", "h2"}
  MaxRequests = 2
  Machines <- MCMachines
  DismCodes = {0}
  Failures = {"serve", "install", "open"}
PROPERTIES RepairWakes BindExitEnds
CHECK_DEADLOCK FALSE
