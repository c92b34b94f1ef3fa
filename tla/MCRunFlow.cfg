SPECIFICATION Spec
CONSTANTS
  Handlers = {"h1"}
  MaxRequests = 1
  Ops = {"stop", "requestStop", "exec"}
  Failures = {"log", "setup", "listen", "serve", "mount", "ovmd", "podman", "killall", "terminate"}
INVARIANTS EndComesLast ReturnMeansProcessed NoSendOnClosed ExitStopsDistro
PROPERTIES BoundExit
CHECK_DEADLOCK FALSE
