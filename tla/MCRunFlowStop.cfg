SPECIFICATION Spec
CONSTANTS
  Handlers = {"h1", "h2"}
  MaxRequests = 2
  Ops = {"requestStop"}
  Failures = {"terminate"}
INVARIANTS TypeOK StopIsReported StopIsAnswered
PROPERTIES CloseEnds
CHECK_DEADLOCK FALSE
