SPECIFICATION MCSpec
CONSTANTS
  Notifiers = {"main", "h1", "h2"}
  Names = {"Error", "Exit", "NeedReboot"}
  Terminal = {"Exit", "NeedReboot"}
  Enders = {"main", "h1", "h2"}
  MaxEvents = 4
INVARIANTS TypeOK NothingAfterTerminal
PROPERTIES AwaitEnds ImplementsStream
CHECK_DEADLOCK FALSE
