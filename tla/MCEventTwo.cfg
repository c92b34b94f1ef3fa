SPECIFICATION MCSpec
CONSTANTS
  Notifiers = {"main", "h1", "h2"}
  Names = {"Error", "Exit", "NeedReboot"}
  Terminal = {"Exit", "NeedReboot"}
  Enders = {"main", "h1"}
  MaxEvents = 3
INVARIANTS ReturnMeansProcessed
CHECK_DEADLOCK FALSE
