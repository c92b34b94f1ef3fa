SPECIFICATION Spec
CONSTANT Failures = {"check", "terminate", "shutdown", "unmount", "copy", "move", "remove"}
INVARIANTS TypeOK DataSurvives MovedIsComplete ErrorKeepsOld
