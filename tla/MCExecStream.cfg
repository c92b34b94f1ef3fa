SPECIFICATION Spec
CONSTANT MaxWrites = 3
INVARIANT TypeOK
PROPERTIES ImplementsStream RequestEnds WorkerEnds
CHECK_DEADLOCK FALSE
