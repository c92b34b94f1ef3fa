SPECIFICATION Spec
CONSTANT Versions = {1, 2, 3}
INVARIANTS TypeOK ReadyIsWanted
PROPERTY KeepUserData
