SPECIFICATION Spec
CONSTANTS
  Handlers = {h1, h2}
  Files <- MCFiles
  MaxFixes = 3
SYMMETRY MCSymmetry
INVARIANTS TypeOK FixedIsCompatible KeepsLines NeverWorse
CHECK_DEADLOCK FALSE
