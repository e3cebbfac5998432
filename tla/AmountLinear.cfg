SPECIFICATION Spec
CONSTANTS
  Vars = {x, y}
  Loads = {0, 1, 3}
  Base = 2
  MaxMag = 9
  MaxArrays = 3
  Linear = TRUE
INVARIANTS
  Separated
PROPERTIES
  ImplementsValues
  OthersUnchanged
\* No operation is enabled when the bounds on arrays and magnitudes are met.
CHECK_DEADLOCK FALSE
