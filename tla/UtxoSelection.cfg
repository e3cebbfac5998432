SPECIFICATION SelectSpec
CONSTANTS
  Values = {0, 1, 3}
  Targets = {0, 1, 4, 30}
  MaxUnspent = 4
  MinUtxo = 2
INVARIANTS
  NoOutputTwice
  ComputesMinUtxoSet
PROPERTIES
  ImplementsChoice
\* The function returns: "done" has no successor.
CHECK_DEADLOCK FALSE
