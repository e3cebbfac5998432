SPECIFICATION Spec
CONSTANTS
  Assets <- AssetChoice
  Amounts = {3, 9}
  IntBits = 3
  Blocks <- BlockChoice
  Heights = {1, 2, 3, 9}
  Young = 2
  Wanted = 3
  MaxAttempts = 2
  DefaultPrice = 1
  Callbacks = {2}
  Micros = 2
  Hour = 1
  Start = 5
  MaxTime = 7
INVARIANTS
  RequestsAreFew
  HashNamesWhatIsSent
  PaidOnce
\* A caller may stop at any point.
CHECK_DEADLOCK FALSE
