SPECIFICATION Spec
CONSTANTS
  Me = Me
  You = You
  Custom = Custom
  Token = Token
  Wrapped = Wrapped
  Amounts = {1, 2}
  Life = 0
  MaxHeight = 1
  MaxOrders = 2
  None = None
INVARIANTS
  FreshTransfersRun
  InfoIsTrue
PROPERTIES
  PaidAsOrdered
\* The bounds on blocks and transfers are met.
CHECK_DEADLOCK FALSE
