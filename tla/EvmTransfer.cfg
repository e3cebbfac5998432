SPECIFICATION FairSpec
CONSTANTS
  Transfers = {t1, t2}
  Orders <- TwoOrders
  Assets <- ThreeAssets
  BaseFees = {0, 7}
  CallbackFees = {3}
  DefaultPrice = 1
  DefaultTip = 1
  Multiplier = 2
  Balances <- BeforeAndAfter
  MaxBuilds = 2
INVARIANTS
  NeverOverpaid
  ResultsAreTrue
PROPERTIES
  RetriesEnd
\* A caller may stop at any point.
CHECK_DEADLOCK FALSE
