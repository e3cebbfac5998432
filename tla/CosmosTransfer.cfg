SPECIFICATION AccountSpec
CONSTANTS
  Kind = "native"
  Recipients = {alice}
  BadAddress = BadAddress
  GasPrices = {1, 2}
  OneAtATime = TRUE
  MaxTxs = 3
  MaxSubmits = 3
INVARIANTS
  SignedIsAcceptable
  SubmittedAsSigned
CHECK_DEADLOCK FALSE
