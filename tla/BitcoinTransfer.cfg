SPECIFICATION FairSpec
CONSTANTS
  Transfers = {t1, t2}
  Amounts = {3, 5}
  GasPrices = {0, 1}
  StartOutputs <- ThreeOutputs
  MinUtxo = 2
  BytesPerInput = 2
  IntBits = 6
  Retrying = {t1}
  MaxCalls = 2
  NoTx = NoTx
INVARIANTS
  FundsConserved
  AffordableTransfersAreBuilt
  ResultsAreTrue
PROPERTIES
  SubmitReturns
\* A caller may stop at any point.
CHECK_DEADLOCK FALSE
