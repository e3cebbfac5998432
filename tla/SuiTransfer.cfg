SPECIFICATION Spec
CONSTANTS
  Starts <- WalletStarts
  Amounts = {0, 1, 3, 5, 13}
  MaxCoinObjects = 2
  NormalBudget = 3
  GasUsed = 1
  Prices = {1}
  ByteBits = 3
  U64Bytes = 2
  AddressBytes = 1
  MaxContainerDepth = 20
  Encode <- EncodeTransaction
  Decode <- DecodeTransaction
  EncodeIntent <- EncodeIntentMessage
INVARIANTS
  BuiltTransfersRun
  PaysTheAmount
  ReadsAsWritten
PROPERTIES
  PaidInItsEpoch
\* A caller may stop at any point.
CHECK_DEADLOCK FALSE
