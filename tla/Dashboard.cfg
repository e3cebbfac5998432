SPECIFICATION FairSpec
CONSTANTS
  Clients = {c1, c2}
  Chains = {"SOL", "ETH"}
  Blank = Blank
  NoClient = NoClient
  MaxCalls = 3
INVARIANTS
  IdsAreDistinct
  SessionsHaveWallets
PROPERTIES
  NothingIsLost
  ImplementsRegistry
  EveryCallReturns
CHECK_DEADLOCK FALSE
