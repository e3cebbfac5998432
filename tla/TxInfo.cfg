SPECIFICATION Spec
CONSTANTS
  Callers = {c1, c2}
  Me = Me
  You = You
  None = None
  Zero = Zero
  Native = Native
  Weth = Weth
  Usdc = Usdc
  Bridge = Bridge
  Proxy = Proxy
  Multisend = Multisend
  Game = Game
  WethOnMatic = WethOnMatic
  YouOnSol = YouOnSol
  Cut = Cut
  Abi <- MCAbi
  Decodes <- MCDecodes
  Trimmed <- MCTrimmed
  YouOnXdc = YouOnXdc
  ArbiterFee = 5
  GasUsed = 2
  BaseFees <- MCBaseFees
  Coin = Coin
  Ibc = Ibc
  Usd = Usd
  Cw20 = Cw20
  Contracts = {Cw20}
  ShortDenoms = {Coin, Usd}
  SUI = SUI
  Coinage = Coinage
  EvmTxs <- MCEvmTxs
  CosmosTxs <- MCCosmosTxs
  SuiTxs <- MCSuiTxs
  AptosTxs <- MCAptosTxs
  BitcoinTxs <- MCBitcoinTxs
  Contended <- MCContended
  MaxHeight = 3
SYMMETRY Symmetry
INVARIANTS
  InterceptorIsSwitchedOff
  FailsForAReason
  OrdersAreCarriedOut
  ConfirmationsAreTrue
  DestinationsWerePaid
  InfoIsTrue
CHECK_DEADLOCK FALSE
