SPECIFICATION RegistrySpec
SYMMETRY AnyClient
CONSTANTS
  Clients = {c1, c2}
  Natives = {atom, atom2}
  Tokens = {usdc, usdc2}
  Configured = {atom, usdc}
  atom = atom
  atom2 = atom2
  usdc = usdc
  usdc2 = usdc2
  Given <- OneChain
  Contracts <- ContractNames
  Normal <- LowerCase
  Callbacks = {"contract"}
  Destinations <- SomeDestinations
  Stores = 2
  Blank = ""
  NoConfig = NoConfig
PROPERTIES
  RegisteredTokensAreFound
  SettingsAreFresh
