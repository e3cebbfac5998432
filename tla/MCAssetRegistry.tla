-------------------------- MODULE MCAssetRegistry --------------------------
(* Instance of AssetRegistry for TLC. *)
EXTENDS AssetRegistry, TLC

CONSTANTS atom, atom2, usdc, usdc2

AnyClient == Permutations(Clients)

\* A chain, which may be put again with other settings, and a token of it,
\* which may be put again with another contract.
OneChain ==
  (atom  :> [asset |-> "ATOM", chain |-> "", contract |-> "", coin |-> "uatom"]) @@
  (atom2 :> [asset |-> "ATOM", chain |-> "", contract |-> "", coin |-> "uatom"]) @@
  (usdc  :> [asset |-> "USDC", chain |-> "ATOM", contract |-> "0xAB", coin |-> ""]) @@
  (usdc2 :> [asset |-> "USDC", chain |-> "ATOM", contract |-> "0xCD", coin |-> ""])

\* NormalizeAddressString puts hexadecimal addresses in lower case.
LowerCase ==
  [k \in {"", "uatom", "0xAB", "0xab", "0xCD"} |->
     CASE k = "0xAB" -> "0xab" [] k = "0xCD" -> "0xcd" [] OTHER -> k]

ContractNames == DOMAIN LowerCase

SomeDestinations ==
  { [contract |-> k, chain |-> "ATOM", config |-> NoConfig] : k \in {"", "0xab"} }
=============================================================================
