---------------------------- MODULE MCTaskRegistry ----------------------------
(* The tasks and the pipeline of crosschain.yaml, and one more pipeline that *)
(* names a task which is not configured.                                     *)
EXTENDS TaskRegistry

entry(src, dst) == [src |-> src, dst |-> dst]

MCAssets == {"ETH", "SOL", "WETH.ETH", "WETH.MATIC", "WETH.SOL", "WSOL.SOL"}

MCTasks == <<
  [name |-> "sol-wrap", allow |-> <<entry("SOL", "WSOL.SOL")>>],
  [name |-> "eth-wrap", allow |-> <<entry("ETH", "WETH.ETH"), entry("WETH.ETH", "WETH.ETH")>>],
  [name |-> "proxy-transfer-erc20", allow |-> <<entry("*", "*")>>],
  [name |-> "wormhole-approve", allow |-> <<>>],
  [name |-> "wormhole-transfer", allow |-> <<>>] >>

MCPipelines == <<
  [allow |-> <<entry("WETH.ETH", "WETH.MATIC"), entry("WETH.ETH", "WETH.SOL"),
               entry("WETH.MATIC", "WETH.SOL")>>,
   tasks |-> <<"wormhole-approve", "wormhole-transfer">>],
  [allow |-> <<entry("SOL", "WETH.SOL")>>,
   tasks |-> <<"wormhole-approve", "wormhole-transfre">>] >>

request(name, src, dst) == [name |-> name, src |-> src, dst |-> dst]

MCRequests == {
  request("none", "ETH", "WETH.ETH"), request("none", "WETH.ETH", "WETH.MATIC"),
  request("none", "WETH.MATIC", "WETH.SOL"), request("none", "SOL", "WETH.SOL"),
  request("none", "SOL", "WETH.MATIC"),
  request("eth-wrap", "ETH", "none"), request("proxy-transfer-erc20", "WETH.SOL", "none"),
  request("proxy-transfer-erc20", "DAI", "none"), request("wormhole-transfer", "WETH.ETH", "none"),
  request("Wormhole-Transfer", "WETH.ETH", "WETH.SOL"), request("eth-wrap", "SOL", "WSOL.SOL") }

\* Two pairs that the wormhole pipeline connects.
MCPairs == {
  request("none", "WETH.ETH", "WETH.MATIC"), request("none", "WETH.MATIC", "WETH.SOL") }

MCFold ==
  [n \in Names \cup {"Wormhole-Transfer"} |->
     IF n = "Wormhole-Transfer" THEN "wormhole-transfer" ELSE n]
===============================================================================
