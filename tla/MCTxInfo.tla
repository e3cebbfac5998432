------------------------------ MODULE MCTxInfo ------------------------------
(* The transactions that are asked for: transfers and tasks as the builders  *)
(* make them, with tasks of crosschain.yaml, and some of other programs.     *)
EXTENDS TxInfo

CONSTANTS
  Weth, Usdc, Bridge, Proxy, Multisend, Game,  \* contracts
  YouOnXdc,                      \* an address with a prefix
  WethOnMatic, YouOnSol, Cut,    \* of other chains, and what is decoded of the last
  Ibc, Usd, Cw20,                              \* Cosmos: a long, a short denomination, a contract
  Coinage                                      \* Sui: a type of coin

MCAbi ==
  (Weth :> {"deposit", "withdraw", "transfer", "approve"}) @@ (Usdc :> {"transfer", "approve"})
    @@ (Bridge :> {"bridge"}) @@ (Proxy :> {"sendETH", "sendTokens"})
    @@ (Multisend :> {"multisendETH", "multisendERC20"}) @@ (Game :> {"play", "toss"})
MCTrimmed == YouOnXdc :> You
\* A prefix does not begin with a hexadecimal digit.
MCDecodes == (None :> Zero) @@ (YouOnSol :> Cut) @@ (YouOnXdc :> Zero)
MCBaseFees == <<1, 3>>

-----------------------------------------------------------------------------
(* EVM *)

Eth   == [chain |-> "ETH", contract |-> None, price |-> 0]
WEth  == [chain |-> "ETH", contract |-> Weth, price |-> 2]
UsdcA == [chain |-> "ETH", contract |-> Usdc, price |-> 1]
WMatic == [chain |-> "MATIC", contract |-> WethOnMatic, price |-> 2]
WSol  == [chain |-> "SOL", contract |-> None, price |-> 2]

Unset == [of |-> "none"]
All(value) == [of |-> "all", value |-> value]
Param(type, bind, value, match) == [type |-> type, bind |-> bind, value |-> value, match |-> match]
Bind(type, bind) == Param(type, bind, Unset, None)
Task(code, contract, signature, params) ==
  [code |-> code, contract |-> contract, signature |-> signature, params |-> params]

BridgeOn == [of |-> "chain", value |-> [ETH |-> Bridge]]
EthWrap   == Task("", [of |-> "dst_asset"], "deposit", <<>>)
EthUnwrap == Task("", Unset, "withdraw", <<Bind("uint256", "amount")>>)
ProxyTransfer == Task("ProxyTransferTx", Unset, None, <<>>)
Erc20Transfer == Task("", Unset, "transfer", <<Bind("address", "to"), Bind("uint256", "amount")>>)
WormholeApprove ==
  Task("", Unset, "approve", <<Param("address", None, BridgeOn, None), Bind("uint256", "amount")>>)
WormholeTransfer ==
  Task("WormholeTransferTx", BridgeOn, "bridge",
       <<Bind("address", "contract"), Bind("uint256", "amount"),
         Param("uint256", None, [of |-> "chain", value |-> [SOL |-> 1, ETH |-> 2, MATIC |-> 5]], "dst_asset"),
         Bind("address", "to")>>)
MultisendEth ==
  Task("MultisendTransferTx", All(Multisend), "multisendETH",
       <<Param("uint256", None, Unset, None), Param("uint256", None, Unset, None),
         Param("array", "destinations", Unset, None)>>)
\* An approval whose spender and limit the user passes.
UserApprove ==
  Task("", All(Usdc), "approve",
       <<Param("address", None, Unset, None), Param("uint256", None, Unset, None)>>)

Amount == 5
Nonce == 7
Order(task, asset, dst, from, params) ==
  [task |-> task, asset |-> asset, dst |-> dst, from |-> from, to |-> You, amount |-> Amount,
   params |-> params, nonce |-> Nonce]
Transfer(asset) == Order(None, asset, asset, Me, <<>>)
Move(asset, from, to, amount) == [asset |-> asset, from |-> from, to |-> to, amount |-> amount]

\* Orders, with what they are for.
EvmOrders ==
  { [order |-> [Transfer(Eth) EXCEPT !.to = YouOnXdc], moves |-> <<Move(Native, Me, You, Amount)>>],
    [order |-> Transfer(Eth),  moves |-> <<Move(Native, Me, You, Amount)>>],
    [order |-> Transfer(UsdcA), moves |-> <<Move(Usdc, Me, You, Amount)>>],
    [order |-> Order(Erc20Transfer, WEth, WEth, Me, <<>>), moves |-> <<Move(Weth, Me, You, Amount)>>],
    [order |-> Order(EthWrap, Eth, WEth, Me, <<>>),
     moves |-> <<Move(Native, Me, Weth, Amount), Move(Weth, Zero, Me, Amount)>>],
    [order |-> Order(EthUnwrap, WEth, Eth, Me, <<>>),
     moves |-> <<Move(Weth, Me, Zero, Amount), Move(Native, Weth, Me, Amount)>>],
    [order |-> Order(ProxyTransfer, Eth, Eth, Proxy, <<>>), moves |-> <<Move(Native, Proxy, You, Amount)>>],
    [order |-> Order(ProxyTransfer, UsdcA, UsdcA, Proxy, <<>>),
     moves |-> <<Move(Usdc, Proxy, You, Amount)>>],
    [order |-> Order(WormholeApprove, WEth, WMatic, Me, <<>>),
     moves |-> <<Move(<<"allowance", Weth>>, Me, Bridge, Amount)>>],
    [order |-> Order(WormholeTransfer, WEth, WMatic, Me, <<>>),
     moves |-> <<Move(Weth, Me, Bridge, Amount), Move(<<"bridged", Weth>>, Bridge, <<5, You>>, Amount)>>],
    \* Of a recipient on Solana, or of one with a prefix, a task's parameter has
    \* only what could be decoded: the payment goes astray.
    [order |-> [Order(Erc20Transfer, WEth, WEth, Me, <<>>) EXCEPT !.to = YouOnXdc], moves |-> None],
    [order |-> [Order(WormholeTransfer, WEth, WSol, Me, <<>>) EXCEPT !.to = YouOnSol],
     moves |-> None],
    [order |-> [Order(UserApprove, UsdcA, UsdcA, Me, <<You, 3>>) EXCEPT !.amount = 0],
     moves |-> <<Move(<<"allowance", Usdc>>, Me, You, 3)>>],
    \* The array is not implemented: the builder leaves the destinations out.
    [order |-> Order(MultisendEth, Eth, Eth, Me, <<64, 15694>>), moves |-> None] }

EvmTx(to, value, sig, args, legacy) ==
  [driver |-> "evm", from |-> Me, to |-> to, value |-> value, sig |-> sig, args |-> args,
   legacy |-> legacy, tip |-> 1, cap |-> 3, order |-> None, intended |-> None]

\* Transfers are to be read back as they were ordered; of tasks only what is paid.
ReadBack(o, moves) ==
  IF moves # None /\ o.task \in {None, Erc20Transfer}
  THEN [from |-> o.from, to |-> Evm!HexToAddress(o.to), contract |-> o.asset.contract, amount |-> o.amount]
  ELSE None
Built ==
  { LET call == Evm!NewTransfer(e.order)
    IN  [EvmTx(call.to, call.value, call.sig, call.args, legacy)
           EXCEPT !.order = ReadBack(e.order, e.moves), !.intended = e.moves] :
      e \in { e \in EvmOrders : Evm!NewTransfer(e.order).ok }, legacy \in BOOLEAN }

Others ==
  { EvmTx(Multisend, 5, "multisendETH", <<64, 9, 2, You, 3, Me, 2>>, FALSE),
    EvmTx(Multisend, 0, "multisendERC20", <<64, 9, 2, Usdc, You, 3, Weth, You, 4>>, FALSE),
    EvmTx(Multisend, 0, "multisendERC20", <<64, 9, 2, Usdc, You, 3>>, FALSE),
    EvmTx(Game, 2, "play", <<1>>, FALSE),
    EvmTx(Game, 2, "toss", <<>>, FALSE),
    EvmTx(None, 0, "play", <<>>, FALSE) }

MCEvmTxs == Built \cup Others
\* Callers share the interceptor, whatever they ask for.
MCContended == { t \in Built : t.sig = None /\ ~t.legacy }
Symmetry == Permutations(Callers)
-----------------------------------------------------------------------------
(* The other chains *)

Ordered(contract, amount) == [from |-> Me, to |-> You, contract |-> contract, amount |-> amount]

Coins(denom, amount) == [denom |-> denom, amount |-> amount]
CosmosTx(msgs, fee, order) ==
  [driver |-> "cosmos", from |-> Me, msgs |-> msgs, fee |-> fee, order |-> order,
   gas |-> IF fee = <<>> THEN 0 ELSE fee[1].amount]
OneFee == <<Coins(Coin, 2)>>
MCCosmosTxs ==
  { CosmosTx(<<Cosmos!NewTransfer(Ordered(contract, 5))>>, OneFee,
             IF contract \in {None, Ibc} THEN Ordered(contract, 5) ELSE None) :
      contract \in {None, Ibc, Usd, Cw20} }
  \cup
  { CosmosTx(<<Cosmos!NewTransfer(Ordered(Cw20, 1)), Cosmos!Send(Me, You, <<Coins(Coin, 3), Coins(Ibc, 4)>>),
               Cosmos!Send(Me, You, <<Coins(Coin, 2)>>), Cosmos!Send(You, Me, <<Coins(Usd, 1)>>)>>,
             OneFee, None),
    CosmosTx(<<Cosmos!NewTransfer(Ordered(None, 5))>>, <<>>, None) }

\* Gas that is given back makes the last one who has more the sender.
SuiTx(moves, gas, owners, order) ==
  [driver |-> "sui", from |-> Me, moves |-> moves, gas |-> gas, owners |-> owners,
   objects |-> {Game}, order |-> order]
MCSuiTxs ==
  { SuiTx(<<Move(coin, Me, You, 5)>>, gas, owners,
          IF gas > 0 THEN Ordered(IF coin = SUI THEN None ELSE coin, 5) ELSE None) :
      coin \in {SUI, Coinage}, gas \in {2, -1}, owners \in {<<Me, You>>, <<You, Me>>} }
  \cup { SuiTx(<<Move(Coinage, Me, You, 5), Move(SUI, You, Me, 4)>>, 2, <<Me, You>>, None),
           \* A coin is paid into an object.
           SuiTx(<<Move(Coinage, Me, Game, 5)>>, 2, <<Me, Game>>, None) }

AptosTx(function, arguments, moves, order) ==
  [driver |-> "aptos", from |-> Me, payload |-> [function |-> function, arguments |-> arguments],
   moves |-> moves, gas |-> 2, order |-> order]
MCAptosTxs ==
  { AptosTx(function, <<You, 5>>, <<Move(None, Me, You, 5)>>, Ordered(None, 5)) :
      function \in {"transfer", "coin::transfer"} }
  \cup { AptosTx("batch_transfer_coins", <<<<You>>, <<5>>>>, <<Move(None, Me, You, 5)>>, None),
         AptosTx("play", <<>>, <<>>, None) }

Of(address, value) == [address |-> address, value |-> value]
BitcoinTx(client, inputs, outputs, ownFee, order) ==
  [driver |-> "bitcoin", from |-> Me, client |-> client, inputs |-> inputs, outputs |-> outputs,
   ownFee |-> ownFee, position |-> 3, order |-> order,
   moves |-> [k \in DOMAIN outputs |-> Move(None, Me, outputs[k].address, outputs[k].value)],
   gas |-> Bitcoin!Total(inputs) - Bitcoin!Total(outputs)]
MCBitcoinTxs ==
  { BitcoinTx(client, inputs, outputs, fee, Ordered(None, 5)) :
      client \in {"native", "blockchair"}, fee \in {0, 1},
      inputs \in {<<Of(Me, 8)>>, <<Of(Me, 3), Of(Me, 5)>>},
      outputs \in {<<Of(You, 5), Of(Me, 2)>>, <<Of(Me, 2), Of(You, 5)>>} }
  \cup
  { BitcoinTx(client, <<Of(You, 2), Of(Me, 6)>>, <<Of(You, 3), Of(You, 4), Of(Me, 1)>>, 0, None) :
      client \in {"native", "blockchair"} }
=============================================================================
