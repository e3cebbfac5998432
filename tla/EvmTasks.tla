------------------------------ MODULE EvmTasks ------------------------------
(***************************************************************************)
(* What the EVM builder makes of an order (chain/evm/builder.go, task.go): *)
(* a transfer of the chain's asset or of a token, or a task, whose call is *)
(* put together from its configuration.  Call data is a method and a list  *)
(* of words, each an address or a number.                                  *)
(***************************************************************************)
EXTENDS Integers, Sequences, SequencesExt

CONSTANTS
  Zero,       \* the zero address, which decoding makes of the empty text, None
  Native,     \* the chain's own asset, as something that moves
  None,
  Abi,        \* the methods of the contracts there are, by their address
  ArbiterFee, \* arbiter_fee_usd of the task that bridges
  Trimmed,    \* addresses with a chain's prefix, with what is left without it
  Decodes     \* texts that are no EVM address, with what decoding leaves of them

\* An order: [task, asset, dst, from, to, amount, params, nonce], where an asset
\* is [chain, contract, price] and a task [code, contract, signature, params].

\* go-ethereum's HexToAddress has no error: the hexadecimal digits that a text
\* starts with become an address.
Decode(text) == IF text \in DOMAIN Decodes THEN Decodes[text] ELSE text

\* This package's removes a chain's prefix before.
HexToAddress(text) == Decode(IF text \in DOMAIN Trimmed THEN Trimmed[text] ELSE text)

Call(to, value, sig, args) == [ok |-> TRUE, to |-> to, value |-> value, sig |-> sig, args |-> args]
Error == [ok |-> FALSE]

\* A setting is given for all chains, or for each of some chains.
Setting(s, chain, otherwise) ==
  CASE s.of = "all"   -> s.value
    [] s.of = "chain" -> IF chain \in DOMAIN s.value THEN s.value[chain] ELSE otherwise
    [] OTHER          -> otherwise

\* Mutant: a task is never about the asset that arrives.
ContractOfSource(o) == Setting(o.task.contract, o.asset.chain, o.asset.contract)

Contract(o) ==
  IF o.task.contract.of = "dst_asset" THEN o.dst.contract
  ELSE Setting(o.task.contract, o.asset.chain, o.asset.contract)

\* What a parameter may be bound to.
Bound(o) ==
  [amount |-> o.amount, from |-> Decode(o.from), to |-> Decode(o.to),
   contract |-> Decode(o.asset.contract)]

\* The word of one parameter, added to what the earlier ones gave.  A type that
\* the builder does not know, or a bind, adds nothing and is not an error.
AddParam(o, acc, p) ==
  LET chain == IF p.match = "dst_asset" THEN o.dst.chain ELSE o.asset.chain
      asked == p.value.of = "none"
      text  == IF asked THEN o.params[acc.used + 1] ELSE Setting(p.value, chain, None)
  IN  IF ~acc.ok THEN acc
      ELSE IF p.bind # None
      THEN IF p.bind \notin DOMAIN Bound(o) THEN acc
           ELSE [acc EXCEPT !.args = Append(@, Bound(o)[p.bind]),
                            !.consumed = @ \/ p.bind = "amount"]
      ELSE IF asked /\ acc.used >= Len(o.params) THEN [acc EXCEPT !.ok = FALSE]
      ELSE CASE p.type = "uint256" /\ text \notin Nat -> [acc EXCEPT !.ok = FALSE]
             [] OTHER ->
                  LET words == CASE p.type = "uint256" -> <<text>>
                                 [] p.type = "address" -> <<Decode(text)>>
                                 [] OTHER              -> <<>>
                  IN  [acc EXCEPT !.args = @ \o words, !.used = @ + IF asked THEN 1 ELSE 0]

Params(o) ==
  FoldLeft(LAMBDA acc, p : AddParam(o, acc, p),
           [ok |-> TRUE, args |-> <<>>, used |-> 0, consumed |-> FALSE], o.task.params)

\* The value of the transaction is the amount, unless a parameter is.
BuildTaskPayload(o) ==
  IF ~Params(o).ok THEN Error
  ELSE Call(HexToAddress(Contract(o)), IF Params(o).consumed THEN 0 ELSE o.amount,
            o.task.signature, Params(o).args)

\* The relayer's fee, in units of the token that arrives, and the nonce.
BuildWormholePayload(o) ==
  LET call == BuildTaskPayload(o)
  IN  IF ~call.ok \/ o.dst.price = 0 THEN Error
      ELSE [call EXCEPT !.args = @ \o <<ArbiterFee \div o.dst.price, o.nonce>>]

\* The transfer is from the contract that holds the funds; the task's signer
\* calls it.
BuildProxyPayload(o) ==
  LET proxy == HexToAddress(o.from)
      to    == HexToAddress(o.to)
  IN  IF o.asset.contract = None THEN Call(proxy, 0, "sendETH", <<o.amount, to>>)
      ELSE Call(proxy, 0, "sendTokens", <<HexToAddress(o.asset.contract), o.amount, to>>)

BuildERC20Payload(o) ==
  Call(HexToAddress(o.asset.contract), 0, "transfer", <<HexToAddress(o.to), o.amount>>)

NewTask(o) ==
  CASE o.task.code = "ProxyTransferTx"    -> BuildProxyPayload(o)
    [] o.task.code = "WormholeTransferTx" -> BuildWormholePayload(o)
    [] OTHER                              -> BuildTaskPayload(o)

NewTransfer(o) ==
  IF o.task # None THEN NewTask(o)
  ELSE IF o.asset.contract # None THEN BuildERC20Payload(o)
  ELSE Call(HexToAddress(o.to), o.amount, None, <<>>)
-----------------------------------------------------------------------------
(* External: what the contracts do with a call *)

\* How many words a method takes, and whether it takes the chain's asset.
Words(sig) == CASE sig = "deposit" -> 0 [] sig = "withdraw" -> 1
                [] sig \in {"transfer", "approve", "sendETH"} -> 2
                [] sig = "sendTokens" -> 3 [] sig = "bridge" -> 6
Payable(sig) == sig \in {"deposit", "multisendETH", "play", "toss"}

\* The list of a multisend starts with its length, after two words.
Entries(args, width) ==
  [k \in 1..args[3] |-> SubSeq(args, 4 + width * (k - 1), 3 + width * k)]

Runs(t) ==
  \/ t.sig = None \/ t.to = None \/ t.to \notin DOMAIN Abi
  \/ /\ t.sig \in Abi[t.to] /\ (t.value > 0 => Payable(t.sig))
     /\ CASE t.sig \in {"play", "toss"} -> TRUE
          [] t.sig \in {"multisendETH", "multisendERC20"} ->
               Len(t.args) >= 3 /\ Len(t.args) = 3 + t.args[3] * (IF t.sig = "multisendETH" THEN 2 ELSE 3)
          [] OTHER -> Len(t.args) = Words(t.sig)

Move(asset, from, to, amount) == [asset |-> asset, from |-> from, to |-> to, amount |-> amount]

MethodMoves(t) ==
  LET a == t.args
  IN  CASE t.sig = "deposit"    -> <<Move(t.to, Zero, t.from, t.value)>>
        [] t.sig = "withdraw"   -> <<Move(t.to, t.from, Zero, a[1]), Move(Native, t.to, t.from, a[1])>>
        [] t.sig = "transfer"   -> <<Move(t.to, t.from, a[1], a[2])>>
        [] t.sig = "approve"    -> <<Move(<<"allowance", t.to>>, t.from, a[1], a[2])>>
        [] t.sig = "sendETH"    -> <<Move(Native, t.to, a[2], a[1])>>
        [] t.sig = "sendTokens" -> <<Move(a[1], t.to, a[3], a[2])>>
        [] t.sig = "bridge"     -> <<Move(a[1], t.from, t.to, a[2]),
                                     Move(<<"bridged", a[1]>>, t.to, <<a[3], a[4]>>, a[2])>>
        [] t.sig = "multisendETH" ->
             [k \in 1..a[3] |-> Move(Native, t.to, Entries(a, 2)[k][1], Entries(a, 2)[k][2])]
        [] t.sig = "multisendERC20" ->
             [k \in 1..a[3] |-> Move(Entries(a, 3)[k][1], t.to, Entries(a, 3)[k][2], Entries(a, 3)[k][3])]
        [] OTHER -> <<>>

\* What moves when a transaction that runs is executed.
Moves(t) ==
  (IF t.value > 0 THEN <<Move(Native, t.from, t.to, t.value)>> ELSE <<>>)
    \o (IF t.sig = None \/ t.to \notin DOMAIN Abi THEN <<>> ELSE MethodMoves(t))
=============================================================================
