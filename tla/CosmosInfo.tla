----------------------------- MODULE CosmosInfo -----------------------------
(***************************************************************************)
(* The messages the Cosmos builder makes (chain/cosmos/builder.go), and    *)
(* what the client reads in a transaction (client.go FetchTxInfo, tx.go).  *)
(***************************************************************************)
EXTENDS Integers, Sequences, SequencesExt

CONSTANTS
  None,
  Coin,        \* the denomination of the chain's own asset
  Contracts,   \* the contracts of CW20 tokens, which are addresses
  ShortDenoms  \* denominations of less than LEN_NATIVE_ASSET characters

Send(from, to, coins) == [type |-> "MsgSend", from |-> from, to |-> to, coins |-> coins]

\* NewTransfer: every contract that is not an address is a denomination.
NewTransfer(o) ==
  IF o.contract \in Contracts
  THEN [type |-> "MsgExecuteContract", sender |-> o.from, contract |-> o.contract,
        transfer |-> [amount |-> o.amount, recipient |-> o.to]]
  ELSE Send(o.from, o.to,
            << [denom |-> IF o.contract = None THEN Coin ELSE o.contract, amount |-> o.amount] >>)

\* External: what moves when a message is executed.
MessageMoves(msg) ==
  IF msg.type = "MsgSend"
  THEN [k \in DOMAIN msg.coins |->
          [asset |-> msg.coins[k].denom, from |-> msg.from, to |-> msg.to,
           amount |-> msg.coins[k].amount]]
  ELSE << [asset |-> msg.contract, from |-> msg.sender, to |-> msg.transfer.recipient,
           amount |-> msg.transfer.amount] >>
Moves(t) == FlattenSeq([k \in DOMAIN t.msgs |-> MessageMoves(t.msgs[k])])

NextRequest(got) ==
  IF "tx" \notin DOMAIN got THEN "tx"
  ELSE IF "block" \notin DOMAIN got THEN "block"
  ELSE IF "abci" \notin DOMAIN got THEN "abci" ELSE "done"

\* Only these messages are read, so that a transfer of a CW20 token is not.
ParseTransfer(t) == SelectSeq(t.msgs, LAMBDA msg : msg.type = "MsgSend")

\* Mutant: the destinations have the amount of the transaction.
DestinationsOfOne(t) ==
  [k \in DOMAIN ParseTransfer(t) |->
     LET msg == ParseTransfer(t)[k]
     IN  [contract |-> msg.coins[1].denom, to |-> msg.to,
          amount |-> ParseTransfer(t)[1].coins[1].amount]]

Destinations(t) ==
  [k \in DOMAIN ParseTransfer(t) |->
     LET msg == ParseTransfer(t)[k]
     IN  [contract |-> msg.coins[1].denom, to |-> msg.to, amount |-> msg.coins[1].amount]]

ContractAddress(denom) == IF denom \in ShortDenoms THEN None ELSE denom

\* A transaction without a fee has no first coin of it.
Panics(t) == t.fee = <<>>

Info(t, got) ==
  LET sends == ParseTransfer(t)
      found == sends # <<>>
  IN  [from |-> IF found THEN sends[1].from ELSE None,
       to |-> IF found THEN sends[1].to ELSE None,
       contract |-> IF found THEN ContractAddress(sends[1].coins[1].denom) ELSE None,
       amount |-> IF found THEN sends[1].coins[1].amount ELSE 0,
       fee |-> t.fee[1].amount,
       failed |-> ~got["tx"].ok, block |-> got["tx"].place,
       confirmations |-> got["abci"].height - got["tx"].place,
       destinations |-> Destinations(t)]
=============================================================================
