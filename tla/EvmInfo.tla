------------------------------- MODULE EvmInfo -------------------------------
(***************************************************************************)
(* What the EVM client reads in a transaction and its receipt              *)
(* (chain/evm/client.go FetchTxInfo, tx.go).                               *)
(***************************************************************************)
EXTENDS EvmTasks

CONSTANTS
  GasUsed,        \* gas that every transaction uses
  BaseFees        \* the base fees of blocks, in turn

\* External: the node's answers. A block is known by its height and its fork.
BaseFee(height, fork) == BaseFees[1 + ((height + fork) % Len(BaseFees))]

\* The Transfer events of the receipt: a failed transaction leaves none, and
\* neither do wrapping and unwrapping.
Logs(t, ok) ==
  IF ~ok \/ t.sig \notin {"transfer", "sendTokens", "bridge", "multisendERC20"} THEN <<>>
  ELSE SelectSeq(Moves(t), LAMBDA m : m.asset \in DOMAIN Abi)

\* Mutant: the latest block is asked for before the receipt.
NextRequestLatestFirst(got) ==
  IF "tx" \notin DOMAIN got THEN "tx"
  ELSE IF got["tx"].place = 0 THEN "done"
  ELSE IF "latest" \notin DOMAIN got THEN "latest"
  ELSE IF "receipt" \notin DOMAIN got THEN "receipt"
  ELSE IF "header" \notin DOMAIN got THEN "header" ELSE "done"

\* The answers FetchTxInfo asks for, one after the other; a transaction that is
\* still pending ends it.
NextRequest(got) ==
  IF "tx" \notin DOMAIN got THEN "tx"
  ELSE IF got["tx"].place = 0 THEN "done"
  ELSE IF "receipt" \notin DOMAIN got THEN "receipt"
  ELSE IF "header" \notin DOMAIN got THEN "header"
  ELSE IF "latest" \notin DOMAIN got THEN "latest" ELSE "done"
-----------------------------------------------------------------------------
IsContract(t) == t.sig # None
IsERC20(t) == t.sig = "transfer" /\ Len(t.args) = 2

To(t) == IF IsERC20(t) THEN t.args[1] ELSE t.to
Amount(t) == IF IsERC20(t) THEN t.args[2] ELSE t.value
ContractAddress(t) == IF IsContract(t) THEN t.to ELSE None

Endpoint(contract, to, amount) == [contract |-> contract, to |-> to, amount |-> amount]

Width(sig) == IF sig = "multisendETH" THEN 2 ELSE 3
IsMultisend(t) ==
  t.sig \in {"multisendETH", "multisendERC20"} /\ Len(t.args) = 3 + Width(t.sig) * t.args[3]

ParseMultisendTransferTx(t) ==
  [k \in 1..t.args[3] |->
     LET e == Entries(t.args, Width(t.sig))[k]
     IN  IF t.sig = "multisendETH" THEN Endpoint(None, e[1], e[2])
         ELSE Endpoint(e[1], e[2], e[3])]

ParseReceipt(logs) ==
  [k \in DOMAIN logs |-> Endpoint(logs[k].asset, logs[k].to, logs[k].amount)]

\* The destinations: of a known method, of the logs, or of the transaction.
ParseTransfer(t, logs) ==
  IF IsMultisend(t) THEN ParseMultisendTransferTx(t)
  ELSE IF IsERC20(t) THEN <<Endpoint(t.to, To(t), Amount(t))>>
  ELSE IF logs # <<>> THEN ParseReceipt(logs)
  ELSE <<Endpoint(None, To(t), Amount(t))>>

\* A transaction that creates a contract has no recipient to dereference, a
\* multisend without its length no words to slice, and an event without topics,
\* such as the one that a toss leaves, no first one.
Panics(t, ok) ==
  \/ t.to = None
  \/ t.sig \in {"multisendETH", "multisendERC20"} /\ Len(t.args) < 3
  \/ t.sig = "toss" /\ ok

SmallerOf(m, n) == IF m < n THEN m ELSE n

\* The tip of a legacy transaction is its price.
Tip(t) == IF t.legacy THEN t.cap ELSE t.tip
Fee(t, base) == SmallerOf(GasUsed * (base + Tip(t)), t.cap * GasUsed)

Pending ==
  [from |-> None, to |-> None, contract |-> None, amount |-> 0, fee |-> 0, failed |-> FALSE,
   block |-> 0, confirmations |-> 0, destinations |-> <<>>]

Info(t, got) ==
  IF got["tx"].place = 0 THEN Pending
  ELSE LET receipt == got["receipt"]
       IN  [from |-> t.from, to |-> To(t), contract |-> ContractAddress(t), amount |-> Amount(t),
            fee |-> Fee(t, BaseFee(receipt.place, got["header"].fork)),
            failed |-> ~receipt.ok, block |-> receipt.place,
            confirmations |-> got["latest"].height - receipt.place,
            destinations |-> ParseTransfer(t, Logs(t, receipt.ok))]
-----------------------------------------------------------------------------
\* The fee the chain takes.
TrueFee(t, height, fork) ==
  GasUsed * (IF t.legacy THEN t.cap ELSE SmallerOf(t.cap, BaseFee(height, fork) + t.tip))
=============================================================================
