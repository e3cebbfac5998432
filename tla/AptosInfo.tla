------------------------------ MODULE AptosInfo ------------------------------
(***************************************************************************)
(* What the Aptos client reads in a transaction (chain/aptos/client.go     *)
(* FetchTxInfo, util.go): the arguments of its payload.                    *)
(***************************************************************************)
EXTENDS Integers, Sequences

CONSTANT None

NextRequest(got) ==
  IF "tx" \notin DOMAIN got THEN "tx"
  ELSE IF "block" \notin DOMAIN got THEN "block"
  ELSE IF "ledger" \notin DOMAIN got THEN "ledger" ELSE "done"

\* The transfers of a batch are not read; those of other functions are taken
\* from their first two arguments.
toFromTxPayload(payload) ==
  IF payload.function = "batch_transfer_coins" \/ payload.arguments = <<>> THEN None
  ELSE payload.arguments[1]

valueFromTxPayload(payload) ==
  IF payload.function = "batch_transfer_coins" \/ Len(payload.arguments) < 2 THEN 0
  ELSE payload.arguments[2]

\* The status is never set, the contract neither.  A transaction that is still
\* pending has version 0, and is taken for one of the first block.
Info(t, got) ==
  [from |-> t.from, to |-> toFromTxPayload(t.payload), contract |-> None,
   amount |-> valueFromTxPayload(t.payload), fee |-> t.gas, failed |-> FALSE,
   block |-> got["tx"].place,
   confirmations |-> got["ledger"].height - got["tx"].place,
   destinations |-> <<>>]
=============================================================================
