--------------------------- MODULE AptosTransfer ---------------------------
(***************************************************************************)
(* A transfer on Aptos: the ledger, the account and the gas prices of      *)
(* recent blocks are fetched one after the other, and from the one input   *)
(* transactions are built, signed and submitted, in any order and each as  *)
(* often as the caller likes, also after one was accepted, while other     *)
(* transactions of the account run and time passes. The chain, external,   *)
(* keeps what it accepts until it runs, expires or is dropped.             *)
(* A ledger's time in microseconds is a larger number than any time in     *)
(* seconds to come, here as it is on the chain.                            *)
(***************************************************************************)
EXTENDS Integers, Sequences, FiniteSets, Functions

CONSTANTS Assets,        \* [contract, configured]: a token's contract ("" for
                         \* APT), and the contract of the asset's own config
          Amounts,       \* amounts to transfer
          IntBits,       \* the width of uint64
          Blocks,        \* blocks: the gas prices of their transactions
          Heights,       \* how high the chain may be
          Young,         \* 500 blocks
          Wanted,        \* 50 transactions
          MaxAttempts,   \* 10
          DefaultPrice,  \* 100
          Callbacks,     \* what a registered EstimateGasFunc may return
          Micros,        \* microseconds in a second
          Hour,          \* 60*60 seconds
          Start, MaxTime \* microseconds: when the run begins, and ends

ASSUME AptosAssumption ==
  /\ Amounts \subseteq Nat /\ Callbacks \subseteq Nat
  /\ Blocks \subseteq Seq(Nat) /\ Heights \subseteq Nat
  /\ {Wanted, MaxAttempts, Micros} \subseteq Nat \ {0}
  /\ {IntBits, Young, DefaultPrice, Hour, Start, MaxTime} \subseteq Nat
  /\ Start > MaxTime \div Micros

APT == "0x1::aptos_coin::AptosCoin"

VARIABLES
  asset,    \* TxBuilder.Asset
  stage,    \* how far the caller is
  estimate, \* EstimateGas's height, attempts, prices found and requests made
  input,    \* the TxInput
  tx,       \* the Tx built last
  asked,    \* history: the amounts asked for
  sequence, \* the account's sequence number on the chain
  now,      \* the ledger's time in microseconds
  pool,     \* what the chain has accepted and not run
  ran,      \* what it has run, one after the other
  sent      \* the bytes SubmitTx has sent last, with the Hash the caller had then

caller == <<asset, estimate, input, tx, asked>>
chain  == <<sequence, now, pool, ran>>
vars   == <<asset, stage, estimate, input, tx, asked, sequence, now, pool, ran, sent>>

NoEstimate == [height |-> 0, attempts |-> 0, count |-> 0, total |-> 0, requests |-> 0]
NoInput == [sequence |-> 0, timestamp |-> 0, price |-> 0, pubkey |-> FALSE]
NoBytes == <<>>
NoTx    == [raw |-> <<>>, pubkey |-> FALSE, signature |-> "", serialized |-> NoBytes]

Init ==
  /\ asset \in Assets
  /\ stage = "start"
  /\ estimate = NoEstimate /\ input = NoInput /\ tx = NoTx /\ asked = {}
  /\ sequence = 0 /\ now = Start
  /\ pool = {} /\ ran = <<>>
  /\ sent = [bytes |-> NoBytes, hash |-> NoBytes]
-----------------------------------------------------------------------------
(* FetchTxInput, a request at a time. Any of them may fail. *)

Fail == stage' = "error" /\ UNCHANGED <<caller, chain, sent>>

LedgerInfo ==
  /\ stage = "start"
  /\ \/ /\ input' = [NoInput EXCEPT !.timestamp = now]
        /\ stage' = "ledger"
        /\ UNCHANGED <<asset, estimate, tx, asked, chain, sent>>
     \/ Fail

GetAccount ==
  /\ stage = "ledger"
  /\ \/ /\ input' = [input EXCEPT !.sequence = sequence]
        /\ stage' = "account"
        /\ UNCHANGED <<asset, estimate, tx, asked, chain, sent>>
     \/ Fail

\* The last request of FetchTxInput has its answer.
Price(price) ==
  /\ input' = [input EXCEPT !.price = price]
  /\ stage' = "fetched"
  /\ estimate' = NoEstimate

\* EstimateGas: the callback, if it answers, or else the ledger's height.
EstimateGas ==
  /\ stage = "account"
  /\ \/ /\ \E price \in Callbacks : Price(price)
        /\ UNCHANGED <<asset, tx, asked, chain, sent>>
     \/ \E height \in Heights :
          /\ height >= Young
          /\ estimate' = [NoEstimate EXCEPT !.height = height, !.attempts = MaxAttempts]
          /\ stage' = "blocks"
          /\ UNCHANGED <<asset, input, tx, asked, chain, sent>>
     \/ Fail

Searching == estimate.count < Wanted /\ estimate.height > 0

\* The loop's next request: a block that is not there, or one of Blocks, of
\* whose transactions those that pay for gas count.
Found(block) == { k \in DOMAIN block : block[k] # 0 }

\* Mutant: an empty block is not counted as a failed attempt.
AttemptsOfErrors(attempts, block) == MaxAttempts

AttemptsAfter(attempts, block) ==
  IF Found(block) = {} THEN attempts - 1 ELSE MaxAttempts

GetBlockByHeight ==
  /\ stage = "blocks" /\ Searching
  /\ \/ /\ estimate' = [estimate EXCEPT !.height = @ - 1, !.attempts = @ - 1, !.requests = @ + 1]
        /\ stage' = IF estimate.attempts > 1 THEN "blocks" ELSE "error"
     \/ \E block \in Blocks :
          /\ estimate' = [estimate EXCEPT !.height = @ - 1, !.requests = @ + 1,
                            !.attempts = AttemptsAfter(@, block),
                            !.count = @ + Cardinality(Found(block)),
                            !.total = @ + SumFunctionOnSet(block, Found(block))]
          /\ stage' = IF AttemptsAfter(estimate.attempts, block) > 0 THEN "blocks"
                      ELSE "searched"
  /\ UNCHANGED <<asset, input, tx, asked, chain, sent>>

\* The average and a quarter, truncated; a default where nothing was found.
UnitPrice(total, count) ==
  IF total = 0 THEN DefaultPrice ELSE (total * 5) \div (count * 4)

AverageGas ==
  /\ \/ stage = "blocks" /\ ~Searching
     \/ stage = "searched"
  /\ Price(UnitPrice(estimate.total, estimate.count))
  /\ UNCHANGED <<asset, tx, asked, chain, sent>>

SetPublicKey ==
  /\ stage = "fetched" /\ ~input.pubkey
  /\ input' = [input EXCEPT !.pubkey = TRUE]
  /\ UNCHANGED <<asset, stage, estimate, tx, asked, chain, sent>>
-----------------------------------------------------------------------------
(* NewTransfer *)

Uint64(n) == n % 2^IntBits

Contract == IF asset.contract # "" THEN asset.contract ELSE asset.configured

\* coin::transfer moves the coin its type argument names.
TokenPayload(amt) ==
  [function |-> "0x1::coin::transfer", coin |-> Contract, amount |-> Uint64(amt)]

NativePayload(amt) ==
  [function |-> "0x1::aptos_account::transfer", coin |-> APT, amount |-> Uint64(amt)]

IsToken == asset.contract # ""

\* The ledger's time in microseconds, and an hour in seconds.
ExpirationTimestampSecs(in) == in.timestamp + Hour

RawTransaction(amt) ==
  [sequence |-> input.sequence, price |-> input.price,
   expiration |-> ExpirationTimestampSecs(input),
   payload |-> IF IsToken THEN TokenPayload(amt) ELSE NativePayload(amt)]

\* Mutant: the input is counted on for the next transfer.
NewTransferCountsOn(amt) ==
  /\ stage = "fetched"
  /\ tx' = [NoTx EXCEPT !.raw = RawTransaction(amt), !.pubkey = input.pubkey]
  /\ input' = [input EXCEPT !.sequence = @ + 1]
  /\ asked' = asked \cup {amt}
  /\ UNCHANGED <<asset, stage, estimate, chain, sent>>

\* The Tx has a copy of the input, whose public key may come later.
NewTransfer(amt) ==
  /\ stage = "fetched"
  /\ tx' = [NoTx EXCEPT !.raw = RawTransaction(amt), !.pubkey = input.pubkey]
  /\ asked' = asked \cup {amt}
  /\ UNCHANGED <<asset, stage, estimate, input, chain, sent>>
-----------------------------------------------------------------------------
(* Signing and submitting *)

Built == stage = "fetched" /\ tx # NoTx

\* Serialize fails without a signature of the right length or a public key.
Serializes(t) == t.pubkey /\ t.signature \notin {"", "short"}

Bytes(t) == <<t.raw, t.signature>>

\* Hash is over the bytes AddSignatures kept, or over none.
Hash(t) == t.serialized

\* Mutant: what was serialized first is kept.
KeepFirst(t) == IF t.serialized # NoBytes THEN t.serialized ELSE Bytes(t)

Kept(t) == Bytes(t)

\* The signature stays also when Serialize then fails, and so do the bytes of
\* an earlier one. More than one signature is refused before.
AddSignatures(signature) ==
  /\ Built
  /\ LET t == [tx EXCEPT !.signature = signature]
     IN  tx' = IF Serializes(t) THEN [t EXCEPT !.serialized = Kept(t)] ELSE t
  /\ UNCHANGED <<asset, stage, estimate, input, asked, chain, sent>>

Expired(raw) == now \div Micros >= raw.expiration

\* Once the account is past a transaction's number it is too old.
Takes(raw) == raw.sequence >= sequence /\ ~Expired(raw)

\* What does not serialize is not sent. The node takes the rest or refuses it,
\* or the call is lost; that the caller may not learn which makes no difference,
\* for it may go on as it likes in each case.
SubmitTx ==
  /\ Built /\ Serializes(tx)
  /\ sent' = [bytes |-> Bytes(tx), hash |-> Hash(tx)]
  /\ \/ Takes(tx.raw) /\ pool' = pool \cup {Bytes(tx)}
     \/ UNCHANGED pool
  /\ UNCHANGED <<caller, stage, sequence, now, ran>>
-----------------------------------------------------------------------------
(* The chain *)

\* A transaction in the pool whose turn it is runs.
Execute ==
  \E signed \in pool :
    /\ signed[1].sequence = sequence /\ ~Expired(signed[1])
    /\ ran' = Append(ran, signed)
    /\ sequence' = sequence + 1
    /\ UNCHANGED <<caller, stage, now, pool, sent>>

\* One that was run or has expired, or that there is no room for, is dropped.
Drop ==
  \E signed \in pool :
    /\ pool' = pool \ {signed}
    /\ UNCHANGED <<caller, stage, sequence, now, ran, sent>>

\* Another transaction of the account, once.
OtherTx ==
  /\ sequence = 0
  /\ sequence' = sequence + 1
  /\ UNCHANGED <<caller, stage, now, pool, ran, sent>>

Tick ==
  /\ now < MaxTime
  /\ now' = now + 1
  /\ UNCHANGED <<caller, stage, sequence, pool, ran, sent>>

Next ==
  \/ LedgerInfo \/ GetAccount \/ EstimateGas \/ GetBlockByHeight \/ AverageGas
  \/ SetPublicKey
  \/ \E amt \in Amounts : NewTransfer(amt)
  \/ \E signature \in {"first", "second", "short"} : AddSignatures(signature)
  \/ SubmitTx
  \/ Execute \/ Drop \/ OtherTx \/ Tick

Spec == Init /\ [][Next]_vars
-----------------------------------------------------------------------------
\* EstimateGas comes to an end (client.go:164, "we'll tolerate up to 10 times of
\* this in a row"; :179, "so we will terminate") whatever blocks the node has
\* and however many it has: each block that helps comes after at most nine that
\* do not.
RequestsAreFew == estimate.requests <= Wanted * MaxAttempts

\* Everything sent has the hash that the caller was given for it, however
\* often and with whatever errors it was signed.
HashNamesWhatIsSent == sent.hash = sent.bytes

\* A caller whose input is lost on the way may build again from it: however
\* often transfers are built from one input, signed, signed again, submitted and
\* submitted again, before and after one of them was executed, the recipient is
\* paid at most once, in the asset asked for and, if it is a uint64, one of the
\* amounts (builder.go, tx.go, client.go SubmitTx).
PaidOnce ==
  /\ Len(ran) <= 1
  /\ \A k \in DOMAIN ran :
       LET payload == ran[k][1].payload
       IN  /\ payload.coin = IF IsToken THEN asset.contract ELSE APT
           /\ (\A amt \in asked : amt < 2^IntBits) => payload.amount \in asked
=============================================================================
