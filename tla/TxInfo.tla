------------------------------- MODULE TxInfo -------------------------------
(***************************************************************************)
(* FetchTxInfo of the chains (chain/evm, cosmos, sui, aptos and bitcoin):  *)
(* callers of one client ask a node one request after the other, while     *)
(* blocks are added, the transaction is included, and, where that happens, *)
(* dropped or taken out again by a reorganization.  Solana's is in         *)
(* SolanaTransfer.                                                         *)
(*                                                                         *)
(* The EVM client repeats a request that failed with its HttpInterceptor   *)
(* enabled, which rewrites the answers of chains that go-ethereum cannot   *)
(* read.  All requests of a client go through the one interceptor.         *)
(***************************************************************************)
EXTENDS Integers, Sequences, SequencesExt, TLC

CONSTANTS
  Callers,       \* goroutines that use one client
  Me, You, None, Zero,
  Native,        \* EVM: what moves when the chain's own asset does
  Abi,           \* EVM: the methods of the contracts there are
  Trimmed, Decodes,  \* EVM: texts with a prefix or that are no address
  ArbiterFee, GasUsed, BaseFees,
  Coin, Contracts, ShortDenoms,  \* Cosmos
  SUI,
  EvmTxs, CosmosTxs, SuiTxs, AptosTxs, BitcoinTxs,  \* the transactions asked for
  Contended,     \* those that several callers ask for at once
  MaxHeight      \* bound: blocks

Evm     == INSTANCE EvmInfo
Cosmos  == INSTANCE CosmosInfo
Sui     == INSTANCE SuiInfo
Aptos   == INSTANCE AptosInfo
Bitcoin == INSTANCE BitcoinInfo

ASSUME BoundsAssumption == MaxHeight \in Nat /\ Len(BaseFees) > 0
ASSUME DriversAssumption ==
  /\ \A t \in EvmTxs : t.driver = "evm"
  /\ \A t \in CosmosTxs : t.driver = "cosmos"
  /\ \A t \in SuiTxs : t.driver = "sui"
  /\ \A t \in AptosTxs : t.driver = "aptos"
  /\ \A t \in BitcoinTxs : t.driver = "bitcoin"

\* A transfer that was ordered is the one the builder makes of the order: by
\* NewTransfer, or by a task that is a transfer.
TransferOf(o) ==
  [task |-> None, asset |-> [contract |-> o.contract], to |-> o.to, amount |-> o.amount]
ASSUME EvmAssumption ==
  /\ GasUsed \in Nat /\ BaseFees \in Seq(Nat) /\ None # "transfer"
  /\ \A t \in EvmTxs :
       /\ t.tip \in Nat /\ t.cap \in Nat
       /\ t.order # None =>
            LET o == t.order
                call == Evm!NewTransfer(TransferOf(o))
            IN  /\ o.to \notin DOMAIN Trimmed \cup DOMAIN Decodes
                /\ t.from = o.from /\ t.to = call.to /\ t.value = call.value
                /\ t.sig = call.sig /\ t.args = call.args
                /\ o.amount \in Nat \ {0}
                /\ o.contract # None =>
                     /\ o.contract \notin DOMAIN Trimmed \cup DOMAIN Decodes
                     /\ o.contract \in DOMAIN Abi /\ "transfer" \in Abi[o.contract]
                /\ t.intended = << [asset |-> IF o.contract = None THEN Native ELSE o.contract,
                                    from |-> o.from, to |-> o.to, amount |-> o.amount] >>

\* The fee that is paid is the first coin of the fee on Cosmos, and what the
\* outputs leave of the inputs on Bitcoin, where the node knows its own fees.
ASSUME FeesAssumption ==
  /\ \A t \in CosmosTxs : t.fee # <<>> => t.gas = t.fee[1].amount
  /\ \A t \in BitcoinTxs :
       /\ Bitcoin!Total(t.inputs) \in Nat /\ Bitcoin!Total(t.outputs) \in Nat
       /\ t.gas = Bitcoin!Total(t.inputs) - Bitcoin!Total(t.outputs) /\ t.gas >= 0
       /\ t.ownFee \in {0, t.gas}

\* Aptos: the arguments of a transfer are the recipient and the amount.
ASSUME AptosAssumption ==
  \A t \in AptosTxs : t.order # None =>
    /\ t.from = t.order.from /\ t.payload.function # "batch_transfer_coins"
    /\ t.payload.arguments = <<t.order.to, t.order.amount>>

VARIABLES
  tx,        \* the transaction that is asked for, with its driver
  unread,    \* whether go-ethereum cannot read the chain's answers as they are
  node,      \* the chain: its height, how often it has forked, and the place of
             \* tx, 0 while it is pending and -1 if unknown, and if it runs
  enabled,   \* HttpInterceptor.enabled
  at,        \* for each caller: "idle", "send", "wait", "done", "failed", "panicked"
  got,       \* the answers it has, by request: the node as it was then
  retrying,  \* whether it repeats the request that failed
  rewrites,  \* whether the interceptor was enabled when its request was sent
  began,     \* history: the node when it began
  excused    \* history: an answer was lost, the chain changed its mind or never
             \* had the transaction, or another caller switched the interceptor off

vars == <<tx, unread, node, enabled, at, got, retrying, rewrites, began, excused>>
callers == <<enabled, at, got, retrying, rewrites, began>>

Init ==
  /\ tx \in EvmTxs \cup CosmosTxs \cup SuiTxs \cup AptosTxs \cup BitcoinTxs
  /\ unread \in (IF tx.driver = "evm" THEN BOOLEAN ELSE {FALSE})
  /\ node = [height |-> 1, fork |-> 0, place |-> 0, ok |-> FALSE]
  /\ enabled = FALSE
  /\ at = [c \in Callers |-> "idle"]
  /\ got = [c \in Callers |-> << >>]
  /\ retrying = [c \in Callers |-> FALSE]
  /\ rewrites = [c \in Callers |-> FALSE]
  /\ began = [c \in Callers |-> node]
  /\ excused = [c \in Callers |-> FALSE]
-----------------------------------------------------------------------------
(* External: the chain *)

\* Whether a transaction runs: most may fail for lack of funds.
Runs == CASE tx.driver = "bitcoin"                -> {TRUE}
          [] tx.driver = "evm" /\ ~Evm!Runs(tx) -> {FALSE}
          [] OTHER                                -> BOOLEAN

Grow ==
  /\ node.height < MaxHeight
  /\ \/ node' = [node EXCEPT !.height = @ + 1]
     \/ /\ node.place = 0
        /\ \E ok \in Runs :
             node' = [node EXCEPT !.height = @ + 1, !.place = node.height + 1, !.ok = ok]
  /\ UNCHANGED <<tx, unread, callers, excused>>

\* Once, another branch takes over, which is at least as long and does not have
\* the transaction yet, or the transaction is dropped before it is included.
ChangeItsMind ==
  /\ tx.driver \in {"evm", "bitcoin"} /\ node.fork = 0
  /\ node' = [node EXCEPT !.fork = 1, !.ok = FALSE, !.place = IF @ > 0 THEN 0 ELSE -1]
  /\ excused' = [c \in Callers |-> TRUE]
  /\ UNCHANGED <<tx, unread, callers>>

\* What the node has no answer to.
Refuses(request) ==
  CASE tx.driver = "evm"     -> \/ request = "tx" /\ node.place = -1
                                \/ request = "receipt" /\ node.place <= 0
    [] tx.driver = "cosmos"  -> request = "tx" /\ node.place = 0
    [] tx.driver = "bitcoin" -> request = "tx" /\ node.place = -1
    [] OTHER                 -> FALSE
-----------------------------------------------------------------------------
(* FetchTxInfo *)

NextRequest(answers) ==
  CASE tx.driver = "evm"     -> Evm!NextRequest(answers)
    [] tx.driver = "cosmos"  -> Cosmos!NextRequest(answers)
    [] tx.driver = "sui"     -> Sui!NextRequest(answers)
    [] tx.driver = "aptos"   -> Aptos!NextRequest(answers)
    [] tx.driver = "bitcoin" -> Bitcoin!NextRequest(tx, answers)

Info(answers) ==
  CASE tx.driver = "evm"     -> Evm!Info(tx, answers)
    [] tx.driver = "cosmos"  -> Cosmos!Info(tx, answers)
    [] tx.driver = "sui"     -> Sui!Info(tx, answers)
    [] tx.driver = "aptos"   -> Aptos!Info(tx, answers)
    [] tx.driver = "bitcoin" -> Bitcoin!Info(tx, answers)

Panics(answers) ==
  CASE tx.driver = "evm"    -> answers["tx"].place > 0 /\ Evm!Panics(tx, answers["receipt"].ok)
    [] tx.driver = "cosmos" -> Cosmos!Panics(tx)
    [] tx.driver = "sui"    -> Sui!Panics(tx, answers["tx"].ok)
    [] OTHER                -> FALSE

Begin(c) ==
  /\ at[c] = "idle"
  /\ tx \in Contended \/ \A d \in Callers : at[d] = "idle"
  /\ at' = [at EXCEPT ![c] = "send"]
  /\ began' = [began EXCEPT ![c] = node]
  /\ excused' = [excused EXCEPT ![c] = FALSE]
  /\ UNCHANGED <<tx, unread, node, enabled, got, retrying, rewrites>>

\* RoundTrip has a copy of the interceptor as it was when the request was sent.
Send(c) ==
  /\ at[c] = "send"
  /\ at' = [at EXCEPT ![c] = "wait"]
  /\ rewrites' = [rewrites EXCEPT ![c] = enabled]
  /\ UNCHANGED <<tx, unread, node, enabled, got, retrying, began, excused>>

\* The end of a repeated request switches the interceptor off for everyone.
Disturbed(c) == { d \in Callers \ {c} : retrying[c] /\ retrying[d] /\ at[d] = "send" }
StopRetrying(c) ==
  /\ retrying' = [retrying EXCEPT ![c] = FALSE]
  /\ enabled' = (enabled /\ ~retrying[c])

\* Mutant: the interceptor stays on when the repeated request fails, too.
FailEnabled(c, reasons) ==
  /\ at' = [at EXCEPT ![c] = IF tx.driver = "evm" /\ ~retrying[c] THEN "send" ELSE "failed"]
  /\ retrying' = [retrying EXCEPT ![c] = tx.driver = "evm" /\ ~@]
  /\ enabled' = (enabled \/ tx.driver = "evm")
  /\ excused' = [d \in Callers |-> excused[d] \/ d \in reasons \cup Disturbed(c)]

\* Mutant: it is repeated as it was.
FailUnchanged(c, reasons) ==
  /\ IF tx.driver = "evm" /\ ~retrying[c]
     THEN at' = [at EXCEPT ![c] = "send"] /\ retrying' = [retrying EXCEPT ![c] = TRUE]
          /\ UNCHANGED enabled
     ELSE at' = [at EXCEPT ![c] = "failed"] /\ StopRetrying(c)
  /\ excused' = [d \in Callers |-> excused[d] \/ d \in reasons \cup Disturbed(c)]

\* A request that failed is repeated with the interceptor enabled, or that was
\* the repetition.
Fail(c, reasons) ==
  /\ IF tx.driver = "evm" /\ ~retrying[c]
     THEN /\ at' = [at EXCEPT ![c] = "send"]
          /\ retrying' = [retrying EXCEPT ![c] = TRUE]
          /\ enabled' = TRUE
     ELSE /\ at' = [at EXCEPT ![c] = "failed"]
          /\ StopRetrying(c)
  /\ excused' = [d \in Callers |-> excused[d] \/ d \in reasons \cup Disturbed(c)]

Lost(c) ==
  /\ at[c] = "wait"
  /\ Fail(c, {c})
  /\ UNCHANGED <<tx, unread, node, got, rewrites, began>>

\* The node does not have what is asked for, or its answer cannot be read.
Refused(c) ==
  /\ at[c] = "wait"
  /\ LET request == NextRequest(got[c])
     IN  \/ Refuses(request) /\ Fail(c, {c})
         \/ ~Refuses(request) /\ unread /\ ~rewrites[c] /\ Fail(c, {})
  /\ UNCHANGED <<tx, unread, node, got, rewrites, began>>

\* Sui: a transaction that is in no checkpoint yet is an error, once the latest
\* checkpoint is there.
Unplaced(answers) ==
  tx.driver = "sui" /\ DOMAIN answers = {"tx", "latest"} /\ answers["tx"].place = 0

Answered(c) ==
  /\ at[c] = "wait"
  /\ LET request == NextRequest(got[c])
         answers == [r \in DOMAIN got[c] \cup {request} |->
                       IF r = request THEN node ELSE got[c][r]]
         last == NextRequest(answers) = "done"
     IN  /\ ~Refuses(request) /\ (unread => rewrites[c])
         /\ got' = [got EXCEPT ![c] = answers]
         /\ at' = [at EXCEPT ![c] =
                     CASE Unplaced(answers)        -> "failed"
                       [] last /\ Panics(answers)  -> "panicked"
                       [] last /\ ~Panics(answers) -> "done"
                       [] OTHER                    -> "send"]
         /\ StopRetrying(c)
         /\ excused' = [d \in Callers |-> \/ excused[d] \/ d \in Disturbed(c)
                                          \/ d = c /\ Unplaced(answers)]
  /\ UNCHANGED <<tx, unread, node, rewrites, began>>

Next ==
  \/ Grow \/ ChangeItsMind
  \/ \E c \in Callers : Begin(c) \/ Send(c) \/ Lost(c) \/ Refused(c) \/ Answered(c)

Spec == Init /\ [][Next]_vars
-----------------------------------------------------------------------------
Done(c) == at[c] = "done"
Included(answers) ==
  IF tx.driver = "evm" THEN "receipt" \in DOMAIN answers ELSE answers["tx"].place > 0
Placed(answers) ==
  IF tx.driver = "evm" THEN answers["receipt"] ELSE answers["tx"]

\* The interceptor is on only while some request is repeated: whichever requests
\* of whichever callers fail, none leaves it on for the requests of the others
\* (client.go FetchTxInfo).
InterceptorIsSwitchedOff ==
  enabled => \E c \in Callers : retrying[c]

\* FetchTxInfo fails for a reason: on a chain whose answers cannot be read as
\* they are, too, every request gets through at its second attempt, unless
\* another caller switches the interceptor off in between.
FailsForAReason ==
  \A c \in Callers : at[c] = "failed" => excused[c]

\* What the builder makes of an order on an EVM chain, a transfer, or a task whose
\* addresses are all of that chain and without a prefix, runs and moves what the
\* order is for, once: the amount is either the value of the transaction or a parameter,
\* and every parameter is in its place.
OrdersAreCarriedOut ==
  tx.driver = "evm" /\ tx.intended # None =>
    Evm!Runs(tx) /\ Evm!Moves(tx) = tx.intended

\* How many blocks confirm the one at a height: Bitcoin counts that block, too.
Confirming(height, place) ==
  height - place + IF tx.driver = "bitcoin" THEN 1 ELSE 0

\* The confirmations are never negative, none are reported of a transaction
\* that is in no block, and they are those that its block had some time between
\* the begin and the end of FetchTxInfo, whatever was added meanwhile.  Aptos
\* alone takes a pending transaction for one of the first block.
ConfirmationsAreTrue ==
  \A c \in Callers : Done(c) /\ (tx.driver = "aptos" => Included(got[c])) =>
    LET confirmations == Info(got[c]).confirmations
    IN  IF ~Included(got[c]) THEN confirmations = 0
        ELSE LET place == Placed(got[c]).place
             IN  /\ confirmations >= 0
                 /\ confirmations >= Confirming(began[c].height, place)
                 /\ confirmations <= Confirming(node.height, place)

AllMoves ==
  CASE tx.driver = "evm"    -> Evm!Moves(tx)
    [] tx.driver = "cosmos" -> Cosmos!Moves(tx)
    [] OTHER                -> tx.moves
OwnAsset == CASE tx.driver = "evm" -> Native [] tx.driver = "cosmos" -> Coin
              [] tx.driver = "sui" -> SUI [] OTHER -> None

Received(contract, who) ==
  FoldLeft(LAMBDA sum, m :
             sum + IF m.to = who /\ m.asset = (IF contract = None THEN OwnAsset ELSE contract)
                   THEN m.amount ELSE 0,
           0, AllMoves)
Reported(list, contract, who) ==
  FoldLeft(LAMBDA sum, d : sum + IF d.to = who /\ d.contract = contract THEN d.amount ELSE 0,
           0, list)

\* Of a transaction that succeeded every destination was paid what is reported
\* of it, in all: by the transfer, by the method that was called or by a contract
\* it called.  On Sui what is given back of the gas is a payment, too.
DestinationsWerePaid ==
  \A c \in Callers :
    Done(c) /\ Included(got[c]) /\ Placed(got[c]).ok =>
      LET list == Info(got[c]).destinations
      IN  \A k \in DOMAIN list :
            list[k].to # tx.from =>
              Reported(list, list[k].contract, list[k].to)
                <= Received(list[k].contract, list[k].to)

\* The fee that was paid.
Fee(placed) ==
  IF tx.driver = "evm" THEN Evm!TrueFee(tx, placed.place, placed.fork) ELSE tx.gas

FeeIsTrue(info, placed) == info.fee = Fee(placed)
StatusIsTrue(info, placed) == tx.driver # "aptos" => info.failed = ~placed.ok
OrderIsReadBack(info, placed) ==
  tx.order # None /\ placed.ok =>
    /\ info.from = tx.order.from /\ info.to = tx.order.to /\ info.amount = tx.order.amount
    /\ tx.driver # "aptos" => info.contract = tx.order.contract

\* FetchTxInfo is done with a transaction that is in a block, and stayed there.
Settled(c) == Done(c) /\ Included(got[c]) /\ began[c].fork = node.fork

\* Of a transaction that is in a block and stays there FetchTxInfo reports the
\* fee that was paid and whether it failed, and of a transfer that this library
\* built who paid whom, how much and in what, as it was ordered.
InfoIsTrue ==
  \A c \in Callers : Settled(c) =>
    LET info == Info(got[c])
        placed == Placed(got[c])
    IN  FeeIsTrue(info, placed) /\ StatusIsTrue(info, placed) /\ OrderIsReadBack(info, placed)
=============================================================================
