# Crosschain in TLA+

Crosschain is a Go library with one interface over several blockchains: for each chain a *client*
(`FetchTxInput`, `SubmitTx`, `FetchTxInfo`), a *transaction builder* (`NewTransfer`), a *transaction*
(`Sighashes`, `AddSignatures`, `Serialize`) and a *signer*; a *factory* that holds the configured assets
and tasks; and a *dashboard* service over HTTP. A program makes a transfer with it in five steps: read
the chain's state into a `TxInput`, build a `Tx` from it, sign, submit, and classify what came back with
`CheckError`; later it may ask for the transaction back with `FetchTxInfo`. The steps are apart in time, the
network between them loses calls and answers, and other programs use the same account. That is where the
models aim.

Contents: [components](#components) · [modules](#modules) · [runs](#runs) · [fairness](#fairness) ·
[proofs](#proofs) · [disagreements found](#disagreements-found) · [plan](#plan) · [left out](#left-out)

## Components

| Component | State | Operations | Interacts with | Hard behaviour | Correct when |
|---|---|---|---|---|---|
| Bitcoin coin selection (`chain/bitcoin/tx_input.go`) | the outputs, sorted in place; two indices that meet | `allocateMinUtxoSet` | called by the builder | off-by-one where the indices meet; a comparison that is no strict order | no output twice, the target is covered or all are taken, dust is consolidated, nothing taken in vain |
| Bitcoin transfers (`builder.go`, `tx.go`, `native_client.go`, `blockchair_client.go`, `util.go`, `errors.go`) | `TxInput`, `Tx`, which inputs are signed | fetch, build, sign, submit with retries, classify; `FetchTxInfo` of both clients | a node or Blockchair over HTTP | outputs spent since they were read; a lost answer and a repeat; a fee known only after the selection; values cut to 64 bits; sender and recipient guessed from inputs and outputs | no satoshi goes astray, a reported outcome is true, submitting ends, a transfer is read back as it was ordered |
| Amounts (`amount.go`) | headers copied by value that share an array of words | `Add`, `Sub`, `Mul`, `Abs`, loads | every builder computes with them | an operation writes into its receiver's array | amounts behave as numbers |
| EVM transfers (`client.go`, `builder.go`, `tx.go`, `errors.go`) | nonce, tip and fee cap in the `TxInput` | fetch, build, sign, submit, classify | a node and its mempool | transfers that read the same nonce; answers that are wrong or lost | nobody is paid twice, an outcome stays true, retries end |
| EVM tasks and tokens (`builder.go`, `task.go`) | none: an order becomes call data | `BuildTaskPayload`, proxy, wormhole and ERC20 transfers | contracts, by method and parameters | value or parameter; the place of each parameter; tables keyed by chain; addresses that are decoded without an error | what the called contract does is what the task is for |
| EVM `FetchTxInfo` (`client.go`, `tx.go`) | one HTTP interceptor for the client | four requests in turn, each repeated with the interceptor on | every request of the same client | the flag is switched around a request while others are sent; a chain that grows or reorganizes between two requests | the flag is off when nobody repeats, confirmations, fee, status and payments are true |
| Cosmos (`chain/cosmos`) | the builder's one `CosmosTxBuilder`, the account's sequence | fetch, build, sign, serialize, submit; `FetchTxInfo` | a node's `CheckTx` and its pool, and then the chain | a transaction that serializes another one's content; a stale sequence; an answer that says no more than that `CheckTx` passed; several messages of several kinds | what is signed is what was asked, and is what is sent, and is executed once however often it is submitted; each payment is read with its own recipient and amount |
| Sui (`chain/sui`) | coins, gas coin, epoch and budget in the `TxInput` | fetch, build, sign, submit; `FetchTxInfo` | the chain's object versions and its execution of commands | coins used meanwhile; unsigned subtraction; a limit on objects; commands that refer to inputs and results by place; resubmission in another epoch | the amount is paid once and in its epoch, a built transfer can run |
| Sui generated encoding (`chain/sui/generated/bcs`) | none | `BcsSerialize`, `BcsDeserialize` and `load` of each type | what Sui's `Tx` signs and sends | a variant's index, the order of fields, the depth of containers, each written and read by code of its own | what was written is what is read, and the bytes signed are those of the generated type |
| Factory: tasks (`factory/main.go`, `task.go`) | the configured tasks, shared | `GetTaskConfig` by name, by assets, by both | callers hold what it returns | the assets are stored into the shared task | a caller's task is the one it asked for, as long as it holds it |
| Factory: assets (`factory/main.go`) | `AllAssets`, a `sync.Map` of shared configurations; two callbacks | `GetAssetConfig`, `GetAssetConfigByContract`, `PutAssetConfig`, `EnrichDestinations` | clients, builders | store then load; shared configurations filled in by lookups, one field after the other, and compared by later ones | what is registered is found, with its chain's present settings |
| Solana (`chain/solana`) | blockhash and two facts about accounts in the `TxInput` | fetch, build, sign, submit, classify, read back | a node; the token programs | accounts that appear, vanish or could not be asked for; expiring blockhashes | nobody else is paid, fresh transfers run, what is read back is the order |
| Dashboard (`dashboard`) | wallets, sessions, a counter, a `RWMutex` | pair, create, three listings | HTTP goroutines | check-then-act, iteration while others write, waiting for the lock | calls are linearizable, each is answered, routes fit |
| Aptos (`chain/aptos`) | sequence and gas estimate in the `TxInput`; the bytes of the last `Serialize` in the `Tx` | fetch, search recent blocks for gas prices, build, sign, submit; `FetchTxInfo` | a node | a loop over blocks that may be empty or missing; a hash over bytes of an earlier signature; expiry; building, signing and submitting again after what was sent seemed lost | the search ends, the hash names what is sent, what is built of one input pays once |
| Signers, addresses, configuration, tables, constructors, template, ERC20 binding, examples | none | pure functions, input | | | left out, [below](#left-out) |

## Modules

A component with state has one module with its state as variables, one action per operation, and its
properties; what is a pure function of an order or of a node's answers (`EvmTasks`, the `...Info` modules,
`SuiBytes`, `SuiTypes`, `SuiBcs`, `Routes`, `Utxo`) is a module of operators that the others use. A configuration is
of the component's own module where its constants are plain values, and of an `MC...` module, which only defines
values, where they need definitions. "Mutant" in a comment marks a changed form of the definition after it; each
property of the runs fails when one of them takes its place.

**`Utxo`, `UtxoSelection`, `UtxoChoice`.** `UtxoSelection` is `allocateMinUtxoSet` at the grain of its
loop iterations: `Sort`, `TakeHighest`/`StopHighest` (first loop), `TakeLowest` (second loop), `ReturnBalance`.
`sort.Slice` with `<=` may leave equal values in any order, so `Sort` picks any sorted order. `Utxo` holds
the same algorithm as one operator, `MinUtxoSet`, which `BitcoinTransfer` uses; `ComputesMinUtxoSet` says
the two agree. `UtxoChoice` is the abstract specification, what the function's comments promise of its
result; `ImplementsChoice` is the refinement.

**`BitcoinTransfer`.** Several transfers out of one address, each a caller that goes through
`UnspentOutputs`, `EstimateGas` (two requests at two times), `NewNativeTransfer`, `AddSignatures`,
`SubmitTx`. A submission is `RequestLost`, `ResponseLost` or `Response`; a transfer in `Retrying` uses the
`NativeClient`, whose `retry` sends again until the context is done (`RetryTick`, `GiveUp`, `ContextDone`),
the others use the `BlockchairClient`, which tries once and leaves it to the caller to repeat the call. The
node is external: it accepts a fully signed transaction of unspent outputs, and tells a known one from a
conflicting one. `ToInt` keeps the width of `big.Int.Int64`.

**`AmountHeap`, `AmountPrograms`, `AmountValues`.** An `AmountBlockchain` is a
`big.Int` by value: sign, length and a reference to an array of words. `x.Add(&y)` copies the header and
lets `big.Int.Add` write into the array, if it has room. `AmountHeap` models the arrays, their capacity
(one word, or four more than needed) and each method. `AmountPrograms` runs every program over a few
variables; `Linear` programs give up the receiver of each operation, as the loops of this library do.
`AmountValues` is the abstract specification, variables that hold numbers; `ImplementsValues` is the
refinement.

**`EvmTransfer`.** Transfers of one account: `FetchNonce` reads the nonce of the last mined transaction and
the configured tip, `FetchGas` the fee cap (callback, base fee, or the default when the request fails),
then `NewNativeTransfer`, `AddSignatures`, `Answered` or `Lost`, and `CheckError`. A caller submits again
after network and unknown errors, and begins anew (`Restart`) only before it submits or after a terminal
failure. The node is external: a mempool with one transaction per nonce, replaced only by a higher tip *and*
a higher cap, blocks that mine it, a base fee that moves, and the answer "transaction underpriced" for a
transaction that is forwarded all the same (`errors.go:17`). Two equal orders at one nonce are one
transaction, with one hash.

**`CosmosTransfer`.** One `TxBuilder` with its `CosmosTxBuilder` (`shared`); a `Tx` holds a reference to it.
`NewTransfer` writes message, gas, fee and an empty signature into it, also when it fails after that;
`AddSignatures` writes the signature; `Serialize` reads whatever is there. `SubmitTx` broadcasts in mode "sync"
(`client.go:98`): the answer is that of the node's `CheckTx`, which looks at what the signature is over and at the
sequence number (`checkSequence`, the one after those of the account's transactions in the pool). The call and its
answer may be lost, and a `Tx` may be submitted again, after a success too. What became of each transaction that passed
(`broadcast`) is up to the chain, external: it is executed or fails in a block (`DeliverTx`), and uses up its number
either way; or it is dropped with all after it (`Evict`), or overtaken by a transaction of another wallet
(`OtherTx`). `OneAtATime` says whether a caller drops a `Tx` before it builds the next.

**`SuiTransfer`, `SuiSubmission`, `SuiBytes`, `SuiTypes`, `SuiBcs`.** `FetchCoins` (sorted, cut to `MaxCoinObjects`),
`FetchLatestCheckpoint`, `FetchGasCoin`, `EstimateGas`, and `NewTransfer` with its budget (`Budget`, in
unsigned numbers that wrap), its inputs (`CmdInputs`), its `Commands` and its `Expiration`, put together by
`Plan` as a value of the generated `TransactionData`. `Serialize` and `Sighashes` make bytes of it,
`AddSignatures` and `SubmitTx` follow. How a transaction is written and read is a parameter (`Encode`, `Decode`,
`EncodeIntent`): `SuiSubmission` gives it the generated code's encoding, and the proofs need only that what is
written is read. The chain is external: it reads the bytes, takes them if they are signed
and every object version they name is current, and executes the commands one by one on an environment of
inputs and results (`Do`, `After`). `OtherTx` uses coins between the requests and before the submission,
`EndEpoch` ends the epoch. `SuiTypes` has one definition for each generated type that `SenderSignedData` and
`IntentMessage` contain: a struct is the sequence of its fields in the order `Serialize` writes them, a variant
carries the index it writes, and its place in the enum is the case under which it is loaded. `SuiBcs` writes
and reads values of such types, with the container depth counted as the code does; `Samples` has
transactions in which every variant of every type occurs. `SuiBytes` has the integers as bytes, which both sides use.

**`AptosTransfer`.** `LedgerInfo`, `GetAccount`, `EstimateGas` (a callback, or the start of the search),
`GetBlockByHeight`, one iteration of the search, and `AverageGas`. Then, with the one input, `SetPublicKey`,
`NewTransfer` for any amount, `AddSignatures` with one signature or another or one of the wrong length, and `SubmitTx`
come in any order and as often as the caller likes, also after a transaction was accepted or has run. Submissions and
their answers may be lost. External are a block of any content for each height asked for, `Execute`, which keeps
what it ran in a sequence (`ran`), `Drop`, `OtherTx` of the same account, and the time (`Tick`), in microseconds.

**`EvmTasks`.** `NewTransfer` of the EVM builder for an order: the chain's asset, a token, or a task, whose call
`BuildTaskPayload` puts together from its configuration, one parameter after the other (a value of the order,
of the user, fixed, or looked up by contract or chain), and the calls of proxies and of the bridge. The EVM package's
`HexToAddress` takes a prefix off an address before go-ethereum's function of that name decodes it, for transfers; the
parameters of tasks go to the latter directly. Addresses are names here: `Trimmed` says which ones the prefix is taken
off, and external `Decode` what the decoder, which has no error, makes of a name that is no address of the chain
(`Decodes`: a Solana address, or one with its prefix). External, too, is what the methods of the called contracts
move (`Moves`), by name and parameters.

**`TxInfo`, `EvmInfo`, `CosmosInfo`, `SuiInfo`, `AptosInfo`, `BitcoinInfo`.** `TxInfo` has callers of one client
that ask for one transaction, request after request (`Begin`, `Send`, then `Answered`, `Refused` or `Lost`), with
the interceptor they share: a request that failed is sent again with the interceptor on, and `Fail` ends the
call. The chain grows (`Grow`) and reorganizes or drops the transaction (`ChangeItsMind`). Each `...Info` module
has the order of the requests (`NextRequest`), what the client makes of the answers (`Info`) and, external, what
the node answers; those of EVM, Cosmos and Sui also where the code panics (`Panics`). Solana's `FetchTxInfo` is in `SolanaTransfer`.

**`TaskRegistry`.** A lookup by name gives a copy (`CfgFromTask`); one by assets takes the path of tasks
(`Path`: a task, or a pipeline's) and stores the two assets into each shared task, in two steps
(`StoreSrc`, `StoreDst`), then `Deliver`s. A pipeline may name a task that is not configured (`Misnamed`).
`OneAtATime` keeps lookups by assets from overlapping with each other and with what they returned. The
configuration of the run is that of the repository's tests.

**`AssetRegistry`.** `assets` maps ids to the objects that callers handed over, and what lookups write into
those objects is state of its own: `chain`, a chain's own `Chain` field; `inner`, the embedded configuration
of a token; `settings`, whose settings it has, field by field. A call goes through the accesses to the map and the
objects one at a time: `FindByContract` (which takes the pass over the map as one step), `LoadConfig`
(`cfgFromAsset`), `LoadChain`, `Fill` for each store of `cfgEnrichAssetConfig` (`factory/main.go:322-340`), `ReturnFilled`,
`NativeDestination`. Another client's calls come between any two of these, its stores into the same object too.
`Stores` is the number of stores; each is atomic. Which callbacks exist is fixed, as in the tests.

**`SolanaTransfer`.** One program that makes transfers of SOL, of a token, and the tasks that wrap and unwrap
SOL: `FetchBlockhash`, `FetchTo`, `FetchAta` (each answered or failed), `NewTransfer`, `AddSignatures`,
`SubmitTx`. A transaction is a blockhash and a list of instructions, which the chain (external) executes all
or none of (`Land`). `FetchTxInfo` is a function of an executed transaction and the accounts there are now.

**`Dashboard`, `Routes`, `DashboardRegistry`.** Request goroutines over one `Service`. The lock is modelled
from `sync.RWMutex` (a writer announces itself, later readers block, and go in before the next writer); the
service's steps are those between two accesses to its map, slice or counter. `Routes` is the route table
and its order. `DashboardRegistry` is the abstract specification: each call takes effect at one instant.

**Proof modules**: `BitcoinProofs` (`UtxoSelection`, `BitcoinTransfer`), `LibraryProofs` (`AmountPrograms`,
`TaskRegistry`, `AssetRegistry`), `ClientProofs` (`CosmosTransfer`, `TxInfo`, `Dashboard`: what several callers share),
`EvmTransferProofs`, `SolanaTransferProofs`, `AptosTransferProofs` and `SuiTransferProofs`. A module that extends two
components needs names that do not clash, which is why the specifications of `UtxoSelection`, `CosmosTransfer`,
`TaskRegistry`, `AssetRegistry` and `Dashboard` are `SelectSpec`, `AccountSpec`, `TasksSpec`, `RegistrySpec` and
`ServiceSpec`. `Facts` holds what the proofs share: facts about sequences, induction over numbers and finite sets, and
sums (`SumFunctionOnSet`) over sets.

## Runs

| Run | Instance | Question | Why the bounds are enough |
|---|---|---|---|
| `utxo_selection` | up to 4 outputs of value 0, 1, 3; 4 targets; `MinUtxo` 2 | Is the selection's result the one promised? | The two indices meet in every way with 4 outputs and 2 inputs at least; value 0 and equal values give the edge cases; target 30 cannot be covered. Proved for all values, the refinement included. |
| `bitcoin_transfer` | 2 transfers (one per client), 3 outputs, 2 amounts, gas 0 or 1, 2 calls each, 6-bit values | Is money conserved and what is reported true, whatever is lost, repeated or overtaken? | A conflict needs two transfers; a lost answer followed by a repeat needs two sends, of which the retrying client has any number. |
| `amount_linear` | 2 variables, numbers up to 9 in base 2, 3 arrays | Do programs that give up receivers see numbers? | Results of one, two and more words, in arrays that have room and that have not; separation is proved for all sizes. |
| `evm_transfer` | 2 transfers, 2 payees, dynamic, legacy and no-gas chains, 2 base fees, 2 builds each, one deposit | Can competing, retried and restarted transfers overpay, or lose what was reported? | Competition for a nonce needs two; a restart needs two builds; the second base fee is above the cap of the first. Submissions are not bounded. |
| `cosmos_transfer` | 3 transfers, 3 submissions, 2 gas prices, a bad address | Is what is sent what was asked for and signed, and executed once at most? | One transfer disturbs another, and a third failing one in between. Three submissions are a lost answer, a repeat and another transfer's; each may end in every fate. |
| `sui_transfer` | up to 3 SUI coins of 0..4, or 2 of 0..3 and 2 token coins of 0..2; amounts 0, 1, 3, 5, 13; 2 objects at most; numbers of 6 bits in two bytes; budget 3, gas 1 | Does a built transfer run and pay the amount once, in its epoch, through the bytes that are signed? | More coins than `MaxCoinObjects`, none, only a gas coin; budgets below and above the normal one; amounts below, at and above the balance. Two bytes have an order, and containers nest less than the 20 levels. |
| `task_registry` | 2 callers, 5 tasks, 2 pipelines, 11 kinds of lookup | Is a task that is held the one asked for? | Two callers suffice for any overlap; the requests reach every branch of a lookup. |
| `asset_registry` | 2 clients, a chain with a coin and a token, each in two versions, 4 contracts, 2 stores | Is what is registered found, with present settings? | Two clients give every overlap of two calls; the second versions are what a put replaces. Two stores leave a token with the settings of two versions; proved for any number. The clients are symmetric. |
| `solana_transfer` | 2 transfers, amounts 1 and 2, 2 blocks, 4 sets of accounts, funded and unfunded recipient | Who is paid, and is it what was ordered and what is read back? | The second transfer meets the accounts the first one made; a blockhash expires after one block. |
| `dashboard` | 2 clients, 3 requests in all, 2 chains | Are calls linearizable, answers true, and all answered? | A writer in every phase against a reader or another writer; three requests let a wallet be paired, used and listed. The safety results and the refinement are proved for any number of clients. |
| `aptos_transfer` | APT and a token, amounts 3 and 9 in 3 bits, 3 signatures, one too short, 4 kinds of block, heights 1, 2, 3, 9 (2 stands for the 500 blocks of a young chain), 3 transactions wanted (50), 2 attempts (10), times 5 to 7 with 2 a second | Does the search for gas prices end, does the hash name what is sent, do transfers built from one input pay once? | Chains shorter and longer than the search; a block ends it, brings nothing or is missing at every place of it, and attempts are reset in between; an amount that does not fit. Building, signing and submitting are not bounded. |
| `tx_info` | 2 callers, heights up to 3, one fork or drop; 14 EVM orders (the tasks of `crosschain.yaml` among them, and recipients with a prefix or of another chain) in dynamic and legacy form and 6 transactions of other programs; transactions of each kind on Cosmos, Sui, Aptos and Bitcoin | What do concurrent calls report, and is what the EVM builder makes of an order what the order is for? | A caller disturbs another in every phase of a repeated request; the callers overlap on plain EVM transfers (`Contended`), for what they ask for does not matter to the interceptor. One block is added, and one branch replaced, between any two requests. |

`CHECK_DEADLOCK FALSE` is set where a caller may stop at any point, or where a bound on calls is met.

What the properties exempt, and why.

* `bitcoin_transfer`: `AffordableTransfersAreBuilt` is about addresses with at most `MinUtxo` outputs, since the
  selection does not count the fee. A change that is short by 2^63 or more wraps around in `big.Int.Int64` and is
  taken for a positive one (`bitcoin/builder.go:113`); `ToInt` models it, and the property is the side of it that
  holds.
* `evm_transfer`: the first half of `ResultsAreTrue` is about dynamic-fee chains, because a legacy transaction's
  price follows the chain's and a later transfer of the same nonce may outbid it; its second half is about
  transfers that are not the same transaction as another one. Nothing compares EVM's tip with a cap from a gas
  callback: a callback below the tip makes every transfer one that the chain refuses, and the run goes through
  those.
* `sui_transfer`: `BuiltTransfersRun` is about budgets that cover the gas: a transfer of the whole SUI balance is
  built with a budget of zero, although the error at `sui/builder.go:75` speaks of "paying for sui gas". A wallet
  that has no coin of the token sends SUI: `IsNativeTransfer` takes that for a transfer of SUI (`Leaving`). A
  failed gas estimate leaves the price at zero although the default was stored just before
  (`sui/client.go:283-286`); the chain refuses such transactions. An amount of 2^64 or more is cut to 64 bits, on
  Sui and on Aptos.
* `asset_registry`: `RegisteredTokensAreFound` leaves out an id while its `PutAssetConfig` has not returned.
  `SettingsAreFresh` is about the instant of the return, of a call during which the chain was not put and at whose begin
  no other call was still filling in the token from an older one (`overtaken`). What a caller reads later, through the
  configuration that it shares with everybody, may be in the middle of another call's stores, and is not covered.
* `cosmos_transfer`: the sequence number is read from the last block (`client.go`, `FetchTxInput`), so a transfer that is
  built while another is in the pool is refused; `SignedIsAcceptable` is about one with the number the node asks for.
* `solana_transfer`: `FreshTransfersRun` is about what the code counts on: a recipient that has an account
  (`solana/client.go:86` takes every other for a token account, so that a wallet that was never funded cannot be
  sent tokens although `client.go:109` says "if the ATA doesn't exist yet, we will create when sending tokens"),
  and a wallet without wrapped SOL, since a wrap always creates the account. `InfoIsTrue` is about transactions
  that succeeded: `FetchTxInfo` does not read the error of one that failed, and gives it the status of a success.
* `tx_info`: Aptos reports neither a failure nor the token, and takes a pending transaction, whose version is
  zero, for one of the first block. Cosmos transfers of CW20 tokens and of denominations shorter than
  `LEN_NATIVE_ASSET` are not read back as ordered. On Sui, gas that is given back is a positive balance change and
  so a payment, and makes its owner the one who is paid. `OrdersAreCarriedOut` leaves out tasks whose recipient is no plain
  address of the chain (described [below](#disagreements-found)). Of tasks only fee, status and destinations are read back.
  The sender is not compared where it is a destination itself. A pending EVM transaction is reported as an empty
  one with the status of a success and no confirmations. Bitcoin counts the block a transaction is in as a
  confirmation, the others do not; the native Bitcoin client reports the place in the block as the block's
  height, and no property is about that field. The node is one that never lags behind itself.

## Fairness

* `BitcoinTransfer`: a send ends (the HTTP client has a timeout), the context given to `SubmitTx` has a
  deadline, the ticker fires, and Go's `select` picks among ready cases at random, so a context that is done
  is noticed in the end (strong fairness of `GiveUp`). Nothing is assumed of the network.
* `Dashboard`: goroutines are scheduled (weak), and a waiting writer gets the mutex in the end (strong:
  `sync.Mutex` hands over to one that has waited for a millisecond).
* `EvmTransfer`: the caller submits again after a network error, which `client.go:52` invites, and one answer
  gets through in the end; blocks are made whenever a transaction can be mined again and again; the base fee
  does not stay high for ever. Nothing makes a caller start, restart or submit a first time.
* The other modules state safety only, for which no fairness is needed. That the search of `AptosTransfer` ends is
  a bound on its requests (`RequestsAreFew`), which is more than that it ends some time.

## Proofs

TLAPS checks these for every value of the constants that meets the named assumptions of the modules. A theorem
that needs more than these has it as a hypothesis, named below. Each was checked by TLC on the run first, and so
was the inductive invariant.

**Coin selection** (`BitcoinProofs`): `TypeCorrect`, `InputsAreDistinct`, `TargetIsCovered`, `DustIsConsolidated`,
`NoneTakenInVain`, `ClosedFormIsComputed`, `LoopsImplementChoice`. None of the properties is inductive: that no
output is taken twice follows from where the two indices are. `SelectInv` says that the inputs are exactly the
outputs above `hi` followed by those below `i` (`Shape`), and which loop has ended with what (`Enough`). For the
closed form, `Counted` adds that the balance is what the inputs are worth and that one output less would not do.
The refinement maps `ReturnBalance` to the abstract `Choose` and every other step to a stutter; it needs that no set of
outputs is worth more than as many of the highest ones, a fact about sums over sets (`SumOfBetter` in `Facts`).

**Bitcoin transfers** (`BitcoinProofs`): `ResultsStayTrue`, from `AnswerInv`: the error of the last attempt is still
true of the node, and while an attempt is under way nothing has been reported. `FundsAreConserved` and
`AffordableIsBuilt`, from `MoneyInv`: each transaction's inputs are different outputs, its change is what its inputs
are worth less amount and fee (`TransferOK`), and each output is one of the start or the change of an accepted
transfer (`OutputsOK`), so that accepting a transfer takes its inputs out once. Both have the hypothesis `Fits`:
the address's worth at the start, and any amount with its fee, are below `2^(IntBits - 1)`. With 64 bits that is
2^63 satoshi, four thousand times what there will ever be; beyond it the change wraps, as described above.
`PowerAssumption` states `2^IntBits = 2 * 2^(IntBits - 1)`, which the provers do not know; TLC evaluates it.

**EVM transfers** (`EvmTransferProofs`): `ResultsStayTrue`, `NobodyIsOverpaid`, both from one `IInv`: every
transaction in the mempool or in a block belongs to a transfer that has not given it up (`OwnersOK`), a nonce
is used once (`NoncesOK`), on a chain with dynamic fees all transactions have the configured tip
(`TipsOK`), so that none replaces another, and a transaction that was reported as there is kept (`KeptOK`). `NobodyIsOverpaid` follows because different mined transactions
have different owners, so what is mined for a payee is a sum over part of the orders to him.

**Cosmos transfers** (`ClientProofs`): `WhatIsSignedIsSent`, `SubmittedOnceAsSigned`, with the hypothesis `OneAtATime`:
without it they are false, and the run shows how. `AccountInv` says that at most one `Tx` is in use, the last
one, and that the shared builder still has its content (`TxsInv`); that each transaction the node let pass is what was
signed for a `Tx` (`Linked`), so that two of one message are the same in every field, the sequence number too; that
those in the pool have numbers from the chain's up to the node's, and those of blocks lower ones (`BroadcastOK`); and that
no two have one number unless one was dropped (`NumbersDiffer`). That a transfer is executed once at most follows, however
many copies of it the node has let pass.

**`FetchTxInfo`** (`ClientProofs`): `InterceptorEnds` and `FailuresHaveReasons` from `RetryInv`: a caller that
repeats a request finds the interceptor on, or had its request sent with it on, or is excused. `ConfirmationsStayTrue`
from `AnswersInv`: which answer came before which, for each chain (`Order`), and that the node was no lower
at a later one; no confirmation is then negative. `FeesAndStatusAreTrue`, `OrdersAreReadBack` and
`TransfersAreCarriedOut` from `ReadInv` besides: forks are only counted up, so answers are of one fork when the node
has the fork that it had at the begin, and the header that the fee is computed from is that of the receipt's block.
They rest on what the transactions asked for are, as named assumptions of `TxInfo` that TLC evaluates: a transfer
that was ordered is the call that `NewTransfer` makes of the order (`EvmAssumption`, `AptosAssumption`), and a fee is
what the chain takes (`FeesAssumption`). `OrdersAreReadBack` is `InfoIsTrue` on EVM chains and Aptos, where the order
is in fixed places; the fee and the status are true on the others, too, but for Sui's fee, which is a sum of balance
changes. `TransfersAreCarriedOut` is `OrdersAreCarriedOut` of transfers, without the tasks that have parameters.

**Tasks** (`LibraryProofs`): `TasksStayAsAsked`, `ReloadsAgree`, with the hypothesis `OneAtATime`. `TasksInv` says that
at most one caller is at the shared tasks and that they still have what it stored (`HeldOK`). They rest on
`AllowAssumption` and `ReloadAssumption`, which `crosschain.yaml` keeps to and no code sees to: a task that is
allowed for an asset that is not configured gets an empty source, because `enrichTask` ignores the error
(`factory/main.go:168`), and the attempt to prove the theorems without them is what showed it.

**Assets** (`LibraryProofs`): `RegisteredAreFound`, `SettingsStayFresh`, for any number of clients. In `RegistryInv`, a
token in the map whose embedded configuration is not filled in yet has a client that put something under its id and
is about to load it (`PublishedOK`): that need not be the client that put this token, but it is the map that
it loads from. For the settings, each client that is at a token has it (`HasToken`); the settings it has read are those
of the chain as it is, or the chain was put since (`HasChain`); the fields that it has stored are still so
(`HasSettings`), because whoever else stores into the same token without having overtaken it stores the same
(`StoresTheSame`).

**Solana transfers** (`SolanaTransferProofs`): `OrdersArePaid` (an action property), `InfoStaysTrue`,
`FreshTransfersAreRun`. `SolanaInv` has three parts: what the accounts can be (`SolOK`, `TokOK`: an address tells
who holds the account), what the code of a transaction can be, in a few forms per kind of order (`CodeOK`),
and what the program's input says while nothing has changed since (`InputOK`). The first two are enough for who
is paid, whatever the program believed; the third is for the last theorem. `NamesAssumption` says that different
names are different and that the address of an associated account is nobody's wallet.

**Aptos transfers** (`AptosTransferProofs`): `EstimateGasEnds`, where `requests + attempts` is at most `MaxAttempts`
for each price found and `MaxAttempts` more (`RequestsOK`); `HashesAreOfWhatIsSent`, where the bytes kept are those of
the transaction as it is (`SerializedOK`); `TransferPaysOnce`, where every transaction that was built, is in the pool or
has run has the input's sequence number and is the payload of an amount that was asked for, and the account is past that
number once one has run.

**Sui transfers** (`SuiTransferProofs`): `TransfersRun`, from `InvBuilt`: the coins of the input are different objects of
one type, within the limit, and the gas coin is not among them (`InputOK`, `Excluded`); what is built is `Plan` of an
input that does not fail (`TxOK`); and until a submission the chain's coins are different objects, an object keeps its
type, and the recipient has nothing yet (`Unspent`). That an object is as it was read is not needed: the chain compares
versions. Most of the proof is about the commands: `CmdInputsFacts` and `CommandsFacts` give the place of every input
and command for each of the forms a transfer takes (of SUI or a token, with and without a split of the gas coin, with
and without a merge), `EnvironmentFacts` what the chain finds at these places, and `StepsExist` and `DoAllSteps` unfold the
execution, one command after the other. `TransferIsDone` says what commands that run have sent, and `TransferCanBeDone`
that they run when every object is as the transaction names it and the budget covers the gas. `BytesKeepNumbers` is
the one fact about bytes: an amount or an address in bytes is read as the same number.

`RecipientIsPaidOnce` and `PaidOnlyInItsEpoch`, from `InvPaid`: once the transaction has been executed, its gas coin is
past the version it names (`Spent`), so it is not executed again, and the recipient has the amount or, if the
commands failed, nothing. These two have the hypothesis `[]ReadsAsBuilt`, that a transaction is read as it was written;
`ReadsAsWritten` of the run `sui_transfer` contains it. `AmountsFit`, a hypothesis of `RecipientIsPaidOnce`, says that
amounts are below 2^64: there are 10^19 units of SUI, about half of that, and a larger amount is cut to 64 bits, as
described above. `SizeAssumption` states the powers of two that the provers do not know; TLC evaluates it.

**Amounts** (`LibraryProofs`): `AmountsStaySeparate` and `NoInterference`, for linear programs. The methods are
reduced to one fact, `PlacedAt`: a result lives in its receiver's array or in a new one, and only that array
changes. `IInv` adds to `Separated` that every reference is to an allocated array.

**Dashboard** (`ClientProofs`): `NumbersAreUnique`, `WalletsOfSessionsStay`, `AnswersStayTrue`,
`CallsAreLinearizable`, for any number of clients and calls. `IInv` says that the phases between `Enter` and
`Unlock` have one client (`OneWriter`), that every number in use is at most the counter (`IdsUsed`) and below it
while its owner is about to store (`NumberIsFresh`), and that the wallet a session is being made for is still there
(`WalletIsThere`). The refinement maps the step that answers to the registry's step and all others to
stutters; `RInv` adds that what a reader has copied is what there is, and that no more numbers are drawn than there
are calls (`NumbersOK`), which bounds the registry's counter.

Two conventions that the proofs ask of the models: the guards of a `CASE` exclude each other, or it is an `IF` chain,
and an update of two fields of one function is an operator of its own (`Moved` in `SolanaTransfer`).

Only model-checked:

* All liveness (`SubmitReturns`, `EveryCallReturns`, `RetriesEnd`): it needs fairness and ENABLED.
* `ImplementsValues`: the arithmetic of words, for numbers of any length.
* `DestinationsWerePaid` of `TxInfo`, `InfoIsTrue` as far as Cosmos, Sui and Bitcoin transfers are read back as they were
  ordered, and `OrdersAreCarriedOut` of tasks: messages, balance changes, inputs and outputs, and parameters are lists that
  are filtered and folded, and what `SelectSeq`, `FlattenSeq` and `FoldLeft` compute is beyond the provers.
* `ReadsAsWritten`: a value of a generated type is read and written by `RECURSIVE` operators in `SuiBcs`, which a module
  with proofs cannot reach. `ReadsAsBuilt`, which two theorems about Sui have as a hypothesis, is the part of it they need.

What a recursive definition computes cannot be proved in general, since none of the provers can instantiate a
theorem with an operator parameter. The sums, the closed form of the selection and the bound of the gas search are proved
by induction on sets instead (`NatSetInduction`, `SubsetInduction` in `Facts`), for which the models write them as
`SumFunctionOnSet` and `CHOOSE`.

## Disagreements found

The models have these as the code does them; where a property above would not hold of them, it exempts them by
name.

* Bitcoin overwrites an amount that is the result of an earlier `Add` (`bitcoin/builder.go:71`, `amount.Add(&fee)`
  writes into the caller's array where that has room): it pays the fee to the recipient as well, and leaves the
  caller's amount changed. A value that is short by 2^63 wraps.
* A chain is found by its coin only until it has been looked up for the first time: `cfgFromAsset` fills in the
  `Chain` field (`factory/main.go:120`) that decides which of the two comparisons at `:138` and `:144` is made, although
  the comment at `:481` promises a lookup "by contract and native asset (chain)" whenever it is made.
* `crosschain.yaml` allows WETH to go from MATIC to SOL, but its maps of bridges have no entry for MATIC: the
  approval is of the zero address, and the call is to the token. `coinbase-multisend` sends the amount with the
  destinations left out ("array is not yet implemented"), and `FetchTxInfo` slices that call's data out of range
  (`evm/tx.go:284`). The field `payable` is not read.
* The parameters of tasks, the recipient among them, go through go-ethereum's `HexToAddress` (`evm/task.go:93-101`,
  `:157`), which has no error and keeps 20 bytes of whatever it can decode, and not through the package's own, which
  takes the prefix of an XDC address off first. A recipient written with its prefix is lost, and so is the Solana
  recipient of the bridge from WETH.ETH to WETH.SOL that `crosschain.yaml:349` allows. With these orders counted in,
  `OrdersAreCarriedOut` fails.
* `FetchTxInfo` panics on an EVM transaction that creates a contract (`evm/tx.go:179`) or has an event without topics
  (`evm/tx.go:114`), on a Cosmos one without a fee (`cosmos/tx.go:169`), and on a Sui one that changes the balance of
  something that no address owns (`sui/client.go:129`, `:140`); the model has these as ends of a call.
* A success of Cosmos's `SubmitTx` is a success of `CheckTx` (`cosmos/client.go:161`): the transaction may fail in a block
  or be dropped, and nothing but `FetchTxInfo` tells. What it does promise is `SubmittedAsSigned`.
* A lookup of a token that is slow writes the settings of a chain that has been replaced over newer ones, after other
  lookups of the token have returned: they all share the object (`factory/main.go:322-340`), which no lock protects. The
  fields are data races besides; the model takes each store as atomic.
* The EVM interceptor is one for all requests: another caller's request that ends between the two attempts of one
  switches it off, and on a chain whose answers need it the repeated request then fails (`excused` in `TxInfo`).
* Aptos gives a transaction an expiry an hour of microseconds after the ledger's time, which is read as seconds
  ("~1 hour expiration", `aptos/builder.go:70-71`): a signed transaction practically never expires. Its `AddSignatures` keeps a
  signature although `Serialize` then failed; `HashNamesWhatIsSent` is what holds nevertheless.
* Sui reports as contract the coin of the last balance change it looked at (`sui/client.go:123`); its budget of
  zero, its overwritten default price and a token transfer that sends SUI are described above.
* EVM: tips above a callback's cap. Solana: unfunded recipients, a second wrap, failed transactions that read as
  successes, and an expired blockhash, which counts as a network error (`solana/errors.go:21` matches "not found")
  and is retried for ever.
* The dashboard's routes out of and into SOL are Firedancer ones whether `prefer_firedancer` is set or not
  (`service.go:228`), where `README.md:21` calls that routing optional.

With `OneAtATime` set to `FALSE` in the configuration of a run two more show: with `cosmos_transfer`, a `Tx` that is
still in use serializes the transfer built after it; with `task_registry`, a lookup by assets changes the tasks
that an earlier one returned.

## Plan

Done, in this order: coin selection and bitcoin transfers; amounts; the dashboard; cosmos; sui; tasks; EVM
transfers; assets; solana; Aptos; EVM tasks and `FetchTxInfo` of every chain; Sui's commands, epochs and bytes; the proofs.
Next:

1. Proofs: `ImplementsValues` for `Add` and `Sub` of one word; `DestinationsWerePaid` with sums over sets in place of folds.
2. `AssetRegistry` composed with `TaskRegistry` into one factory; `EnrichAssetConfig` of configurations that are
   not registered.
3. A node that lags behind itself, as several behind one address do, under `TxInfo`.

## Left out

* Signers, address builders and encodings: cryptography and pure functions of bytes; a signature is good or
  bad, or is over a content.
* `config`: files, environment and vault, read once.
* The asset and driver tables and the interfaces at the root: no behaviour.
* `chain/template`: a skeleton. `chain/evm/erc20`: generated; of it only the parser of `Transfer` events is used,
  which `EvmInfo` has as the receipts of the node. Of `chain/sui/generated`, the types of checkpoints, effects
  and events, which the library does not use.
* The constructors of `factory`: a switch over the driver, no state.
* `examples`: they show how callers use the library, which is what the callers of the models do.
* In modelled parts: balances, gas limits, negative amounts, the BCH signature hash, `Div` and the decimal text
  of amounts, Solana's vote withdrawals, the block number and time that `FetchTxInfo` reports, the dashboard's HTML
  page.
