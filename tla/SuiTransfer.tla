---------------------------- MODULE SuiTransfer ----------------------------
(***************************************************************************)
(* One transfer on Sui: coins fetched, gas budgeted, commands built,       *)
(* signed and submitted, while the wallet's coins may change on the chain  *)
(* and its epoch may end. A coin is an object [id, type, balance, version].*)
(* The chain, external, reads the bytes it is sent, takes the transaction  *)
(* they say if it is signed and the versions it names are the current      *)
(* ones, and runs its commands, which have of the gas coin what the budget *)
(* leaves. How a transaction is written as bytes and read is a parameter,  *)
(* which SuiSubmission gives its value.                                    *)
(***************************************************************************)
EXTENDS SuiBytes, FiniteSetsExt

CONSTANTS Starts,       \* [asset, coins]: an asset to transfer, its type and
                        \* its chain's ChainGasPriceDefault (or 0), and the
                        \* coins a wallet may hold then
          Amounts,      \* amounts to transfer
          MaxCoinObjects,
          NormalBudget, \* 2 SUI
          GasUsed,      \* what a transfer costs
          Prices,       \* gas prices the estimate may give
          Encode(_),    \* the bytes of a transaction,
          Decode(_),    \* the transactions that bytes are read as: one, or
                        \* none if they are none of a transaction,
          EncodeIntent(_) \* and the bytes that are to be signed

CoinObjects == [id : 1..(Size(AddressBytes) - 1), type : {"sui", "token"},
                balance : 0..(Size(U64Bytes) - 1), version : Nat]

ASSUME SuiAssumption ==
  /\ \A s \in Starts :
       /\ s.asset \in [type : {"sui", "token"}, price : Nat]
       /\ IsFiniteSet(s.coins) /\ s.coins \subseteq CoinObjects
       /\ \A c1, c2 \in s.coins : c1.id = c2.id => c1 = c2
  /\ Amounts \subseteq Nat /\ Prices \subseteq Nat
  /\ MaxCoinObjects \in Nat \ {0} /\ {NormalBudget, GasUsed} \subseteq Nat

VARIABLES
  asset,    \* Client.Asset
  coins,    \* the wallet's coins on the chain
  epoch,    \* the chain's epoch
  received, \* what the recipient got, per type
  input,    \* the TxInput being filled in
  amount,   \* the amount asked for
  tx,       \* the Tx built
  stage     \* how far the caller is

vars == <<asset, coins, epoch, received, input, amount, tx, stage>>

NoCoin  == [id |-> 0, type |-> "", balance |-> 0, version |-> 0]
NoInput == [coins |-> <<>>, gas |-> NoCoin, price |-> 0, budget |-> 0, epoch |-> 0]
NoTx    == [data |-> <<>>, signatures |-> <<>>]

Wallet    == Size(AddressBytes) - 1
Recipient == Size(AddressBytes) - 2

Uint64(n) == n % Size(U64Bytes)

Init ==
  /\ \E s \in Starts : asset = s.asset /\ coins = s.coins
  /\ epoch = 1
  /\ received = [type \in {"sui", "token"} |-> 0]
  /\ input = NoInput /\ tx = NoTx
  /\ amount = 0
  /\ stage = "start"
-----------------------------------------------------------------------------
(* FetchTxInput *)

\* Highest balance first; equal ones in any order.
SortCoins(S) ==
  { seq \in [1..Cardinality(S) -> S] :
      \A i, j \in 1..Cardinality(S) :
        i < j => seq[i] # seq[j] /\ seq[i].balance >= seq[j].balance }

OfType(type) == { c \in coins : c.type = type }

Shorten(seq) == SubSeq(seq, 1, IF Len(seq) > MaxCoinObjects THEN MaxCoinObjects
                               ELSE Len(seq))

FetchCoins ==
  /\ stage = "start"
  /\ \E seq \in SortCoins(OfType(asset.type)) :
       input' = [NoInput EXCEPT !.coins = Shorten(seq)]
  /\ stage' = "coins"
  /\ UNCHANGED <<asset, coins, epoch, received, amount, tx>>

FetchLatestCheckpoint ==
  /\ stage = "coins"
  /\ input' = [input EXCEPT !.epoch = epoch]
  /\ stage' = "epoch"
  /\ UNCHANGED <<asset, coins, epoch, received, amount, tx>>

\* The largest SUI coin pays for gas; a token transfer asks for it anew.
FetchGasCoin ==
  /\ stage = "epoch"
  /\ IF asset.type = "token"
     THEN \E seq \in SortCoins(OfType("sui")) :
            input' = [input EXCEPT !.gas = IF seq = <<>> THEN NoCoin ELSE seq[1]]
     ELSE input' = [input EXCEPT !.gas = IF input.coins = <<>> THEN NoCoin
                                         ELSE input.coins[1]]
  /\ stage' = "gas coin"
  /\ UNCHANGED <<asset, coins, epoch, received, amount, tx>>

\* The coins without the first that is the given one.
Without(seq, coin) ==
  LET same == { k \in DOMAIN seq : seq[k].id = coin.id }
  IN  IF same = {} THEN seq
      ELSE [k \in 1..(Len(seq) - 1) |-> IF k < Min(same) THEN seq[k] ELSE seq[k + 1]]

ExcludeGasCoin(in) == [in EXCEPT !.coins = Without(in.coins, in.gas)]

\* An estimate that fails is an error without a default price; with one, the
\* default is stored, and then the failed estimate, which is zero, over it.
EstimateGas ==
  /\ stage = "gas coin"
  /\ \/ \E price \in Prices :
          /\ input' = ExcludeGasCoin([input EXCEPT !.price = price,
                                                   !.budget = NormalBudget])
          /\ stage' = "fetched"
     \/ /\ asset.price > 0
        /\ input' = ExcludeGasCoin([input EXCEPT !.price = 0, !.budget = NormalBudget])
        /\ stage' = "fetched"
     \/ /\ asset.price = 0
        /\ stage' = "error"
        /\ UNCHANGED input
  /\ UNCHANGED <<asset, coins, epoch, received, amount, tx>>
-----------------------------------------------------------------------------
(* NewTransfer *)

\* No coins besides the gas coin counts as a native transfer.
IsNativeTransfer(in) == in.coins = <<>> \/ in.coins[1].type = in.gas.type

SumOf(seq) == SumFunction([k \in 1..Len(seq) |-> seq[k].balance])

TotalBalance(in) ==
  SumOf(in.coins) + IF IsNativeTransfer(in) THEN in.gas.balance ELSE 0

\* Mutant: what is left after the transfer is not looked at.
BudgetOfGasCoin(in, amt) == Min({in.budget, in.gas.balance})

Budget(in, amt) ==
  Min({in.budget, in.gas.balance,
         IF IsNativeTransfer(in) THEN Uint64(TotalBalance(in)) - Uint64(amt)
         ELSE in.gas.balance})

\* No SUI coin at all gives an object id that does not decode.
Fails(in, amt) ==
  \/ in.gas = NoCoin
  \/ IsNativeTransfer(in) /\ Uint64(TotalBalance(in)) < Uint64(amt)

Gas          == Val("Argument__GasCoin", <<>>)
Input(index) == Val("Argument__Input", <<index>>)
Result(index) == Val("Argument__Result", <<index>>)

u64ToPure(n) == Val("CallArg__Pure", <<IntBytes(n, U64Bytes)>>)

\* The bytes of an address, of an object's id, and of what it holds.
Address(n) == <<IntBytes(n, AddressBytes)>>
DigestOf(coin) == <<<< <<coin.version, coin.balance>> >>>>

coinToObject(coin) == << <<Address(coin.id)>>, <<coin.version>>, DigestOf(coin) >>

ObjectInput(coin) ==
  Val("CallArg__Object", <<Val("ObjectArg__ImmOrOwnedObject", <<coinToObject(coin)>>)>>)

SplitsGasCoin(in) == IsNativeTransfer(in) /\ in.coins # <<>>

\* The coins to spend, one after the limit more.
Spendable(in) == SubSeq(in.coins, 1, Min({Len(in.coins), MaxCoinObjects + 2}))

\* The inputs: what the gas coin can spare, the coins, the amount, the address.
CmdInputs(in, amt) ==
  (IF SplitsGasCoin(in) THEN <<u64ToPure(in.gas.balance - Budget(in, amt))>> ELSE <<>>)
  \o [k \in DOMAIN Spendable(in) |-> ObjectInput(Spendable(in)[k])]
  \o <<u64ToPure(Uint64(amt)), Val("CallArg__Pure", Address(Recipient))>>

\* The first of the coins, or the gas coin where there is no other.
PrimaryCoin(in) ==
  IF in.coins = <<>> THEN Gas ELSE Input(IF SplitsGasCoin(in) THEN 1 ELSE 0)

\* What goes into the primary coin: what was split off, and the other coins.
MergeInputs(in) ==
  LET first == IF SplitsGasCoin(in) THEN 1 ELSE 0
  IN  (IF SplitsGasCoin(in) THEN <<Result(0)>> ELSE <<>>)
      \o [k \in 1..(Len(Spendable(in)) - 1) |-> Input(first + k)]

\* Mutant: the amount is taken to be the first input.
FirstInput(in, amt) == Input(0)

AmountInput(in, amt) == Input(Len(CmdInputs(in, amt)) - 2)

\* Split what the gas coin can spare off it; merge it and the other coins into
\* the primary coin; split the amount off that, and send it.
Commands(in, amt) ==
  LET split == IF SplitsGasCoin(in)
               THEN <<Val("Command__SplitCoins", <<Gas, <<Input(0)>>>>)>> ELSE <<>>
      merge == IF in.coins # <<>> /\ MergeInputs(in) # <<>>
               THEN <<Val("Command__MergeCoins", <<PrimaryCoin(in), MergeInputs(in)>>)>>
               ELSE <<>>
      pay == Val("Command__SplitCoins", <<PrimaryCoin(in), <<AmountInput(in, amt)>>>>)
      send == Val("Command__TransferObjects",
                  << <<Result(Len(split \o merge))>>, Input(Len(CmdInputs(in, amt)) - 1)>>)
  IN  split \o merge \o <<pay, send>>

\* Mutant: the transfer never expires.
NoExpiration(in) == Val("TransactionExpiration__None", <<>>)

Expiration(in) == Val("TransactionExpiration__Epoch", <<in.epoch>>)

Plan(in, amt) ==
  Val("TransactionData__V1",
      << <<Val("TransactionKind__ProgrammableTransaction",
               << <<CmdInputs(in, amt), Commands(in, amt)>> >>),
           Address(Wallet),
           << <<coinToObject(in.gas)>>, Address(Wallet), in.price, Budget(in, amt)>>,
           Expiration(in)>> >>)

NewTransfer(amt) ==
  LET local_input == ExcludeGasCoin(input)
  IN  /\ stage = "fetched"
      /\ amount' = amt
      /\ IF Fails(local_input, amt) THEN stage' = "refused" /\ UNCHANGED tx
         ELSE stage' = "built" /\ tx' = [NoTx EXCEPT !.data = Plan(local_input, amt)]
      /\ UNCHANGED <<asset, coins, epoch, received, input>>

Serialize(t) == Encode(t.data)

\* What is hashed and signed: the intent, three zeros, before the bytes.
Sighashes(t) == <<0, 0, 0>> \o Serialize(t)

\* A signature is as good as the bytes it is over.
AddSignatures ==
  /\ stage = "built"
  /\ tx' = [tx EXCEPT !.signatures = Append(@, Sighashes(tx))]
  /\ stage' = "signed"
  /\ UNCHANGED <<asset, coins, epoch, received, input, amount>>
-----------------------------------------------------------------------------
(* The chain, external *)

\* The parts of a TransactionData.
InputsOf(d)   == d[2][1][1][2][1][1]
CommandsOf(d) == d[2][1][1][2][1][2]
GasDataOf(d)  == d[2][1][3]
ExpiryOf(d)   == d[2][1][4]

GasRef(d)   == GasDataOf(d)[1][1]
PriceOf(d)  == GasDataOf(d)[3]
BudgetOf(d) == GasDataOf(d)[4]

IsObject(in) == in[1] = "CallArg__Object"
RefOf(in)    == in[2][1][2][1]
CoinAt(ref)  == CHOOSE c \in coins : coinToObject(c) = ref

Objects(d) == { k \in DOMAIN InputsOf(d) : IsObject(InputsOf(d)[k]) }

\* What a transaction names: its objects and, at 0, its gas coin.
Refs(d) ==
  [k \in {0} \cup Objects(d) |-> IF k = 0 THEN GasRef(d) ELSE RefOf(InputsOf(d)[k])]

\* The objects a transaction names are as it names them, each named once.
Current(d) ==
  /\ Len(GasDataOf(d)[1]) = 1
  /\ \A k \in DOMAIN Refs(d) : \E c \in coins : coinToObject(c) = Refs(d)[k]
  /\ \A j, k \in DOMAIN Refs(d) : Refs(d)[j] = Refs(d)[k] => j = k

Takes(d, signatures) ==
  /\ Current(d)
  /\ PriceOf(d) > 0 /\ BudgetOf(d) > 0
  /\ signatures = <<EncodeIntent(d)>>
  /\ ExpiryOf(d)[1] = "TransactionExpiration__Epoch" => epoch <= ExpiryOf(d)[2][1]

Worth(coin, n) == [coin EXCEPT !.balance = n]

New(type, n) == [id |-> 0, type |-> type, balance |-> n, version |-> 0]

\* What the commands work on: the gas coin less the budget, and the inputs.
Environment(d) ==
  LET gas == CoinAt(GasRef(d))
      At(in) == IF IsObject(in) THEN CoinAt(RefOf(in)) ELSE New("pure", IntValue(in[2][1]))
  IN  [at |-> [a \in {Gas} \cup { Input(k - 1) : k \in DOMAIN InputsOf(d) } |->
                 IF a = Gas THEN Worth(gas, gas.balance - BudgetOf(d))
                 ELSE At(InputsOf(d)[a[2][1] + 1])],
       ok |-> gas.balance >= BudgetOf(d) /\ BudgetOf(d) >= GasUsed,
       done |-> 0,
       sent |-> [type \in {"sui", "token"} |-> 0]]

Total(env, args) == SumFunction([k \in DOMAIN args |-> env.at[args[k]].balance])

SplitCoins(env, coin, amt) ==
  LET n == env.at[amt].balance
      had == env.at[coin]
  IN  [at |-> [a \in DOMAIN env.at \cup {Result(env.done)} |->
                 IF a = coin THEN Worth(had, had.balance - n)
                 ELSE IF a \in DOMAIN env.at THEN env.at[a]
                 ELSE New(had.type, n)],
       ok |-> had.type # "pure" /\ env.at[amt].type = "pure" /\ n <= had.balance,
       done |-> env.done + 1,
       sent |-> env.sent]

MergeCoins(env, coin, others) ==
  [at |-> [a \in DOMAIN env.at \ Range(others) |->
             IF a = coin THEN Worth(env.at[a], env.at[a].balance + Total(env, others))
             ELSE env.at[a]],
   ok |-> \A k \in DOMAIN others : env.at[others[k]].type = env.at[coin].type,
   done |-> env.done + 1,
   sent |-> env.sent]

TransferObjects(env, objects, to) ==
  LET type == env.at[objects[1]].type
  IN  [at |-> [a \in DOMAIN env.at \ Range(objects) |-> env.at[a]],
       ok |-> env.at[to].type = "pure" /\ env.at[to].balance = Recipient,
       done |-> env.done + 1,
       sent |-> [env.sent EXCEPT ![type] = env.sent[type] + Total(env, objects)]]

\* A command, if its arguments are still there and it can be done.
Do(env, cmd) ==
  LET a == cmd[2][1]
      b == cmd[2][2]
      here == IF cmd[1] = "Command__TransferObjects" THEN Range(a) \cup {b}
              ELSE Range(b) \cup {a}
  IN  IF ~env.ok \/ ~(here \subseteq DOMAIN env.at) THEN [env EXCEPT !.ok = FALSE]
      ELSE CASE cmd[1] = "Command__SplitCoins" -> SplitCoins(env, a, b[1])
             [] cmd[1] = "Command__MergeCoins" -> MergeCoins(env, a, b)
             [] cmd[1] = "Command__TransferObjects" -> TransferObjects(env, a, b)

\* The commands one after the other.
DoAll(env, commands) ==
  LET after[k \in 0..Len(commands)] ==
        IF k = 0 THEN env ELSE Do(after[k - 1], commands[k])
  IN  after[Len(commands)]

\* What the commands leave: no coin they made may be left over.
After(d) ==
  LET env == DoAll(Environment(d), CommandsOf(d))
  IN  [env EXCEPT !.ok = @ /\ \A a \in DOMAIN env.at : a[1] # "Argument__Result"]

Runs(d) == After(d).ok

Bumped(coin, balance) == [Worth(coin, balance) EXCEPT !.version = coin.version + 1]

Execute(d) ==
  LET env == After(d)
      gas == CoinAt(GasRef(d))
      objects == { CoinAt(RefOf(InputsOf(d)[k])) : k \in Objects(d) }
      kept == { env.at[a] : a \in { b \in DOMAIN env.at : env.at[b].id # 0 } \ {Gas} }
  IN  IF env.ok
      THEN /\ coins' = (coins \ (objects \cup {gas}))
                       \cup { Bumped(c, c.balance) : c \in kept }
                       \cup {Bumped(gas, env.at[Gas].balance + BudgetOf(d) - GasUsed)}
           /\ received' = [type \in {"sui", "token"} |-> received[type] + env.sent[type]]
      ELSE /\ coins' = (coins \ {gas})
                       \cup {Bumped(gas, gas.balance - Min({GasUsed, BudgetOf(d)}))}
           /\ UNCHANGED received

\* SubmitTx reports no error whenever the chain has executed the transaction,
\* also when that failed. The call or its answer may be lost.
SubmitTx ==
  /\ stage \in {"signed", "lost"}
  /\ LET taken == { d \in Decode(Serialize(tx)) : Takes(d, tx.signatures) }
     IN  \/ /\ \E d \in taken : Execute(d)
            /\ stage' \in {"submitted", "lost"}
         \/ /\ taken = {} /\ stage' = "error"
            /\ UNCHANGED <<coins, received>>
         \/ /\ stage' = "lost"
            /\ UNCHANGED <<coins, received>>
  /\ UNCHANGED <<asset, epoch, input, amount, tx>>

\* Another transaction of the wallet uses a coin and halves it.
OtherTx ==
  /\ \E c \in coins :
       /\ c.version = 1
       /\ coins' = (coins \ {c}) \cup { Bumped(c, c.balance \div 2) }
  /\ stage \in {"coins", "signed"}
  /\ UNCHANGED <<asset, epoch, received, input, amount, tx, stage>>

\* The epoch ends, once while a transfer is under way.
EndEpoch ==
  /\ epoch = 1
  /\ stage \in {"epoch", "lost"}
  /\ epoch' = epoch + 1
  /\ UNCHANGED <<asset, coins, received, input, amount, tx, stage>>

Next ==
  \/ FetchCoins \/ FetchLatestCheckpoint \/ FetchGasCoin \/ EstimateGas
  \/ \E amt \in Amounts : NewTransfer(amt)
  \/ AddSignatures \/ SubmitTx \/ OtherTx \/ EndEpoch

Spec == Init /\ [][Next]_vars
-----------------------------------------------------------------------------
Fetched == stage \notin {"start", "coins", "epoch", "gas coin", "error"}
Built   == stage = "built"

\* A SUI transfer whose coins are as they were fetched and whose budget covers
\* the gas goes through: the budget, the remainder and the amount together
\* never ask for more than the coins hold.
BuiltTransfersRun ==
  Built /\ asset.type = "sui" /\ BudgetOf(tx.data) >= GasUsed /\ Current(tx.data)
    => Runs(tx.data)

\* What leaves the wallet: the asset, but SUI for a token no coin of which was
\* found, which tx.go:91-96 takes for a native transfer.
Leaving == IF input.coins = <<>> THEN "sui" ELSE asset.type

\* What the recipient gets is the amount asked for, of one asset, and once,
\* however often the transaction is submitted and whatever other transactions
\* have done to the coins since they were fetched.
PaysTheAmount ==
  \A type \in {"sui", "token"} :
    received[type] \in IF type = Leaving THEN {0, amount} ELSE {0}

\* A transfer is only paid in the epoch it was fetched in ("expires after
\* current epoch", builder.go:190), however late it is submitted again.
PaidInItsEpoch == [][received' # received => epoch = input.epoch]_vars

\* A transaction that is built is read as it was written, and what tx.go:137 puts
\* together by hand from three zeros and the transaction is what is to be signed.
ReadsAsBuilt ==
  Built => Decode(Serialize(tx)) = {tx.data} /\ Sighashes(tx) = EncodeIntent(tx.data)
=============================================================================
