------------------------ MODULE AptosTransferProofs ------------------------
(***************************************************************************)
(* For any blocks, prices and limits: EstimateGas's requests are bounded,  *)
(* what is sent has the hash the caller was given, and the transactions    *)
(* that are built from one input pay what was asked for and once.          *)
(***************************************************************************)
EXTENDS AptosTransfer, Facts

EstimateOK ==
  estimate \in [height : Int, attempts : Int, count : Nat, total : Nat, requests : Nat]

\* What the requests made and the attempts left add up to, at most, is
\* MaxAttempts for each price found and MaxAttempts more.
RequestsOK ==
  /\ estimate.requests + estimate.attempts <= MaxAttempts * (estimate.count + 1)
  /\ stage = "blocks" => estimate.attempts > 0
  /\ RequestsAreFew

TxOK == tx = [raw |-> tx.raw, pubkey |-> tx.pubkey,
              signature |-> tx.signature, serialized |-> tx.serialized]

InputOK ==
  /\ input = [sequence |-> input.sequence, timestamp |-> input.timestamp,
              price |-> input.price, pubkey |-> input.pubkey]
  /\ input.sequence \in Nat /\ sequence \in Nat

\* The bytes kept are those of the transaction as it is.
SerializedOK == Serializes(tx) => tx.serialized = Bytes(tx)

\* A transaction that was built from the input.
Pays(raw) ==
  /\ raw.sequence = input.sequence
  /\ raw.payload.coin = IF IsToken THEN asset.contract ELSE APT
  /\ (\A amt \in asked : amt < 2^IntBits) => raw.payload.amount \in asked

\* The chain has nothing but transactions built from the input. All have its
\* number, so that the account is past them once one has run.
ChainOK ==
  /\ stage # "fetched" => tx = NoTx /\ pool = {} /\ ran = <<>>
  /\ tx # NoTx => Pays(tx.raw)
  /\ \A signed \in pool : Pays(signed[1])
  /\ \/ ran = <<>>
     \/ input.sequence < sequence /\ \E signed : ran = <<signed>> /\ Pays(signed[1])

-----------------------------------------------------------------------------
\* The prices found in a block, counted and summed.
LEMMA FoundFacts ==
  ASSUME NEW block \in Blocks
  PROVE  /\ Cardinality(Found(block)) \in Nat
         /\ Found(block) # {} => Cardinality(Found(block)) >= 1
         /\ SumFunctionOnSet(block, Found(block)) \in Nat
<1>1. block \in Seq(Nat)
  BY AptosAssumption
<1>2. DOMAIN block = 1..Len(block) /\ Len(block) \in Nat /\ \A k \in DOMAIN block : block[k] \in Nat
  BY <1>1
<1>3. IsFiniteSet(Found(block))
  <2>1. IsFiniteSet(1..Len(block))
    BY <1>2, FS_Interval
  <2> QED BY <1>2, <2>1, FS_Subset DEF Found
<1>4. Cardinality(Found(block)) \in Nat /\ (Found(block) # {} => Cardinality(Found(block)) # 0)
  BY <1>3, FS_CardinalityType, FS_EmptySet
<1>5. SumFunctionOnSet(block, Found(block)) \in Nat
  <2>1. \A k \in Found(block) : block[k] \in Nat
    BY <1>2 DEF Found
  <2> QED BY <1>3, <2>1, SumOfNats
<1> QED BY <1>4, <1>5

LEMMA Times ==
  ASSUME NEW m \in Nat, NEW a \in Nat, NEW b \in Nat, a <= b
  PROVE  m * a <= m * b
OBVIOUS

\* A request, whatever it brings, keeps the bound on the requests.
LEMMA RequestKeeps ==
  ASSUME EstimateOK, RequestsOK, GetBlockByHeight
  PROVE  EstimateOK' /\ RequestsOK'
<1> DEFINE e == estimate
           M == MaxAttempts
<1>0. M \in Nat /\ M > 0 /\ Wanted \in Nat
  BY AptosAssumption
<1>1. /\ e.height \in Int /\ e.attempts \in Int
      /\ e.count \in Nat /\ e.total \in Nat /\ e.requests \in Nat
      /\ e = [height |-> e.height, attempts |-> e.attempts, count |-> e.count,
              total |-> e.total, requests |-> e.requests]
  BY DEF EstimateOK
<1>2. /\ stage = "blocks" /\ e.count < Wanted /\ e.attempts > 0
      /\ e.requests + e.attempts <= M * (e.count + 1)
  BY DEF GetBlockByHeight, Searching, RequestsOK
<1>3. e.requests + 1 <= Wanted * M
  <2>1. e.count + 1 \in Nat /\ e.count + 1 <= Wanted
    BY <1>0, <1>1, <1>2
  <2>2. M * (e.count + 1) <= M * Wanted
    BY <1>0, <2>1, Times
  <2>3. M * (e.count + 1) \in Int /\ M * Wanted = Wanted * M /\ Wanted * M \in Int
    BY <1>0, <1>1
  <2> HIDE DEF e, M
  <2> QED BY <1>1, <1>2, <2>2, <2>3
<1>4. CASE /\ estimate' = [e EXCEPT !.height = @ - 1, !.attempts = @ - 1, !.requests = @ + 1]
           /\ stage' = IF e.attempts > 1 THEN "blocks" ELSE "error"
  <2>1. estimate' = [height |-> e.height - 1, attempts |-> e.attempts - 1, count |-> e.count,
                     total |-> e.total, requests |-> e.requests + 1]
    BY <1>1, <1>4, Zenon
  <2>2. EstimateOK'
    BY <1>1, <2>1 DEF EstimateOK
  <2>3. estimate'.requests + estimate'.attempts <= M * (estimate'.count + 1)
    <3>1. M * (e.count + 1) \in Int
      BY <1>0, <1>1
    <3> QED BY <1>1, <1>2, <2>1, <3>1
  <2>4. stage' = "blocks" => estimate'.attempts > 0
    BY <1>1, <1>4, <2>1
  <2>5. RequestsAreFew'
    BY <1>3, <2>1 DEF RequestsAreFew
  <2> QED BY <2>2, <2>3, <2>4, <2>5 DEF RequestsOK
<1>5. ASSUME NEW block \in Blocks,
             estimate' = [e EXCEPT !.height = @ - 1, !.requests = @ + 1,
                            !.attempts = AttemptsAfter(@, block),
                            !.count = @ + Cardinality(Found(block)),
                            !.total = @ + SumFunctionOnSet(block, Found(block))],
             stage' = IF AttemptsAfter(e.attempts, block) > 0 THEN "blocks" ELSE "searched"
      PROVE  EstimateOK' /\ RequestsOK'
  <2> DEFINE n == Cardinality(Found(block))
             total == SumFunctionOnSet(block, Found(block))
             left == AttemptsAfter(e.attempts, block)
  <2>1. n \in Nat /\ total \in Nat /\ (Found(block) # {} => n >= 1)
    BY FoundFacts
  <2>2. left = (IF Found(block) = {} THEN e.attempts - 1 ELSE M) /\ left \in Int
    BY <1>0, <1>1 DEF AttemptsAfter
  <2> HIDE DEF n, total, left
  <2>3. estimate' = [height |-> e.height - 1, attempts |-> left, count |-> e.count + n,
                     total |-> e.total + total, requests |-> e.requests + 1]
    <3>1. estimate' = [e EXCEPT !.height = @ - 1, !.requests = @ + 1,
                         !.attempts = left, !.count = @ + n, !.total = @ + total]
      BY <1>5 DEF n, total, left
    <3> QED BY <1>1, <3>1, Zenon
  <2>4. EstimateOK'
    BY <1>1, <2>1, <2>2, <2>3 DEF EstimateOK
  <2>5. e.requests + 1 + left <= M * (e.count + n + 1)
    <3> HIDE DEF e, M
    <3>1. M * (e.count + 1) <= M * (e.count + n + 1)
      <4>1. e.count + 1 \in Nat /\ e.count + n + 1 \in Nat /\ e.count + 1 <= e.count + n + 1
        BY <1>1, <2>1
      <4> QED BY <1>0, <4>1, Times
    <3>2. M * (e.count + 1) \in Int /\ M * (e.count + n + 1) \in Int
      BY <1>0, <1>1, <2>1
    <3>3. CASE Found(block) = {}
      BY <1>1, <1>2, <2>2, <3>1, <3>2, <3>3
    <3>4. CASE Found(block) # {}
      <4>1. M * (e.count + 1 + 1) = M * (e.count + 1) + M
        BY <1>0, <1>1
      <4>2. M * (e.count + 1 + 1) <= M * (e.count + n + 1)
        <5>1. /\ e.count + 1 + 1 \in Nat /\ e.count + n + 1 \in Nat
              /\ e.count + 1 + 1 <= e.count + n + 1
          BY <1>1, <2>1, <3>4
        <5> QED BY <1>0, <5>1, Times
      <4> QED BY <1>0, <1>1, <1>2, <2>2, <3>2, <3>4, <4>1, <4>2
    <3> QED BY <3>3, <3>4
  <2>6. stage' = "blocks" => estimate'.attempts > 0
    BY <1>5, <2>3 DEF left
  <2>7. RequestsAreFew'
    BY <1>3, <2>3 DEF RequestsAreFew
  <2>8. estimate'.requests + estimate'.attempts <= M * (estimate'.count + 1)
    BY <2>3, <2>5
  <2> QED BY <2>4, <2>6, <2>7, <2>8 DEF RequestsOK
<1> QED BY <1>4, <1>5 DEF GetBlockByHeight
LEMMA EstimateKept ==
  ASSUME EstimateOK, RequestsOK, estimate' = estimate, stage' = "blocks" => stage = "blocks"
  PROVE  EstimateOK' /\ RequestsOK'
BY DEF EstimateOK, RequestsOK, RequestsAreFew

\* When the search is over its counters are gone.
LEMMA EstimateDone ==
  ASSUME estimate' = NoEstimate, stage' = "fetched"
  PROVE  EstimateOK' /\ RequestsOK'
<1>1. MaxAttempts \in Nat /\ Wanted \in Nat
  BY AptosAssumption
<1>2. 0 <= Wanted * MaxAttempts /\ 0 <= MaxAttempts * 1
  BY <1>1, 0 \in Nat, Times
<1> QED BY <1>2 DEF EstimateOK, RequestsOK, RequestsAreFew, NoEstimate

LEMMA EstimateInvariant ==
  ASSUME EstimateOK, RequestsOK, [Next]_vars
  PROVE  EstimateOK' /\ RequestsOK'
<1>1. CASE GetBlockByHeight
  BY <1>1, RequestKeeps
<1>2. CASE EstimateGas
  <2>1. CASE estimate' = estimate /\ stage' # "blocks"
    BY <2>1, EstimateKept
  <2>3. CASE estimate' = NoEstimate /\ stage' = "fetched"
    BY <2>3, EstimateDone
  <2>2. ASSUME NEW height \in Heights,
               estimate' = [NoEstimate EXCEPT !.height = height, !.attempts = MaxAttempts]
        PROVE  EstimateOK' /\ RequestsOK'
    <3>1. height \in Int /\ MaxAttempts \in Nat /\ MaxAttempts > 0 /\ Wanted \in Nat
      BY AptosAssumption
    <3>2. estimate' = [height |-> height, attempts |-> MaxAttempts, count |-> 0,
                       total |-> 0, requests |-> 0]
      BY <2>2 DEF NoEstimate
    <3>3. 0 <= Wanted * MaxAttempts
      BY <3>1, 0 \in Nat, Times
    <3> QED BY <3>1, <3>2, <3>3 DEF EstimateOK, RequestsOK, RequestsAreFew
  <2> QED BY <1>2, <2>1, <2>2, <2>3 DEF EstimateGas, Price, Fail, caller
<1>3. CASE LedgerInfo \/ GetAccount \/ SetPublicKey
  BY <1>3, EstimateKept DEF LedgerInfo, GetAccount, SetPublicKey, Fail, caller
<1>8. CASE AverageGas
  BY <1>8, EstimateDone DEF AverageGas, Price
<1>4. CASE \/ \E amt \in Amounts : NewTransfer(amt)
           \/ \E signature \in {"first", "second", "short"} : AddSignatures(signature)
  BY <1>4, EstimateKept DEF NewTransfer, AddSignatures
<1>5. CASE SubmitTx
  BY <1>5, EstimateKept DEF SubmitTx, caller
<1>6. CASE Execute \/ Drop \/ OtherTx \/ Tick
  BY <1>6, EstimateKept DEF Execute, Drop, OtherTx, Tick, caller
<1>7. CASE UNCHANGED vars
  BY <1>7, EstimateKept DEF vars
<1> QED BY <1>1, <1>2, <1>3, <1>4, <1>5, <1>6, <1>7, <1>8 DEF Next
-----------------------------------------------------------------------------
\* The rest of the invariant is about the transaction, and not the estimate.
TransferInv == TxOK /\ InputOK /\ SerializedOK /\ ChainOK /\ HashNamesWhatIsSent

\* What is built from the input stays so as more amounts are asked for.
LEMMA PaysMore ==
  ASSUME NEW raw, Pays(raw), asset' = asset, input'.sequence = input.sequence,
         asked' = asked \/ \E amt : asked' = asked \cup {amt}
  PROVE  Pays(raw)'
BY DEF Pays, IsToken

\* A step of FetchTxInput, before there is a transaction.
LEMMA FetchKeeps ==
  ASSUME TransferInv, UNCHANGED <<tx, asset, asked, chain, sent>>, stage # "fetched",
         input' = [sequence |-> input'.sequence, timestamp |-> input'.timestamp,
                   price |-> input'.price, pubkey |-> input'.pubkey],
         input'.sequence \in Nat
  PROVE  TransferInv'
BY DEF TransferInv, chain, TxOK, InputOK, SerializedOK, HashNamesWhatIsSent, Serializes, Bytes,
       ChainOK

\* A step that leaves the input's number, the transaction and the chain.
LEMMA LeftAsItIs ==
  ASSUME TransferInv, UNCHANGED <<tx, asset, asked, chain, sent, stage>>,
         input' = [sequence |-> input'.sequence, timestamp |-> input'.timestamp,
                   price |-> input'.price, pubkey |-> input'.pubkey],
         input'.sequence = input.sequence
  PROVE  TransferInv'
<1> USE DEF TransferInv, chain
<1>1. TxOK' /\ InputOK' /\ SerializedOK' /\ HashNamesWhatIsSent'
  BY DEF TxOK, InputOK, SerializedOK, HashNamesWhatIsSent, Serializes, Bytes
<1>2. \A raw : Pays(raw) => Pays(raw)'
  BY PaysMore
<1> QED BY <1>1, <1>2 DEF ChainOK

\* What is built from the input pays one of the amounts.
LEMMA BuiltPays ==
  ASSUME TransferInv, NEW amt \in Amounts, NewTransfer(amt)
  PROVE  TransferInv'
<1> DEFINE raw == RawTransaction(amt)
<1>1. /\ tx' = [raw |-> raw, pubkey |-> input.pubkey, signature |-> "", serialized |-> NoBytes]
      /\ UNCHANGED <<asset, input, chain, sent, stage>>
      /\ stage = "fetched" /\ asked' = asked \cup {amt}
  BY DEF NewTransfer, NoTx
<1>2. TxOK' /\ InputOK' /\ SerializedOK' /\ HashNamesWhatIsSent'
  <2> HIDE DEF raw
  <2>1. TxOK'
    BY <1>1 DEF TxOK
  <2>2. SerializedOK'
    <3>1. tx'.signature = ""
      BY <1>1
    <3> QED BY <3>1 DEF SerializedOK, Serializes
  <2>3. InputOK' /\ HashNamesWhatIsSent'
    BY <1>1 DEF TransferInv, InputOK, HashNamesWhatIsSent, chain
  <2> QED BY <2>1, <2>2, <2>3
<1>3. amt \in Nat /\ 2^IntBits \in Int
  BY AptosAssumption
<1>4. amt < 2^IntBits => Uint64(amt) = amt
  BY <1>3 DEF Uint64
<1>5. Pays(tx.raw)'
  <2>1. raw.sequence = input.sequence /\ raw.payload.amount = Uint64(amt)
    BY DEF RawTransaction, TokenPayload, NativePayload
  <2>2. raw.payload.coin = IF IsToken THEN asset.contract ELSE APT
    BY DEF RawTransaction, IsToken, TokenPayload, NativePayload, Contract
  <2> HIDE DEF raw
  <2>3. tx'.raw = raw
    BY <1>1
  <2> QED BY <1>1, <1>4, <2>1, <2>2, <2>3 DEF Pays, IsToken
<1>6. ChainOK'
  <2>1. \A r : Pays(r) => Pays(r)'
    BY <1>1, PaysMore
  <2>2. UNCHANGED <<stage, pool, ran, sequence>> /\ input' = input /\ stage = "fetched"
    BY <1>1 DEF chain
  <2> QED BY <1>5, <2>1, <2>2 DEF TransferInv, ChainOK
<1> QED BY <1>2, <1>6 DEF TransferInv

LEMMA SigningKeeps ==
  ASSUME TransferInv, NEW signature \in {"first", "second", "short"}, AddSignatures(signature)
  PROVE  TransferInv'
<1> DEFINE t == [tx EXCEPT !.signature = signature]
<1>1. t = [raw |-> tx.raw, pubkey |-> tx.pubkey, signature |-> signature,
           serialized |-> tx.serialized]
  BY DEF TransferInv, TxOK
<1>2. /\ tx' = IF Serializes(t) THEN [t EXCEPT !.serialized = Kept(t)] ELSE t
      /\ stage = "fetched" /\ tx # NoTx
      /\ UNCHANGED <<asset, stage, input, asked, chain, sent>>
  BY DEF AddSignatures, Built
<1> HIDE DEF t
<1>3. TxOK' /\ SerializedOK' /\ tx'.raw = tx.raw
  <2>1. CASE Serializes(t)
    <3> DEFINE bytes == <<tx.raw, signature>>
    <3>1. tx' = [raw |-> tx.raw, pubkey |-> tx.pubkey, signature |-> signature,
                 serialized |-> bytes]
      BY <1>1, <1>2, <2>1 DEF Kept, Bytes
    <3>2. tx'.raw = tx.raw /\ tx'.signature = signature /\ tx'.serialized = bytes /\ TxOK'
      <4> HIDE DEF bytes
      <4> QED BY <3>1 DEF TxOK
    <3> QED BY <3>2 DEF SerializedOK, Bytes
  <2>2. CASE ~Serializes(t)
    BY <1>1, <1>2, <2>2 DEF TxOK, SerializedOK
  <2> QED BY <2>1, <2>2
<1>4. InputOK' /\ HashNamesWhatIsSent'
  BY <1>2 DEF TransferInv, InputOK, HashNamesWhatIsSent, chain
<1>5. ChainOK'
  <2>1. \A raw : Pays(raw) => Pays(raw)'
    BY <1>2, PaysMore
  <2> QED BY <1>2, <1>3, <2>1 DEF TransferInv, ChainOK, chain
<1> QED BY <1>3, <1>4, <1>5 DEF TransferInv

LEMMA SubmittingKeeps ==
  ASSUME TransferInv, SubmitTx
  PROVE  TransferInv'
<1> USE DEF TransferInv, SubmitTx, caller, chain
<1>1. TxOK' /\ InputOK' /\ SerializedOK'
  BY DEF TxOK, InputOK, SerializedOK, Serializes, Bytes
<1>2. HashNamesWhatIsSent'
  <2>1. Hash(tx) = Bytes(tx)
    BY DEF SerializedOK, Hash
  <2> QED BY <2>1 DEF HashNamesWhatIsSent
<1>3. ChainOK'
  <2>1. \A raw : Pays(raw) => Pays(raw)'
    BY PaysMore
  <2>2. /\ pool' \subseteq pool \cup {Bytes(tx)} /\ UNCHANGED <<tx, ran, stage, sequence, input>>
        /\ stage = "fetched"
    BY DEF Built
  <2>3. Bytes(tx)[1] = tx.raw /\ Pays(tx.raw)
    BY DEF Built, Bytes, ChainOK
  <2> QED BY <2>1, <2>2, <2>3 DEF ChainOK
<1> QED BY <1>1, <1>2, <1>3

\* A transaction runs at the account's number, which is past the input's from
\* then on.
LEMMA ChainKeeps ==
  ASSUME TransferInv, Execute \/ Drop \/ OtherTx \/ Tick
  PROVE  TransferInv'
<1> USE DEF TransferInv, Execute, Drop, OtherTx, Tick, caller, chain
<1>1. sequence' \in Nat /\ sequence' >= sequence
  BY DEF InputOK
<1>2. TxOK' /\ InputOK' /\ SerializedOK' /\ HashNamesWhatIsSent'
  BY <1>1 DEF TxOK, InputOK, SerializedOK, HashNamesWhatIsSent, Serializes, Bytes
<1>3. UNCHANGED <<asset, input, asked, tx, stage>>
  OBVIOUS
<1>4. \A raw : Pays(raw) => Pays(raw)'
  BY <1>3, PaysMore
<1>5. input.sequence < sequence => input'.sequence < sequence'
  BY <1>1, <1>3 DEF InputOK
<1>6. ASSUME Drop \/ OtherTx \/ Tick PROVE ChainOK'
  <2>1. pool' \subseteq pool /\ ran' = ran
    BY <1>6
  <2> QED BY <1>3, <1>4, <1>5, <2>1 DEF ChainOK
<1>7. ASSUME Execute PROVE ChainOK'
  <2>1. PICK signed \in pool : /\ signed[1].sequence = sequence
                               /\ ran' = Append(ran, signed) /\ pool' = pool
                               /\ sequence' = sequence + 1
    BY <1>7
  <2>2. Pays(signed[1]) /\ input.sequence = sequence
    BY <2>1 DEF ChainOK, Pays
  <2>3. ran = <<>> /\ stage = "fetched"
    BY <2>1, <2>2 DEF ChainOK, InputOK
  <2>4. ran' = <<signed>>
    BY <2>1, <2>3
  <2>5. input'.sequence < sequence'
    BY <1>3, <2>1, <2>2 DEF InputOK
  <2> QED BY <1>3, <1>4, <2>1, <2>2, <2>3, <2>4, <2>5 DEF ChainOK
<1> QED BY <1>2, <1>6, <1>7
-----------------------------------------------------------------------------
IInv == EstimateOK /\ RequestsOK /\ TransferInv

LEMMA IInvInit == Init => IInv
<1> SUFFICES ASSUME Init PROVE IInv
  OBVIOUS
<1> USE DEF Init
<1>1. MaxAttempts \in Nat /\ Wanted \in Nat
  BY AptosAssumption
<1>2. 0 <= Wanted * MaxAttempts /\ 0 <= MaxAttempts * 1
  BY <1>1, 0 \in Nat, Times
<1>3. EstimateOK /\ RequestsOK
  BY <1>2 DEF EstimateOK, RequestsOK, RequestsAreFew, NoEstimate
<1>4. TxOK /\ InputOK /\ SerializedOK
  BY DEF TxOK, InputOK, SerializedOK, Serializes, NoTx, NoInput
<1>5. ChainOK /\ HashNamesWhatIsSent
  BY DEF ChainOK, HashNamesWhatIsSent
<1> QED BY <1>3, <1>4, <1>5 DEF IInv, TransferInv

LEMMA TransferInvariant ==
  ASSUME TransferInv, [Next]_vars
  PROVE  TransferInv'
<1> DEFINE fields(in) == [sequence |-> in.sequence, timestamp |-> in.timestamp,
                          price |-> in.price, pubkey |-> in.pubkey]
<1>1. input = fields(input) /\ input.sequence \in Nat /\ sequence \in Nat
  BY DEF TransferInv, InputOK
<1>2. CASE LedgerInfo
  <2>1. /\ UNCHANGED <<tx, asset, asked, chain, sent>> /\ stage # "fetched"
        /\ input' = input \/ input' = [NoInput EXCEPT !.timestamp = now]
    BY <1>2 DEF LedgerInfo, Fail, caller
  <2>2. input' = fields(input') /\ input'.sequence \in Nat
    BY <1>1, <2>1 DEF NoInput
  <2> QED BY <2>1, <2>2, FetchKeeps
<1>3. CASE GetAccount
  <2>1. /\ UNCHANGED <<tx, asset, asked, chain, sent>> /\ stage # "fetched"
        /\ input' = input \/ input' = [input EXCEPT !.sequence = sequence]
    BY <1>3 DEF GetAccount, Fail, caller
  <2>2. input' = fields(input') /\ input'.sequence \in Nat
    BY <1>1, <2>1
  <2> QED BY <2>1, <2>2, FetchKeeps
<1>4. CASE EstimateGas \/ AverageGas
  <2>1. /\ UNCHANGED <<tx, asset, asked, chain, sent>> /\ stage # "fetched"
        /\ input' = input \/ \E price : input' = [input EXCEPT !.price = price]
    BY <1>4 DEF EstimateGas, AverageGas, Price, Fail, caller
  <2>2. input' = fields(input') /\ input'.sequence \in Nat
    BY <1>1, <2>1
  <2> QED BY <2>1, <2>2, FetchKeeps
<1>5. CASE GetBlockByHeight
  <2>1. UNCHANGED <<tx, asset, asked, chain, sent, input>> /\ stage # "fetched"
    BY <1>5 DEF GetBlockByHeight
  <2> QED BY <1>1, <2>1, FetchKeeps
<1>6. CASE SetPublicKey
  <2>1. UNCHANGED <<tx, asset, asked, chain, sent, stage>>
    BY <1>6 DEF SetPublicKey
  <2>2. input' = fields(input') /\ input'.sequence = input.sequence
    BY <1>1, <1>6 DEF SetPublicKey
  <2> QED BY <2>1, <2>2, LeftAsItIs
<1>7. CASE UNCHANGED vars
  <2>1. UNCHANGED <<tx, asset, asked, chain, sent, stage, input>>
    BY <1>7 DEF vars, chain
  <2> QED BY <1>1, <2>1, LeftAsItIs
<1>8. CASE \E amt \in Amounts : NewTransfer(amt)
  BY <1>8, BuiltPays
<1>9. CASE \E signature \in {"first", "second", "short"} : AddSignatures(signature)
  BY <1>9, SigningKeeps
<1>10. CASE SubmitTx
  BY <1>10, SubmittingKeeps
<1>11. CASE Execute \/ Drop \/ OtherTx \/ Tick
  BY <1>11, ChainKeeps
<1> QED BY <1>2, <1>3, <1>4, <1>5, <1>6, <1>7, <1>8, <1>9, <1>10, <1>11 DEF Next

LEMMA IInvInvariant == Spec => []IInv
<1>1. IInv /\ [Next]_vars => IInv'
  BY EstimateInvariant, TransferInvariant DEF IInv
<1> QED BY IInvInit, <1>1, PTL DEF Spec

\* EstimateGas makes no more than Wanted * MaxAttempts requests, whatever the
\* node has and however high the chain is.
THEOREM EstimateGasEnds == Spec => []RequestsAreFew
<1>1. IInv => RequestsAreFew
  BY DEF IInv, RequestsOK
<1> QED BY <1>1, IInvInvariant, PTL

\* Whatever is submitted has the hash that Hash gave for it, however often
\* and with whatever errors it was signed.
THEOREM HashesAreOfWhatIsSent == Spec => []HashNamesWhatIsSent
<1>1. IInv => HashNamesWhatIsSent
  BY DEF IInv, TransferInv
<1> QED BY <1>1, IInvInvariant, PTL

\* Of the transactions that are built from one input one is executed at most,
\* however often they are built, signed and submitted, also after that, and it
\* moves the coin and, where it fits, one of the amounts that were asked for.
THEOREM TransferPaysOnce == Spec => []PaidOnce
<1>1. ASSUME IInv PROVE PaidOnce
  <2>1. CASE ran = <<>>
    BY <2>1 DEF PaidOnce
  <2>2. CASE ran # <<>>
    <3>1. PICK signed : ran = <<signed>> /\ Pays(signed[1])
      BY <1>1, <2>2 DEF IInv, TransferInv, ChainOK
    <3>2. Len(ran) = 1 /\ DOMAIN ran = {1} /\ ran[1] = signed
      BY <3>1
    <3> QED BY <3>1, <3>2 DEF PaidOnce, Pays
  <2> QED BY <2>1, <2>2
<1> QED BY <1>1, IInvInvariant, PTL
=============================================================================
