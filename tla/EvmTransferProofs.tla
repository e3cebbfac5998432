------------------------- MODULE EvmTransferProofs -------------------------
(***************************************************************************)
(* For any number of transfers, any fees and any losses: nobody is paid    *)
(* more than he was to be, and what callers are told is true.              *)
(***************************************************************************)
EXTENDS EvmTransfer, Facts

InputOK == input \in [Transfers -> [nonce : Nat, tip : Nat, cap : Nat]]

\* A transaction, once built, is for its transfer's order.
TxOK ==
  \A t \in Transfers : pc[t] \in {"built", "signed"} =>
    /\ tx[t].nonce \in Nat /\ tx[t].tip \in Nat /\ tx[t].cap \in Nat
    /\ tx[t].to = order[t].to /\ tx[t].amount = order[t].amount

FunctionsOK ==
  /\ pc = [t \in Transfers |-> pc[t]] /\ tx = [t \in Transfers |-> tx[t]]
  /\ result = [t \in Transfers |-> result[t]]
  /\ \A t \in Transfers : result[t] # "none" => pc[t] = "signed"

Undecided == {"ok", "TransactionExists", "NetworkError", "UnknownError"}

\* t's transaction is x, and t will not begin anew.
Owns(t, x) == pc[t] = "signed" /\ tx[t] = x /\ result[t] \in Undecided

OwnersOK == \A x \in pool \cup mined : \E t \in Transfers : Owns(t, x)

NoncesOK ==
  /\ nonce \in Nat
  /\ \A x \in mined : x.nonce < nonce
  /\ \A x \in pool : x.nonce >= nonce
  /\ \A x, y \in pool : x.nonce = y.nonce => x = y

\* Every transaction of a chain with dynamic fees has the same tip.
TipsOK ==
  ~asset.legacy =>
    /\ \A t \in Transfers :
         /\ pc[t] \in {"gas", "fetched"} => input[t].tip = GasTipCap
         /\ pc[t] \in {"built", "signed"} => tx[t].tip = GasTipCap
    /\ \A x \in pool : x.tip = GasTipCap

\* Who was told that his transaction is there.
KeptOK ==
  ~asset.legacy =>
    \A t \in Transfers :
      result[t] \in {"ok", "TransactionExists"} => tx[t] \in pool \cup mined

IInv ==
  /\ asset \in Assets /\ order \in [Transfers -> Orders] /\ base \in BaseFees
  /\ InputOK /\ TxOK /\ FunctionsOK /\ OwnersOK /\ NoncesOK /\ TipsOK /\ KeptOK
-----------------------------------------------------------------------------
LEMMA TipType == asset \in Assets => GasTipCap \in Nat
BY AssetAssumption DEF GasTipCap, AssetType

LEMMA EstimateType ==
  ASSUME NEW fee \in Nat
  PROVE  Estimate(fee) \in Nat
<1>1. DefaultPrice \in Nat /\ DefaultTip \in Nat /\ Multiplier \in Nat
  BY AssetAssumption
<1> DEFINE n == (IF fee < DefaultPrice THEN DefaultPrice ELSE fee) + DefaultTip
<1>2. n \in Nat
  BY <1>1
<1> HIDE DEF n
<1>3. n * Multiplier \in Nat
  BY <1>1, <1>2
<1> QED BY <1>3 DEF Estimate, n

LEMMA IInvInit == Init => IInv
<1> SUFFICES ASSUME Init PROVE IInv
  OBVIOUS
<1> USE DEF Init
<1>1. InputOK
  BY DEF InputOK, NoInput
<1>2. TxOK /\ FunctionsOK
  BY DEF TxOK, FunctionsOK
<1>3. OwnersOK /\ NoncesOK /\ TipsOK /\ KeptOK
  BY DEF OwnersOK, NoncesOK, TipsOK, KeptOK
<1> QED BY <1>1, <1>2, <1>3 DEF IInv

\* A step of a caller that owns nothing, and does not after it.
LEMMA CallerKeeps ==
  ASSUME IInv, NEW t \in Transfers,
         UNCHANGED <<asset, order, chain>>,
         ~ (pc[t] = "signed" /\ result[t] \in Undecided),
         InputOK', TxOK', FunctionsOK',
         \A u \in Transfers \ {t} :
           pc'[u] = pc[u] /\ input'[u] = input[u] /\ tx'[u] = tx[u] /\ result'[u] = result[u],
         result'[t] \notin {"ok", "TransactionExists"},
         pc'[t] \in {"gas", "fetched"} /\ ~asset.legacy => input'[t].tip = GasTipCap,
         pc'[t] \in {"built", "signed"} /\ ~asset.legacy => tx'[t].tip = GasTipCap
  PROVE  IInv'
<1>1. asset' = asset /\ order' = order /\ base' = base /\ nonce' = nonce /\ pool' = pool /\ mined' = mined
  BY DEF chain
<1>2. OwnersOK'
  <2> SUFFICES ASSUME NEW x \in pool \cup mined PROVE \E u \in Transfers : Owns(u, x)'
    BY <1>1 DEF OwnersOK
  <2>1. PICK u \in Transfers : Owns(u, x)
    BY DEF IInv, OwnersOK
  <2>2. u # t
    BY <2>1 DEF Owns
  <2> QED BY <2>1, <2>2 DEF Owns
<1>3. NoncesOK'
  BY <1>1 DEF IInv, NoncesOK
<1>4. TipsOK'
  <2> SUFFICES ASSUME ~asset.legacy PROVE TipsOK'
    BY <1>1 DEF TipsOK
  <2>1. GasTipCap' = GasTipCap
    BY <1>1 DEF GasTipCap
  <2>2. \A u \in Transfers \ {t} :
         /\ pc'[u] \in {"gas", "fetched"} => input'[u].tip = GasTipCap
         /\ pc'[u] \in {"built", "signed"} => tx'[u].tip = GasTipCap
    BY DEF IInv, TipsOK
  <2>3. \A x \in pool' : x.tip = GasTipCap
    BY <1>1 DEF IInv, TipsOK
  <2> QED BY <2>1, <2>2, <2>3 DEF TipsOK
<1>5. KeptOK'
  BY <1>1 DEF IInv, KeptOK
<1> QED BY <1>1, <1>2, <1>3, <1>4, <1>5 DEF IInv

LEMMA FetchNonceKeeps ==
  ASSUME IInv, NEW t \in Transfers, FetchNonce(t)
  PROVE  IInv'
<1>1. /\ input' = [input EXCEPT ![t] = [nonce |-> nonce, tip |-> GasTipCap, cap |-> 0]]
      /\ pc[t] = "start" /\ pc' = [pc EXCEPT ![t] = "gas"]
      /\ UNCHANGED <<asset, order, tx, result, chain>>
  BY DEF FetchNonce, NonceAt
<1>2. InputOK'
  BY <1>1, TipType DEF IInv, InputOK, NoncesOK
<1>3. TxOK' /\ FunctionsOK'
  BY <1>1 DEF IInv, TxOK, FunctionsOK
<1>4. input'[t].tip = GasTipCap /\ pc'[t] = "gas" /\ result'[t] = "none"
  BY <1>1 DEF IInv, InputOK, FunctionsOK
<1> QED BY <1>1, <1>2, <1>3, <1>4, CallerKeeps

LEMMA FetchGasKeeps ==
  ASSUME IInv, NEW t \in Transfers, FetchGas(t)
  PROVE  IInv'
<1>1. /\ input' = input \/ \E cap \in Nat : input' = [input EXCEPT ![t].cap = cap]
      /\ pc[t] = "gas" /\ pc' = [pc EXCEPT ![t] = "fetched"]
      /\ UNCHANGED <<asset, order, tx, result, chain>>
  <2>1. base \in Nat /\ CallbackFees \subseteq Nat
    BY AssetAssumption DEF IInv
  <2>2. \A fee \in {base, 0} : Estimate(fee) \in Nat
    BY <2>1, EstimateType
  <2> QED BY <2>1, <2>2 DEF FetchGas
<1>2. InputOK' /\ input'[t].tip = input[t].tip
  BY <1>1 DEF IInv, InputOK
<1>3. TxOK' /\ FunctionsOK'
  BY <1>1 DEF IInv, TxOK, FunctionsOK
<1>4. pc'[t] = "fetched" /\ result'[t] = "none" /\ (~asset.legacy => input[t].tip = GasTipCap)
  BY <1>1 DEF IInv, FunctionsOK, TipsOK
<1>5. \A u \in Transfers \ {t} : pc'[u] = pc[u] /\ input'[u] = input[u]
  BY <1>1 DEF IInv, InputOK, FunctionsOK
<1> QED BY <1>1, <1>2, <1>3, <1>4, <1>5, CallerKeeps

LEMMA NewTransferKeeps ==
  ASSUME IInv, NEW t \in Transfers, NewNativeTransfer(t)
  PROVE  IInv'
<1>1. /\ tx' = [tx EXCEPT ![t] = Built(t)]
      /\ pc[t] = "fetched" /\ pc' = [pc EXCEPT ![t] = "built"]
      /\ UNCHANGED <<asset, order, input, result, chain>>
  BY DEF NewNativeTransfer
<1>2. /\ Built(t).nonce \in Nat /\ Built(t).tip \in Nat /\ Built(t).cap \in Nat
      /\ Built(t).to = order[t].to
      /\ Built(t).amount = order[t].amount
      /\ ~asset.legacy => Built(t).tip = GasTipCap
  BY <1>1 DEF IInv, Built, InputOK, TipsOK
<1>3. tx'[t] = Built(t) /\ pc'[t] = "built" /\ result'[t] = "none"
  BY <1>1 DEF IInv, FunctionsOK
<1>4. \A u \in Transfers \ {t} : pc'[u] = pc[u] /\ tx'[u] = tx[u]
  BY <1>1 DEF IInv, FunctionsOK
<1>5. TxOK'
  BY <1>1, <1>2, <1>3, <1>4 DEF IInv, TxOK
<1>6. FunctionsOK' /\ InputOK'
  BY <1>1 DEF IInv, FunctionsOK, InputOK
<1> QED BY <1>1, <1>2, <1>3, <1>4, <1>5, <1>6, CallerKeeps

LEMMA AddSignaturesKeeps ==
  ASSUME IInv, NEW t \in Transfers, AddSignatures(t)
  PROVE  IInv'
<1>1. /\ pc[t] = "built" /\ pc' = [pc EXCEPT ![t] = "signed"]
      /\ UNCHANGED <<asset, order, input, tx, result, chain>>
  BY DEF AddSignatures
<1>2. pc'[t] = "signed" /\ result'[t] = "none" /\ (~asset.legacy => tx[t].tip = GasTipCap)
  BY <1>1 DEF IInv, FunctionsOK, TipsOK
<1>3. TxOK' /\ FunctionsOK' /\ InputOK'
  BY <1>1 DEF IInv, TxOK, FunctionsOK, InputOK
<1> QED BY <1>1, <1>2, <1>3, CallerKeeps

LEMMA RestartKeeps ==
  ASSUME IInv, NEW t \in Transfers, Restart(t)
  PROVE  IInv'
<1>1. /\ pc[t] # "signed" \/ result[t] \in {"none"} \cup Terminal
      /\ pc' = [pc EXCEPT ![t] = "start"]
      /\ input' = [input EXCEPT ![t] = NoInput]
      /\ tx' = [tx EXCEPT ![t] = NoTx]
      /\ result' = [result EXCEPT ![t] = "none"]
      /\ UNCHANGED <<asset, order, chain>>
  BY DEF Restart
<1>2. ~ (pc[t] = "signed" /\ result[t] \in Undecided)
  BY <1>1 DEF Terminal, Undecided
<1>3. pc'[t] = "start" /\ result'[t] = "none"
  BY <1>1 DEF IInv, FunctionsOK
<1>4. \A u \in Transfers \ {t} :
       pc'[u] = pc[u] /\ input'[u] = input[u] /\ tx'[u] = tx[u] /\ result'[u] = result[u]
  BY <1>1 DEF IInv, FunctionsOK, InputOK
<1>5. TxOK' /\ FunctionsOK'
  BY <1>1 DEF IInv, TxOK, FunctionsOK
<1>6. InputOK'
  BY <1>1 DEF IInv, InputOK, NoInput
<1> QED BY <1>1, <1>2, <1>3, <1>4, <1>5, <1>6, CallerKeeps
-----------------------------------------------------------------------------
LEMMA VerdictFacts ==
  ASSUME NEW x, x.nonce \in Nat, x.tip \in Nat, x.cap \in Nat, nonce \in Nat
  PROVE  /\ Verdict(x) = "already known" => x \in pool
         /\ Verdict(x) = "accepted" => x.nonce >= nonce /\ Outbids(x)
         /\ Verdict(x) \in {"insufficient funds for transfer",
                            "insufficient funds for gas * price + value"} =>
              x \notin pool /\ x.nonce >= nonce
<1>1. CASE x \in pool
  BY <1>1 DEF Verdict
<1>2. CASE x \notin pool /\ x.tip > x.cap
  BY <1>2 DEF Verdict
<1>3. CASE x \notin pool /\ ~ (x.tip > x.cap) /\ x.tip <= x.cap /\ x.nonce < nonce
  BY <1>3 DEF Verdict
<1>4. CASE x \notin pool /\ ~ (x.tip > x.cap) /\ ~ (x.tip <= x.cap /\ x.nonce < nonce)
  BY <1>4 DEF Verdict
<1> QED BY <1>1, <1>2, <1>3, <1>4
\* What an attempt to submit may change, and what its caller may then be told.
LEMMA SubmitFacts ==
  ASSUME IInv, NEW t \in Transfers, SubmitTx(t)
  PROVE  /\ pc[t] = "signed"
         /\ \/ pool' = pool
            \/ /\ pool' = (pool \ Rivals(tx[t])) \cup {tx[t]}
               /\ tx[t].nonce >= nonce /\ Outbids(tx[t])
         /\ \E r \in Undecided \cup Terminal :
              /\ result' = [result EXCEPT ![t] = r]
              /\ r \in {"ok", "TransactionExists"} => tx[t] \in pool'
              /\ r \in Terminal => pool' = pool /\ tx[t] \notin pool /\ tx[t].nonce >= nonce
         /\ UNCHANGED <<asset, order, pc, input, tx, nonce, mined, base>>
<1> DEFINE x == tx[t]
<1>1. pc[t] = "signed" /\ UNCHANGED <<asset, order, pc, input, tx, nonce, mined, base>>
  BY DEF SubmitTx, Answered, Lost, MaySubmit
<1>2. /\ Verdict(x) = "already known" => x \in pool
      /\ Verdict(x) = "accepted" => x.nonce >= nonce /\ Outbids(x)
      /\ Verdict(x) \in {"insufficient funds for transfer",
                         "insufficient funds for gas * price + value"} =>
           x \notin pool /\ x.nonce >= nonce
  BY <1>1, VerdictFacts DEF IInv, TxOK, NoncesOK
<1> HIDE DEF x
<1>3. Receive(x) => pool' = IF Verdict(x) = "accepted" THEN (pool \ Rivals(x)) \cup {x} ELSE pool
  BY DEF Receive
<1>4. CASE Answered(t)
  <2>1. PICK answer \in Answers(x) :
          result' = [result EXCEPT ![t] = IF answer = "accepted" THEN "ok" ELSE CheckError(answer)]
    BY <1>4 DEF Answered, x
  <2>2. Receive(x)
    BY <1>4 DEF Answered, x
  <2>3. \/ answer = Verdict(x)
        \/ answer = "transaction underpriced" /\ Verdict(x) = "accepted"
    BY <2>1 DEF Answers
  <2> DEFINE r == IF answer = "accepted" THEN "ok" ELSE CheckError(answer)
  <2>4. r \in Undecided \cup Terminal
    BY DEF CheckError, Undecided, Terminal
  <2>5. r \in {"ok", "TransactionExists"} => x \in pool'
    <3>1. r = "ok" => answer = "accepted"
      BY DEF CheckError
    <3>2. r = "TransactionExists" => answer = "already known"
      BY DEF CheckError
    <3> QED BY <1>2, <1>3, <2>2, <2>3, <3>1, <3>2
  <2>6. r \in Terminal => pool' = pool /\ x \notin pool /\ x.nonce >= nonce
    <3>1. r \in Terminal => answer \in {"insufficient funds for transfer",
                                        "insufficient funds for gas * price + value"}
      BY DEF CheckError, Terminal
    <3> QED BY <1>2, <1>3, <2>2, <2>3, <3>1
  <2> HIDE DEF r
  <2> QED BY <1>1, <1>2, <1>3, <2>1, <2>2, <2>4, <2>5, <2>6 DEF x, r
<1>5. CASE Lost(t)
  <2>1. PICK error \in {"eof", "timeout"} : result' = [result EXCEPT ![t] = CheckError(error)]
    BY <1>5 DEF Lost
  <2>2. Receive(x) \/ pool' = pool
    BY <1>5 DEF Lost, x
  <2>3. CheckError(error) \in {"NetworkError", "UnknownError"}
    BY <2>1 DEF CheckError
  <2> QED BY <1>1, <1>2, <1>3, <2>1, <2>2, <2>3 DEF x, Undecided, Terminal
<1> QED BY <1>4, <1>5 DEF SubmitTx

LEMMA SubmitKeeps ==
  ASSUME IInv, NEW t \in Transfers, SubmitTx(t)
  PROVE  IInv'
<1> DEFINE x == tx[t]
<1>1. /\ pc[t] = "signed"
      /\ UNCHANGED <<asset, order, pc, input, tx, nonce, mined, base>>
      /\ \/ pool' = pool
         \/ pool' = (pool \ Rivals(x)) \cup {x} /\ x.nonce >= nonce /\ Outbids(x)
  BY SubmitFacts
<1>2. PICK r \in Undecided \cup Terminal :
        /\ result' = [result EXCEPT ![t] = r]
        /\ r \in {"ok", "TransactionExists"} => x \in pool'
        /\ r \in Terminal => pool' = pool /\ x \notin pool /\ x.nonce >= nonce
  BY SubmitFacts
<1>3. result'[t] = r /\ \A u \in Transfers \ {t} : result'[u] = result[u]
  BY <1>2 DEF IInv, FunctionsOK
<1>4. InputOK' /\ TxOK' /\ FunctionsOK'
  BY <1>1, <1>2, <1>3 DEF IInv, InputOK, TxOK, FunctionsOK
<1>5. OwnersOK'
  <2> SUFFICES ASSUME NEW y \in pool' \cup mined PROVE \E u \in Transfers : Owns(u, y)'
    BY <1>1 DEF OwnersOK
  <2>1. CASE y \notin pool \cup mined
    <3>1. y = x /\ r \in Undecided
      BY <1>1, <1>2, <2>1
    <3> QED BY <1>1, <1>3, <3>1 DEF Owns
  <2>2. CASE y \in pool \cup mined
    <3>1. PICK u \in Transfers : Owns(u, y)
      BY <2>2 DEF IInv, OwnersOK
    <3>2. CASE u # t
      BY <1>1, <1>3, <3>1, <3>2 DEF Owns
    <3>3. CASE u = t
      <4>1. y = x /\ x.nonce \in Nat
        BY <1>1, <3>1, <3>3 DEF Owns, IInv, TxOK
      <4>2. r \in Undecided
        BY <1>2, <2>2, <4>1 DEF IInv, NoncesOK
      <4> QED BY <1>1, <1>3, <4>1, <4>2 DEF Owns
    <3> QED BY <3>2, <3>3
  <2> QED BY <2>1, <2>2
<1>6. NoncesOK'
  BY <1>1 DEF IInv, NoncesOK, Rivals
<1>7. TipsOK'
  <2> SUFFICES ASSUME ~asset.legacy PROVE TipsOK'
    BY <1>1 DEF TipsOK
  <2>1. GasTipCap' = GasTipCap /\ x.tip = GasTipCap
    BY <1>1 DEF GasTipCap, IInv, TipsOK
  <2> QED BY <1>1, <2>1 DEF IInv, TipsOK
<1>8. KeptOK'
  <2> SUFFICES ASSUME ~asset.legacy PROVE KeptOK'
    BY <1>1 DEF KeptOK
  <2>1. pool \subseteq pool'
    <3> SUFFICES ASSUME NEW y \in Rivals(x), Outbids(x) PROVE FALSE
      BY <1>1
    <3>1. y.tip = GasTipCap /\ x.tip = GasTipCap /\ GasTipCap \in Nat
      BY <1>1, TipType DEF Rivals, IInv, TipsOK
    <3> QED BY <3>1 DEF Outbids
  <2> QED BY <1>1, <1>2, <1>3, <2>1 DEF IInv, KeptOK
<1> QED BY <1>1, <1>4, <1>5, <1>6, <1>7, <1>8 DEF IInv

\* A mined transaction puts out of the mempool only those with its nonce, and
\* there is none but itself.
LEMMA MineKeeps ==
  ASSUME IInv, NEW x \in pool, Mine(x)
  PROVE  IInv'
<1>1. /\ x.nonce = nonce /\ nonce' = nonce + 1 /\ mined' = mined \cup {x}
      /\ pool' = { y \in pool : y.nonce > nonce }
      /\ UNCHANGED <<asset, order, pc, input, tx, result, base>>
  BY DEF Mine, caller
<1>2. InputOK' /\ TxOK' /\ FunctionsOK'
  BY <1>1 DEF IInv, InputOK, TxOK, FunctionsOK
<1>3. pool' \cup mined' \subseteq pool \cup mined
  BY <1>1
<1>4. OwnersOK'
  BY <1>1, <1>3 DEF IInv, OwnersOK, Owns
<1>5. \A y \in pool : y.nonce \in Nat
  BY DEF IInv, OwnersOK, Owns, TxOK
<1>6. \A y \in mined : y.nonce \in Nat
  BY DEF IInv, OwnersOK, Owns, TxOK
<1>7. NoncesOK'
  BY <1>1, <1>5, <1>6 DEF IInv, NoncesOK
<1>8. pool \cup mined \subseteq pool' \cup mined'
  BY <1>1, <1>5 DEF IInv, NoncesOK
<1>9. TipsOK' /\ KeptOK'
  BY <1>1, <1>8 DEF IInv, TipsOK, KeptOK, GasTipCap
<1> QED BY <1>1, <1>2, <1>4, <1>7, <1>9 DEF IInv

LEMMA OthersKeep ==
  ASSUME IInv, FeeMoves \/ Deposit \/ UNCHANGED vars
  PROVE  IInv'
<1>1. base' \in BaseFees /\ UNCHANGED <<asset, order, pc, input, tx, result, nonce, pool, mined>>
  BY DEF FeeMoves, Deposit, vars, caller, chain, IInv
<1>2. InputOK' /\ TxOK' /\ FunctionsOK' /\ OwnersOK' /\ NoncesOK' /\ TipsOK' /\ KeptOK'
  BY <1>1 DEF IInv, InputOK, TxOK, FunctionsOK, OwnersOK, Owns, NoncesOK, TipsOK, KeptOK, GasTipCap
<1> QED BY <1>1, <1>2 DEF IInv

LEMMA IInvInvariant == Spec => []IInv
<1>1. ASSUME IInv, [Next]_vars PROVE IInv'
  <2>1. ASSUME NEW t \in Transfers,
               \/ FetchNonce(t) \/ FetchGas(t) \/ NewNativeTransfer(t)
               \/ AddSignatures(t) \/ SubmitTx(t) \/ Restart(t)
        PROVE  IInv'
    BY <1>1, <2>1, FetchNonceKeeps, FetchGasKeeps, NewTransferKeeps, AddSignaturesKeeps,
       SubmitKeeps, RestartKeeps
  <2> QED BY <1>1, <2>1, MineKeeps, OthersKeep DEF Next
<1> QED BY IInvInit, <1>1, PTL DEF Spec
-----------------------------------------------------------------------------
\* A transaction on the chain or in the mempool belongs to a transfer whose
\* caller was not told that it failed, and what a caller was told is there
\* stays there.
THEOREM ResultsStayTrue == Spec => []ResultsAreTrue
<1>1. ASSUME IInv PROVE ResultsAreTrue
  <2> SUFFICES ASSUME NEW t \in Transfers,
                      result[t] \in Terminal, \A u \in Transfers \ {t} : tx[u] # tx[t],
                      tx[t] \in pool \cup mined
               PROVE  FALSE
    BY <1>1 DEF ResultsAreTrue, IInv, KeptOK
  <2>1. PICK u \in Transfers : Owns(u, tx[t])
    BY <1>1 DEF IInv, OwnersOK
  <2> QED BY <2>1 DEF Owns, Undecided, Terminal
<1> QED BY <1>1, IInvInvariant, PTL

\* Each transaction that was mined is another transfer's, and pays as much to
\* the same recipient.
THEOREM NobodyIsOverpaid == Spec => []NeverOverpaid
<1>1. ASSUME IInv PROVE NeverOverpaid
  <2> SUFFICES ASSUME NEW p \in Payees
               PROVE  SumFunction([x \in { y \in mined : y.to = p } |-> x.amount])
                        <= SumFunction([t \in { u \in Transfers : order[u].to = p }
                                         |-> order[t].amount])
    BY DEF NeverOverpaid
  <2> DEFINE S == { y \in mined : y.to = p }
             T == { u \in Transfers : order[u].to = p }
             g == [x \in S |-> x.amount]
             h == [t \in T |-> order[t].amount]
             owner == [x \in S |-> CHOOSE t \in Transfers : Owns(t, x)]
  <2>1. \A x \in S : owner[x] \in Transfers /\ Owns(owner[x], x)
    BY <1>1 DEF IInv, OwnersOK
  <2>2. ASSUME NEW x \in S PROVE owner[x] \in T /\ h[owner[x]] = g[x]
    <3> DEFINE t == owner[x]
    <3>1. t \in Transfers /\ pc[t] = "signed" /\ tx[t] = x
      BY <2>1 DEF Owns
    <3> HIDE DEF t, owner
    <3>2. x.to = order[t].to /\ x.amount = order[t].amount /\ x.to = p
      BY <1>1, <3>1 DEF IInv, TxOK
    <3>3. t \in T
      BY <3>1, <3>2
    <3> QED BY <3>2, <3>3 DEF t
  <2>3. \A t \in T : h[t] \in Nat
    BY <1>1, AssetAssumption DEF IInv
  <2>4. \A x1, x2 \in S : owner[x1] = owner[x2] => x1 = x2
    <3>1. \A x \in S : tx[owner[x]] = x
      BY <2>1 DEF Owns
    <3> HIDE DEF S, owner
    <3> QED BY <3>1
  <2>5. IsFiniteSet(T)
    BY AssetAssumption, FS_Subset
  <2>6. IsFiniteSet(S)
    <3> HIDE DEF S, T, g, h
    <3>1. owner \in [S -> T]
      BY <2>2
    <3> HIDE DEF owner
    <3>2. owner \in Injection(S, T)
      BY <2>4, <3>1 DEF Injection, IsInjective
    <3> QED BY <2>5, <3>2, FS_Injection
  <2>7. SumFunctionOnSet(g, S) <= SumFunctionOnSet(h, T)
    <3> HIDE DEF S, T, g, h, owner
    <3>1. \A x \in S : g[x] \in Nat /\ owner[x] \in T /\ g[x] <= h[owner[x]]
      BY <2>2, <2>3
    <3> QED BY <3>1, <2>3, <2>4, <2>5, <2>6, SumInjected
  <2> QED BY <2>7 DEF SumFunction
<1> QED BY <1>1, IInvInvariant, PTL
=============================================================================
