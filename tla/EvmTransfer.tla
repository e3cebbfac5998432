---------------------------- MODULE EvmTransfer ----------------------------
(***************************************************************************)
(* Native transfers of one EVM account, several at a time: FetchTxInput,   *)
(* NewTransfer, AddSignatures, SubmitTx and CheckError. The nonce is that  *)
(* of the account's last mined transaction, so transfers made before one   *)
(* of them is mined have the same nonce, and at most one of those is ever  *)
(* mined. The node and its mempool are external.                           *)
(***************************************************************************)
EXTENDS Integers, FiniteSets, Functions

CONSTANTS Transfers,
          Orders,       \* [to, amount]: what a transfer may be asked for
          Assets,       \* configurations of the chain, see AssetAssumption
          BaseFees,     \* what the chain asks per gas, at one time or another
          CallbackFees, \* what a registered gas callback may answer
          DefaultPrice, \* DEFAULT_GAS_PRICE
          DefaultTip,   \* DEFAULT_GAS_TIP
          Multiplier,   \* the 2.0 of EstimateGas
          Balances,     \* <<first, after a deposit>>
          MaxBuilds     \* bound: transactions built per transfer

AssetType == [legacy : BOOLEAN,  \* the legacy driver's client and builder
              tip    : Nat,      \* ChainGasTip, 0 if it is not configured
              noGas  : BOOLEAN]  \* NoGasFees

ASSUME AssetAssumption ==
  /\ IsFiniteSet(Transfers)
  /\ Assets \subseteq AssetType
  /\ BaseFees \cup CallbackFees \subseteq Nat /\ BaseFees # {}
  /\ {DefaultPrice, DefaultTip, Multiplier, MaxBuilds} \subseteq Nat
  /\ Balances \in Nat \X Nat
  /\ \A o \in Orders : o.amount \in Nat

VARIABLES
  asset,    \* the client's and builder's configuration
  order,    \* what each transfer is for
  pc,       \* where its caller is
  input,    \* its TxInput
  tx,       \* its Tx; the bytes of equal ones are equal, as is their hash
  result,   \* "ok" or CheckError of what the last SubmitTx returned
  builds,   \* how often it was begun
  (* the chain *)
  nonce,    \* transactions of the account that were mined
  pool,     \* transactions of the account that wait in the mempool
  mined,    \* the transactions that were mined
  balance,
  base      \* the base fee now

caller == <<pc, input, tx, result, builds>>
chain  == <<nonce, pool, mined, balance, base>>
vars   == <<asset, order, caller, chain>>

NoInput == [nonce |-> 0, tip |-> 0, cap |-> 0]
NoTx    == [nonce |-> 0, to |-> "nobody", amount |-> 0, tip |-> 0, cap |-> 0]

Lowest == CHOOSE fee \in BaseFees : \A other \in BaseFees : fee <= other

Init ==
  /\ asset \in Assets
  /\ order \in [Transfers -> Orders]
  /\ pc = [t \in Transfers |-> "start"]
  /\ input = [t \in Transfers |-> NoInput]
  /\ tx = [t \in Transfers |-> NoTx]
  /\ result = [t \in Transfers |-> "none"]
  /\ builds = [t \in Transfers |-> 0]
  /\ nonce = 0 /\ pool = {} /\ mined = {}
  /\ balance = Balances[1]
  /\ base \in BaseFees
-----------------------------------------------------------------------------
(* FetchTxInput *)

\* Mutant: the tip follows the base fee.
TipOfBaseFee == IF asset.noGas THEN 0 ELSE DefaultTip + base \div 2

\* The tip does not depend on the chain's state.
GasTipCap ==
  IF asset.noGas THEN 0 ELSE IF asset.tip # 0 THEN asset.tip ELSE DefaultTip

NonceAt == nonce

FetchNonce(t) ==
  /\ pc[t] = "start" /\ builds[t] < MaxBuilds
  /\ builds' = [builds EXCEPT ![t] = @ + 1]
  /\ input' = [input EXCEPT ![t] = [nonce |-> NonceAt, tip |-> GasTipCap, cap |-> 0]]
  /\ pc' = [pc EXCEPT ![t] = "gas"]
  /\ UNCHANGED <<asset, order, tx, result, chain>>

\* Twice the fee of now, or of the default price if the request failed.
Estimate(fee) ==
  ((IF fee < DefaultPrice THEN DefaultPrice ELSE fee) + DefaultTip) * Multiplier

\* EstimateGas: a callback, or else the chain; failures are not reported.
FetchGas(t) ==
  /\ pc[t] = "gas"
  /\ \/ /\ asset.noGas
        /\ UNCHANGED input
     \/ /\ ~asset.noGas
        /\ \E fee \in CallbackFees :
             input' = [input EXCEPT ![t].cap = fee]
     \/ /\ ~asset.noGas
        /\ \E fee \in {base, 0} :
             input' = [input EXCEPT ![t].cap = Estimate(fee)]
  /\ pc' = [pc EXCEPT ![t] = "fetched"]
  /\ UNCHANGED <<asset, order, tx, result, builds, chain>>
-----------------------------------------------------------------------------
(* NewTransfer and AddSignatures *)

\* A legacy transaction has one price, which is tip and cap at once.
Built(t) ==
  [nonce |-> input[t].nonce, to |-> order[t].to, amount |-> order[t].amount,
   tip |-> IF asset.legacy THEN input[t].cap ELSE input[t].tip,
   cap |-> input[t].cap]

NewNativeTransfer(t) ==
  /\ pc[t] = "fetched"
  /\ tx' = [tx EXCEPT ![t] = Built(t)]
  /\ pc' = [pc EXCEPT ![t] = "built"]
  /\ UNCHANGED <<asset, order, input, result, builds, chain>>

\* The signature is a function of the transaction, so signing it again gives
\* the same bytes.
AddSignatures(t) ==
  /\ pc[t] = "built"
  /\ pc' = [pc EXCEPT ![t] = "signed"]
  /\ UNCHANGED <<asset, order, input, tx, result, builds, chain>>
-----------------------------------------------------------------------------
(* The node, external *)

Cost(x) == x.amount + x.cap

Rivals(x) == { y \in pool : y.nonce = x.nonce }

\* A rival is replaced only by more of both.
Outbids(x) == \A y \in Rivals(x) : x.tip > y.tip /\ x.cap > y.cap

Verdict(x) ==
  CASE x \in pool         -> "already known"
    [] x \notin pool /\ x.tip > x.cap -> "tip above fee cap"
    [] x \notin pool /\ x.tip <= x.cap /\ x.nonce < nonce -> "nonce too low"
    [] OTHER -> IF balance < x.amount THEN "insufficient funds for transfer"
                ELSE IF balance < Cost(x)
                     THEN "insufficient funds for gas * price + value"
                     ELSE IF Outbids(x) THEN "accepted"
                          ELSE "replacement transaction underpriced"

\* Some chains answer "transaction underpriced" and forward the transaction
\* all the same (errors.go:17-19).
Answers(x) ==
  {Verdict(x)} \cup (IF Verdict(x) = "accepted" THEN {"transaction underpriced"} ELSE {})

Receive(x) ==
  pool' = IF Verdict(x) = "accepted" THEN (pool \ Rivals(x)) \cup {x} ELSE pool

Mine(x) ==
  /\ x \in pool /\ x.nonce = nonce /\ x.cap >= base /\ balance >= Cost(x)
  /\ nonce' = nonce + 1
  /\ mined' = mined \cup {x}
  /\ pool' = { y \in pool : y.nonce > nonce }
  /\ balance' = balance - x.amount - (IF x.cap < base + x.tip THEN x.cap ELSE base + x.tip)
  /\ UNCHANGED <<asset, order, caller, base>>

FeeMoves ==
  /\ base' \in BaseFees \ {base}
  /\ UNCHANGED <<asset, order, caller, nonce, pool, mined, balance>>

FeeFalls == FeeMoves /\ base' = Lowest

Deposit ==
  /\ balance < Balances[2]
  /\ balance' = Balances[2]
  /\ mined = {}
  /\ UNCHANGED <<asset, order, caller, nonce, pool, mined, base>>
-----------------------------------------------------------------------------
(* SubmitTx and what its caller makes of the error. *)

\* Mutant: a price that is too low is a terminal failure.
UnderpricedFails(error) ==
  CASE error \in {"insufficient funds for gas * price + value",
                  "transaction underpriced"} -> "NoBalanceForGas"
    [] error = "insufficient funds for transfer" -> "NoBalance"
    [] error \in {"replacement transaction underpriced", "eof"} -> "NetworkError"
    [] error = "already known" -> "TransactionExists"
    [] OTHER -> "UnknownError"

\* Mutant: what nobody recognises may be a matter of the network.
UnknownIsNetwork(error) ==
  CASE error = "insufficient funds for gas * price + value" -> "NoBalanceForGas"
    [] error = "insufficient funds for transfer" -> "NoBalance"
    [] error = "already known" -> "TransactionExists"
    [] OTHER -> "NetworkError"

\* "replacement transaction underpriced" contains "transaction underpriced".
CheckError(error) ==
  CASE error = "insufficient funds for gas * price + value" -> "NoBalanceForGas"
    [] error = "insufficient funds for transfer" -> "NoBalance"
    [] error \in {"replacement transaction underpriced", "transaction underpriced",
                  "eof"} -> "NetworkError"
    [] error = "already known" -> "TransactionExists"
    [] OTHER -> "UnknownError"

Terminal == {"NoBalance", "NoBalanceForGas"}

\* A transaction is submitted until there is an outcome, good or bad.
MaySubmit(t) ==
  pc[t] = "signed" /\ result[t] \in {"none", "NetworkError", "UnknownError"}

Answered(t) ==
  /\ MaySubmit(t)
  /\ Receive(tx[t])
  /\ \E answer \in Answers(tx[t]) :
       result' = [result EXCEPT ![t] = IF answer = "accepted" THEN "ok"
                                       ELSE CheckError(answer)]
  /\ UNCHANGED <<asset, order, pc, input, tx, builds, nonce, mined, balance, base>>

\* The request or its answer is lost, which the transport reports in words
\* that CheckError knows or does not.
Lost(t) ==
  /\ MaySubmit(t)
  /\ Receive(tx[t]) \/ UNCHANGED pool
  /\ \E error \in {"eof", "timeout"} :
       result' = [result EXCEPT ![t] = CheckError(error)]
  /\ UNCHANGED <<asset, order, pc, input, tx, builds, nonce, mined, balance, base>>

SubmitTx(t) == Answered(t) \/ Lost(t)

\* After a terminal failure, or before it submits, a caller may begin anew.
Restart(t) ==
  /\ \/ pc[t] \in {"gas", "fetched", "built"}
     \/ pc[t] = "signed" /\ result[t] \in {"none"} \cup Terminal
  /\ builds[t] < MaxBuilds
  /\ pc' = [pc EXCEPT ![t] = "start"]
  /\ input' = [input EXCEPT ![t] = NoInput]
  /\ tx' = [tx EXCEPT ![t] = NoTx]
  /\ result' = [result EXCEPT ![t] = "none"]
  /\ UNCHANGED <<asset, order, builds, chain>>

Next ==
  \/ \E t \in Transfers :
       \/ FetchNonce(t) \/ FetchGas(t) \/ NewNativeTransfer(t) \/ AddSignatures(t)
       \/ SubmitTx(t) \/ Restart(t)
  \/ \E x \in pool : Mine(x)
  \/ FeeMoves \/ Deposit

Spec == Init /\ [][Next]_vars

(***************************************************************************)
(* A caller submits again after a network error (client.go:52, "there may  *)
(* be nothing wrong with the transaction"), and an answer gets through in  *)
(* the end. Blocks are made, and the base fee does not stay high.          *)
(***************************************************************************)
Fairness ==
  /\ \A t \in Transfers : SF_vars(Answered(t))
  /\ SF_vars(\E x \in pool : Mine(x))
  /\ WF_vars(FeeFalls)

FairSpec == Spec /\ Fairness
-----------------------------------------------------------------------------
TypeOK ==
  /\ asset \in Assets /\ order \in [Transfers -> Orders]
  /\ pc \in [Transfers -> {"start", "gas", "fetched", "built", "signed"}]
  /\ \A t \in Transfers :
       /\ {input[t].nonce, input[t].tip, input[t].cap} \subseteq Nat
       /\ result[t] # "none" => pc[t] = "signed"
  /\ result \in [Transfers -> {"none", "ok", "NetworkError", "UnknownError",
                               "TransactionExists"} \cup Terminal]
  /\ nonce \in Nat /\ balance \in Nat /\ base \in BaseFees
  /\ \A x, y \in pool : x.nonce = y.nonce => x = y
  /\ Cardinality(mined) = nonce

Payees == { o.to : o \in Orders }

\* However often transactions are lost, submitted again or built anew after a
\* terminal failure, nobody gets more than the transfers to him add up to.
NeverOverpaid ==
  \A p \in Payees :
    SumFunction([x \in { y \in mined : y.to = p } |-> x.amount])
      <= SumFunction([t \in { u \in Transfers : order[u].to = p } |-> order[t].amount])

\* A caller told "ok" or "exists" can rely on his transaction: it was mined or
\* waits, and no other transfer of the account puts it out of the mempool,
\* although they all have its nonce. (Their tip is the configured one, and to
\* replace it they would need a higher one. A legacy transaction has a price
\* that follows the chain's, and may be replaced.) One told of a terminal
\* failure, that it was not mined and does not wait, whichever answers of
\* earlier attempts were lost. (Two equal orders may give equal transactions,
\* and then the other's may have been accepted.)
ResultsAreTrue ==
  \A t \in Transfers :
    /\ ~asset.legacy /\ result[t] \in {"ok", "TransactionExists"} =>
         tx[t] \in pool \cup mined
    /\ result[t] \in Terminal /\ (\A u \in Transfers \ {t} : tx[u] # tx[t]) =>
         tx[t] \notin pool \cup mined

\* Submitting again after network errors comes to an end: with "ok", with
\* "already known", or, once a rival with the same nonce is mined, with an
\* error that is not transient.
RetriesEnd ==
  \A t \in Transfers : result[t] = "NetworkError" ~> result[t] # "NetworkError"
=============================================================================
