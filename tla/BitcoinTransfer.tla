-------------------------- MODULE BitcoinTransfer --------------------------
(***************************************************************************)
(* Native transfers out of one bitcoin address, as a program using this    *)
(* library makes them: FetchTxInput, NewTransfer, AddSignatures, SubmitTx. *)
(* Several transfers run at once, and each reads the unspent outputs long  *)
(* before its transaction reaches the node.                                *)
(*                                                                         *)
(* The network may lose a request or a response of SubmitTx. NativeClient  *)
(* then sends the same bytes again until its context is done, the          *)
(* BlockchairClient (NewClient's choice) tries once and leaves it to its   *)
(* caller to repeat the call. Retrying says which transfers use which.     *)
(* The node is external: it accepts a completely signed transaction whose  *)
(* inputs are unspent and tells a known transaction from a conflicting one.*)
(***************************************************************************)
EXTENDS Utxo, FiniteSets, FiniteSetsExt, SequencesExt

CONSTANTS Transfers,     \* the transfers, one caller each
          Amounts,       \* the amounts a caller may ask for
          GasPrices,     \* what EstimateGas may answer
          StartOutputs,  \* the address's unspent outputs at the start
          BytesPerInput, \* the 255 (BCH: 300) of builder.go:65-67
          IntBits,       \* width of the value of a transaction output, 64
          Retrying,      \* the transfers that use a NativeClient
          MaxCalls,      \* bound: SubmitTx calls per transfer
          NoTx           \* no transaction built

ASSUME TransferAssumption ==
  /\ IsFiniteSet(Transfers) /\ IsFiniteSet(StartOutputs)
  /\ Amounts \subseteq Nat
  /\ GasPrices \subseteq Nat
  /\ \A o \in StartOutputs : o.value \in Nat
  /\ \A o \in StartOutputs, t \in Transfers : o.id # <<t, 2>>
  /\ MinUtxo \in Nat
  /\ BytesPerInput \in Nat
  /\ IntBits \in Nat \ {0}
  /\ Retrying \subseteq Transfers
  /\ MaxCalls \in Nat

\* A fact of arithmetic that the provers do not know of.
ASSUME PowerAssumption == 2^IntBits = 2 * 2^(IntBits - 1)

VARIABLES
  (* of each transfer *)
  pc,        \* where its caller is
  amount,    \* the amount asked for
  fetched,   \* TxInput.UnspentOutputs, a list
  gas,       \* TxInput.GasPricePerByte
  tx,        \* the Tx built: its inputs and the values of its two outputs
  witness,   \* the inputs of tx that carry a signature
  signed,    \* Tx.signed
  err,       \* error of the last attempt to send tx
  ctxDone,   \* the context of the current SubmitTx call is done
  result,    \* CheckError of what SubmitTx returned, or "ok", "none" before
  calls,     \* SubmitTx calls made
  (* of the node *)
  utxo,      \* the address's unspent outputs, the mempool's effect included
  accepted   \* the transfers whose transaction the node has accepted

callerVars == <<amount, fetched, gas>>
signVars   == <<tx, witness, signed>>
submitVars == <<err, ctxDone, result, calls>>
nodeVars   == <<utxo, accepted>>
vars == <<pc, callerVars, signVars, submitVars, nodeVars>>

Worth(outputs) == SumFunction([o \in outputs |-> o.value])

Init ==
  /\ pc = [t \in Transfers |-> "start"]
  /\ amount \in [Transfers -> Amounts]
  /\ fetched = [t \in Transfers |-> <<>>]
  /\ gas = [t \in Transfers |-> 0]
  /\ tx = [t \in Transfers |-> NoTx]
  /\ witness = [t \in Transfers |-> {}]
  /\ signed = [t \in Transfers |-> FALSE]
  /\ err = [t \in Transfers |-> "none"]
  /\ ctxDone = [t \in Transfers |-> FALSE]
  /\ result = [t \in Transfers |-> "none"]
  /\ calls = [t \in Transfers |-> 0]
  /\ utxo = StartOutputs
  /\ accepted = {}
-----------------------------------------------------------------------------
(* FetchTxInput: two requests, the second answers at another time.         *)

UnspentOutputs(t) ==
  /\ pc[t] = "start"
  /\ fetched' = [fetched EXCEPT ![t] = SetToSeq(utxo)]
  /\ pc' = [pc EXCEPT ![t] = "gas"]
  /\ UNCHANGED <<amount, gas, signVars, submitVars, nodeVars>>

EstimateGas(t) ==
  /\ pc[t] = "gas"
  /\ \E price \in GasPrices : gas' = [gas EXCEPT ![t] = price]
  /\ pc' = [pc EXCEPT ![t] = "input"]
  /\ UNCHANGED <<amount, fetched, signVars, submitVars, nodeVars>>

\* Either request may fail, and FetchTxInput returns its error.
FetchFails(t) ==
  /\ pc[t] \in {"start", "gas"}
  /\ pc' = [pc EXCEPT ![t] = "not fetched"]
  /\ UNCHANGED <<callerVars, signVars, submitVars, nodeVars>>
-----------------------------------------------------------------------------
(* NewNativeTransfer.                                                      *)

\* big.Int.Int64: the low IntBits bits of the magnitude, then the sign.
ToInt(v) ==
  LET mag == (IF v < 0 THEN 0 - v ELSE v) % 2^IntBits
      low == IF mag >= 2^(IntBits - 1) THEN mag - 2^IntBits ELSE mag
      neg == IF low = 0 - 2^(IntBits - 1) THEN low ELSE 0 - low
  IN  IF v < 0 THEN neg ELSE low

Fee(price, inputs) == price * BytesPerInput * Len(inputs)

\* Mutant: the change does not leave room for the fee.
ChangeWithoutFee(inputs, value, price) == Total(inputs) - value

Change(inputs, value, price) == Total(inputs) - (value + Fee(price, inputs))

\* The transfer of amount value out of inputs.
Built(inputs, value, price) ==
  [inputs |-> inputs,
   pay    |-> ToInt(value),
   change |-> ToInt(Change(inputs, value, price))]

\* Mutant: an output of value zero is refused.
NothingIsZero(new) == new.pay > 0 /\ new.change > 0

\* "expected value >= 0", an error.
WellFormed(new) == new.pay >= 0 /\ new.change >= 0

NewNativeTransfer(t) ==
  /\ pc[t] = "input"
  /\ \E sorted \in SortedOrders(fetched[t]) :
       LET inputs == MinUtxoSet(sorted, amount[t], MinUtxo)
           new    == Built(inputs, amount[t], gas[t])
       IN  \/ /\ WellFormed(new)
              /\ tx' = [tx EXCEPT ![t] = new]
              /\ pc' = [pc EXCEPT ![t] = "built"]
           \/ /\ ~WellFormed(new)
              /\ pc' = [pc EXCEPT ![t] = "not built"]
              /\ UNCHANGED tx
  /\ UNCHANGED <<callerVars, witness, signed, submitVars, nodeVars>>
-----------------------------------------------------------------------------
(* AddSignatures. A signature is "good" or "short" (not 64 or 65 bytes).   *)

InputsOf(t) == 1..Len(tx[t].inputs)

\* The length of the prefix of sigs that is processed before a short one.
GoodPrefix(sigs) ==
  CHOOSE n \in 0..Len(sigs) :
    /\ \A k \in 1..n : sigs[k] = "good"
    /\ n = Len(sigs) \/ sigs[n + 1] = "short"

\* "already signed" and a wrong number of signatures are errors that change
\* nothing; a short signature is one that leaves the earlier ones in place.
AddSignatures(t, sigs) ==
  /\ pc[t] = "built"
  /\ ~signed[t]
  /\ Len(sigs) = Len(tx[t].inputs)
  /\ witness' = [witness EXCEPT ![t] = @ \cup (1..GoodPrefix(sigs))]
  /\ signed' = [signed EXCEPT ![t] = GoodPrefix(sigs) = Len(sigs)]
  /\ UNCHANGED <<pc, callerVars, tx, submitVars, nodeVars>>
-----------------------------------------------------------------------------
(* SubmitTx. Nothing in it asks whether the transaction is signed.         *)

SubmitTx(t) ==
  /\ pc[t] = "built"
  /\ calls[t] < MaxCalls
  /\ calls' = [calls EXCEPT ![t] = @ + 1]
  /\ ctxDone' = [ctxDone EXCEPT ![t] = FALSE]
  /\ result' = [result EXCEPT ![t] = "none"]
  /\ pc' = [pc EXCEPT ![t] = "send"]
  /\ UNCHANGED <<callerVars, signVars, err, nodeVars>>

\* The node's verdict on the bytes of t's transaction (external).
Verdict(t) ==
  IF t \in accepted THEN "already known"
  ELSE IF witness[t] # InputsOf(t) THEN "invalid"
  ELSE IF Elements(tx[t].inputs) \subseteq utxo THEN "accepted"
  ELSE "missingorspent"

\* The node spends the inputs and adds the change to the address's outputs.
Receive(t) ==
  IF Verdict(t) = "accepted"
  THEN /\ accepted' = accepted \cup {t}
       /\ utxo' = (utxo \ Elements(tx[t].inputs))
                    \cup {[id |-> <<t, 2>>, value |-> tx[t].change]}
  ELSE UNCHANGED nodeVars

\* An answer that is no error ends the call; an error is tried again by the
\* native client and returned by the other.
Answered(t, answer) ==
  /\ err' = [err EXCEPT ![t] = answer]
  /\ pc' = [pc EXCEPT ![t] = IF t \in Retrying /\ answer # "accepted"
                             THEN "retry" ELSE "return"]
  /\ UNCHANGED <<callerVars, signVars, ctxDone, result, calls>>

RequestLost(t) ==
  /\ pc[t] = "send"
  /\ Answered(t, "lost")
  /\ UNCHANGED nodeVars

ResponseLost(t) ==
  /\ pc[t] = "send"
  /\ Receive(t)
  /\ Answered(t, "lost")

Response(t) ==
  /\ pc[t] = "send"
  /\ Receive(t)
  /\ Answered(t, Verdict(t))

\* The deadline of the caller's context passes.
ContextDone(t) ==
  /\ pc[t] \in {"send", "retry"}
  /\ ~ctxDone[t]
  /\ ctxDone' = [ctxDone EXCEPT ![t] = TRUE]
  /\ UNCHANGED <<pc, callerVars, signVars, err, result, calls, nodeVars>>

\* The ticker case of the select in retry, taken at random when both are ready.
RetryTick(t) ==
  /\ pc[t] = "retry"
  /\ pc' = [pc EXCEPT ![t] = "send"]
  /\ UNCHANGED <<callerVars, signVars, submitVars, nodeVars>>

\* Mutant: only a rejection ends the retries of a context that is done.
NeverGivesUp(t) ==
  /\ pc[t] = "retry"
  /\ ctxDone[t]
  /\ err[t] = "invalid"
  /\ pc' = [pc EXCEPT ![t] = "return"]
  /\ UNCHANGED <<callerVars, signVars, submitVars, nodeVars>>

\* The ctx.Done() case: the error returned is the one of the last attempt.
GiveUp(t) ==
  /\ pc[t] = "retry"
  /\ ctxDone[t]
  /\ pc' = [pc EXCEPT ![t] = "return"]
  /\ UNCHANGED <<callerVars, signVars, submitVars, nodeVars>>

\* errors.go; an error of the http client is not classified reliably, its
\* text holds "EOF" or does not.
CheckError(error) ==
  CASE error = "missingorspent" -> "TransactionFailure"
    [] error = "already known"  -> "TransactionExists"
    [] OTHER -> "NetworkError or UnknownError"

\* Mutant: the call reports success when its attempts are over.
ReturnsOk(t) ==
  /\ pc[t] = "return"
  /\ result' = [result EXCEPT ![t] = "ok"]
  /\ pc' = [pc EXCEPT ![t] = "built"]
  /\ UNCHANGED <<callerVars, signVars, err, ctxDone, calls, nodeVars>>

Return(t) ==
  /\ pc[t] = "return"
  /\ result' = [result EXCEPT ![t] =
                  IF err[t] = "accepted" THEN "ok" ELSE CheckError(err[t])]
  /\ pc' = [pc EXCEPT ![t] = "built"]
  /\ UNCHANGED <<callerVars, signVars, err, ctxDone, calls, nodeVars>>
-----------------------------------------------------------------------------
Send(t) == RequestLost(t) \/ ResponseLost(t) \/ Response(t)

Next ==
  \E t \in Transfers :
    \/ UnspentOutputs(t) \/ EstimateGas(t) \/ FetchFails(t)
    \/ NewNativeTransfer(t)
    \/ \E sigs \in BoundedSeq({"good", "short"}, Cardinality(StartOutputs)) :
         AddSignatures(t, sigs)
    \/ SubmitTx(t)
    \/ RequestLost(t) \/ ResponseLost(t) \/ Response(t)
    \/ ContextDone(t) \/ RetryTick(t) \/ GiveUp(t)
    \/ Return(t)

Spec == Init /\ [][Next]_vars

(***************************************************************************)
(* Every attempt ends, by an answer or by the http client's timeout; the   *)
(* context given to SubmitTx has a deadline; a goroutine that can go on    *)
(* does; and select picks among ready cases at random, so a context that   *)
(* stays done is noticed although the ticker keeps firing.                 *)
(***************************************************************************)
Fairness ==
  \A t \in Transfers :
    /\ WF_vars(Send(t))
    /\ WF_vars(ContextDone(t))
    /\ WF_vars(RetryTick(t))
    /\ SF_vars(GiveUp(t))
    /\ WF_vars(Return(t))

FairSpec == Spec /\ Fairness
-----------------------------------------------------------------------------
TypeOK ==
  /\ pc \in [Transfers -> {"start", "gas", "input", "built", "send", "retry",
                           "return", "not fetched", "not built"}]
  /\ amount \in [Transfers -> Amounts]
  /\ gas \in [Transfers -> GasPrices \cup {0}]
  /\ \A t \in Transfers :
       /\ \A k \in 1..Len(fetched[t]) : fetched[t][k].value \in Nat
       /\ tx[t] # NoTx => tx[t].pay \in Nat /\ tx[t].change \in Nat
       /\ tx[t] # NoTx => witness[t] \subseteq InputsOf(t)
  /\ signed \in [Transfers -> BOOLEAN]
  /\ err \in [Transfers -> {"none", "lost", "accepted", "already known",
                            "invalid", "missingorspent"}]
  /\ ctxDone \in [Transfers -> BOOLEAN]
  /\ result \in [Transfers -> {"none", "ok", "TransactionFailure",
                 "TransactionExists", "NetworkError or UnknownError"}]
  /\ calls \in [Transfers -> 0..MaxCalls]
  /\ \A o \in utxo : o.value \in Nat
  /\ accepted \subseteq Transfers

\* The address pays for an accepted transfer the amount asked for and the fee
\* of the transaction, once, whatever was lost, repeated or overtaken by
\* another transfer: nothing it had at the start is gone for another reason.
FundsConserved ==
  Worth(utxo) + SumFunction([t \in accepted |-> amount[t] + Fee(gas[t], tx[t].inputs)])
    = Worth(StartOutputs)

\* A transfer that an address with at most MinUtxo outputs can pay for is
\* built. (With more outputs the selection, which does not know the fee, may
\* stop short of it and the transfer fails although the funds are there.)
AffordableTransfersAreBuilt ==
  \A t \in Transfers :
    pc[t] = "not built" /\ Len(fetched[t]) <= MinUtxo =>
      Total(fetched[t]) < amount[t] + Fee(gas[t], fetched[t])

\* A caller told that the transaction went through, or that it exists, can
\* rely on the node having it; one told "a transaction terminally failed", that
\* the node has not accepted it and never will, so that he may pay again. The
\* answer of a repeated attempt must not be mistaken for the fate of the first.
ResultsAreTrue ==
  \A t \in Transfers :
    /\ result[t] \in {"ok", "TransactionExists"} => t \in accepted
    /\ result[t] = "TransactionFailure" => t \notin accepted

\* SubmitTx returns, although a transaction already accepted, a conflicting
\* one and an unsigned one are all sent again and again.
SubmitReturns == \A t \in Transfers : pc[t] = "send" ~> pc[t] = "built"
=============================================================================
