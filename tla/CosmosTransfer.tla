--------------------------- MODULE CosmosTransfer ---------------------------
(***************************************************************************)
(* Transfers of one account on a Cosmos chain, built by one TxBuilder.     *)
(*                                                                         *)
(* A TxBuilder keeps one client.TxBuilder of the Cosmos SDK and puts every *)
(* transfer into it; each Tx it returns holds a reference to the same one, *)
(* and serializes what that holds at the time. The node and the chain are  *)
(* external. The client broadcasts in mode "sync": the answer is that of   *)
(* the node's CheckTx, which wants a signature over the content and the    *)
(* sequence number after those of the account's transactions in its pool.  *)
(* What has passed may then be executed, fail in a block, or be dropped.   *)
(***************************************************************************)
EXTENDS Integers, Sequences

CONSTANTS Kind,       \* "native" or "token": the builder's asset
          Recipients, \* well-formed addresses
          BadAddress, \* one the chain prefix does not fit
          GasPrices,  \* prices EstimateGas may return
          OneAtATime, \* whether a caller drops a Tx before it builds another
          MaxTxs,     \* bound: transfers asked for
          MaxSubmits  \* bound: calls of SubmitTx

ASSUME CosmosAssumption ==
  /\ Kind \in {"native", "token"} /\ OneAtATime \in BOOLEAN
  /\ BadAddress \notin Recipients /\ GasPrices \subseteq Nat
  /\ MaxTxs \in Nat /\ MaxSubmits \in Nat

VARIABLES
  sequence,      \* the account's next sequence number, on the chain
  checkSequence, \* the one the node's CheckTx asks for next
  broadcast,     \* what CheckTx let pass, in order, and its fate
  input,         \* the TxInput the caller holds
  shared,        \* TxBuilder.CosmosTxBuilder
  txs,           \* every Tx asked for
  submits        \* calls of SubmitTx so far

chain == <<sequence, checkSequence, broadcast>>
accountVars  == <<sequence, checkSequence, broadcast, input, shared, txs, submits>>

NoInput    == [sequence |-> 0, gasLimit |-> 0, gasPrice |-> 0, fetched |-> FALSE]
NoContent  == [msg |-> [of |-> 0], gas |-> 0, fee |-> 0, sequence |-> 0]
Unsigned   == [over |-> NoContent]
EmptyShared == [content |-> NoContent, sig |-> Unsigned]

AccountInit ==
  /\ sequence = 1 /\ checkSequence = 1 /\ broadcast = <<>>
  /\ input = NoInput
  /\ shared = EmptyShared
  /\ txs = <<>>
  /\ submits = 0

\* The caller asks for the account as of the last block, which knows nothing of
\* the pool; a failed query leaves it without an input.
FetchTxInput ==
  /\ \E price \in GasPrices :
       input' = [sequence |-> sequence, gasLimit |-> 0, gasPrice |-> price,
                 fetched |-> TRUE]
  /\ UNCHANGED <<chain, shared, txs, submits>>

DefaultGasLimit == IF Kind = "native" THEN 4 ELSE 9

\* NewNativeTransfer and NewTokenTransfer set the limit in the caller's input.
GasLimit == IF input.gasLimit = 0 THEN DefaultGasLimit ELSE input.gasLimit

Live(t) == txs[t].state \in {"built", "signed"}

\* What the caller asks for is its own number and the recipient.
Ask(to) == [of |-> Len(txs) + 1, to |-> to]

Content(to) ==
  [msg |-> Ask(to), gas |-> GasLimit, fee |-> input.gasPrice * GasLimit,
   sequence |-> input.sequence]

MayBuild ==
  /\ input.fetched /\ Len(txs) < MaxTxs
  /\ OneAtATime => \A t \in 1..Len(txs) : ~Live(t)

\* Mutant: the sign bytes are taken before the fee is set.
NewTransferSignsEarly(to) ==
  /\ MayBuild /\ to \in Recipients
  /\ input' = [input EXCEPT !.gasLimit = GasLimit]
  /\ shared' = [content |-> Content(to), sig |-> Unsigned]
  /\ txs' = Append(txs, [ask |-> Ask(to), state |-> "built",
                         sequence |-> input.sequence, sig |-> Unsigned,
                         toSign |-> [Content(to) EXCEPT !.fee = shared.content.fee]])
  /\ UNCHANGED <<chain, submits>>

\* NewTransfer: the message, gas, fee and an empty signature replace what the
\* shared builder held, and the bytes to sign are taken from it.
NewTransfer(to) ==
  /\ MayBuild /\ to \in Recipients
  /\ input' = [input EXCEPT !.gasLimit = GasLimit]
  /\ shared' = [content |-> Content(to), sig |-> Unsigned]
  /\ txs' = Append(txs, [ask |-> Ask(to), state |-> "built",
                         sequence |-> input.sequence, sig |-> Unsigned,
                         toSign |-> Content(to)])
  /\ UNCHANGED <<chain, submits>>

\* The addresses are looked at after the message is set: the error leaves it
\* in the shared builder, over the gas, fee and signature of the last one.
NewTransferFails ==
  /\ MayBuild
  /\ input' = [input EXCEPT !.gasLimit = GasLimit]
  /\ shared' = [shared EXCEPT !.content.msg = Ask(BadAddress)]
  /\ txs' = Append(txs, [ask |-> Ask(BadAddress), state |-> "failed",
                         sequence |-> input.sequence, sig |-> Unsigned,
                         toSign |-> NoContent])
  /\ UNCHANGED <<chain, submits>>

\* AddSignatures, with the signer's signature over Sighashes: SetSignatures
\* writes it, and the Tx's sequence number, into the shared builder.
AddSignatures(t) ==
  /\ txs[t].state = "built"
  /\ LET sig == [over |-> txs[t].toSign]
     IN  /\ txs' = [txs EXCEPT ![t].sig = sig, ![t].state = "signed"]
         /\ shared' = [content |-> [shared.content EXCEPT !.sequence = txs[t].sequence],
                       sig |-> sig]
  /\ UNCHANGED <<chain, input, submits>>

\* The caller is done with a Tx.
Drop(t) ==
  /\ Live(t)
  /\ txs' = [txs EXCEPT ![t].state = "dropped"]
  /\ UNCHANGED <<chain, input, shared, submits>>

\* Tx.Serialize: what the shared builder's GetTx returns, whichever Tx asks.
Serialize(t) == shared

\* External: whether the node's CheckTx lets a serialized transaction pass.
Accepts(raw) == raw.sig.over = raw.content /\ raw.content.sequence = checkSequence

\* External: it then is in the node's pool.
Accept(raw) ==
  /\ broadcast' = Append(broadcast, [content |-> raw.content, fate |-> "pool"])
  /\ checkSequence' = checkSequence + 1
  /\ UNCHANGED sequence

\* A Tx may be submitted again, after a success too, as long as the shared
\* builder has not been given another.
MaySubmit(t) ==
  /\ txs[t].state \in {"signed", "submitted"} /\ submits < MaxSubmits
  /\ OneAtATime => t = Len(txs)

\* Mutant: the code of the answer is not looked at.
SubmitTxBlindly(t) ==
  /\ MaySubmit(t) /\ submits' = submits + 1
  /\ \/ Accepts(Serialize(t)) /\ Accept(Serialize(t))
     \/ ~Accepts(Serialize(t)) /\ UNCHANGED chain
  /\ txs' = [txs EXCEPT ![t].state = "submitted"]
  /\ UNCHANGED <<input, shared>>

\* SubmitTx broadcasts once and returns nil only for code 0. The call or its
\* answer may be lost; the caller has an error then, and may submit again.
SubmitTx(t) ==
  /\ MaySubmit(t) /\ submits' = submits + 1
  /\ \/ /\ Accepts(Serialize(t)) /\ Accept(Serialize(t))
        /\ \/ txs' = [txs EXCEPT ![t].state = "submitted"]
           \/ UNCHANGED txs
     \/ UNCHANGED <<chain, txs>>
  /\ UNCHANGED <<input, shared>>

InPool(k, n) == broadcast[k].fate = "pool" /\ broadcast[k].content.sequence = n

\* External: the transaction whose turn it is gets into a block. The sequence
\* number is used up also when its message fails.
DeliverTx(k) ==
  /\ InPool(k, sequence)
  /\ \E fate \in {"executed", "failed"} :
       broadcast' = [broadcast EXCEPT ![k].fate = fate]
  /\ sequence' = sequence + 1
  /\ UNCHANGED <<checkSequence, input, shared, txs, submits>>

\* External: the node drops a transaction from its pool (it is full, or starts
\* again), and with it those with later numbers, which do not pass any more.
Evict(n) ==
  /\ n \in sequence..(checkSequence - 1) /\ checkSequence' = n
  /\ broadcast' = [k \in 1..Len(broadcast) |->
       IF broadcast[k].fate = "pool" /\ broadcast[k].content.sequence >= n
       THEN [broadcast[k] EXCEPT !.fate = "dropped"] ELSE broadcast[k]]
  /\ UNCHANGED <<sequence, input, shared, txs, submits>>

\* External: another wallet of the same account gets a transaction through by
\* another node; the one in the pool with its number does not pass any more.
OtherTx ==
  /\ sequence <= MaxTxs /\ sequence' = sequence + 1
  /\ checkSequence' = IF checkSequence = sequence THEN sequence + 1 ELSE checkSequence
  /\ broadcast' = [k \in 1..Len(broadcast) |->
       IF InPool(k, sequence)
       THEN [broadcast[k] EXCEPT !.fate = "dropped"] ELSE broadcast[k]]
  /\ UNCHANGED <<input, shared, txs, submits>>

AccountNext ==
  \/ FetchTxInput \/ NewTransferFails \/ OtherTx
  \/ \E to \in Recipients : NewTransfer(to)
  \/ \E t \in 1..Len(txs) : AddSignatures(t) \/ Drop(t) \/ SubmitTx(t)
  \/ \E k \in 1..Len(broadcast) : DeliverTx(k)
  \/ \E n \in sequence..(checkSequence - 1) : Evict(n)

AccountSpec == AccountInit /\ [][AccountNext]_accountVars
-----------------------------------------------------------------------------
Numbers == 1..(MaxTxs + MaxSubmits + 1)

Contents ==
  [msg : [of : 1..MaxTxs, to : Recipients \cup {BadAddress}], gas : {4, 9},
   fee : { price * gas : price \in GasPrices, gas \in {4, 9} },
   sequence : Numbers]

TypeOK ==
  /\ sequence \in Numbers /\ checkSequence \in Numbers
  /\ Len(broadcast) <= submits
  /\ \A k \in 1..Len(broadcast) :
       /\ broadcast[k].content \in Contents
       /\ broadcast[k].fate \in {"pool", "executed", "failed", "dropped"}
  /\ input.gasLimit \in {0, DefaultGasLimit}
  /\ submits \in 0..MaxSubmits
  /\ \A t \in 1..Len(txs) :
       txs[t].state \in {"built", "failed", "signed", "submitted", "dropped"}

\* A Tx that is signed serializes as the transfer that was asked for, and on a
\* sequence number that is the account's next one for the node it is sent to
\* is let pass: what was signed is what is sent, whatever the builder was asked
\* for before, with or without an error (builder.go:125, tx.go:83).
SignedIsAcceptable ==
  \A t \in 1..Len(txs) : txs[t].state = "signed" =>
    /\ Serialize(t).content.msg = txs[t].ask
    /\ txs[t].sequence = checkSequence => Accepts(Serialize(t))

\* SubmitTx reports success for a Tx only when the node has taken exactly what
\* was signed for it, which may still fail in a block or be dropped; and however
\* often a Tx is submitted, after a lost answer, a success or a drop, the chain
\* executes its transfer at most once (client.go:151).
SubmittedAsSigned ==
  /\ \A t \in 1..Len(txs) : txs[t].state = "submitted" =>
       /\ txs[t].toSign.msg = txs[t].ask
       /\ \E k \in 1..Len(broadcast) : broadcast[k].content = txs[t].toSign
  /\ \A j, k \in 1..Len(broadcast) :
       /\ broadcast[j].fate = "executed" /\ broadcast[k].fate = "executed"
       /\ broadcast[j].content.msg = broadcast[k].content.msg
       => j = k
=============================================================================
