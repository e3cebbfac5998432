----------------------------- MODULE BitcoinInfo -----------------------------
(***************************************************************************)
(* What the two Bitcoin clients read in a transaction, a list of inputs    *)
(* and one of outputs (chain/bitcoin/blockchair_client.go,                 *)
(* native_client.go FetchTxInfo, tx.go DetectFrom, DetectToAndAmount).     *)
(***************************************************************************)
EXTENDS Integers, Sequences, SequencesExt, FiniteSets, TLC

CONSTANT None

Total(list) == FoldLeft(LAMBDA sum, x : sum + x.value, 0, list)

\* The owner of the first input of the highest value.
DetectFrom(t) ==
  FoldLeft(LAMBDA best, in : IF in.value > best.value THEN in ELSE best,
           [address |-> None, value |-> 0], t.inputs).address

\* Mutant: the last recipient, whoever that is.
DetectLast(t, from) == t.outputs[Len(t.outputs)]

\* The last output that is not the sender's: who gets it, and what it is.
DetectToAndAmount(t, from) ==
  FoldLeft(LAMBDA last, out : IF out.address # from THEN out ELSE last,
           [address |-> None, value |-> 0], t.outputs)

Endpoints(outputs) ==
  [k \in DOMAIN outputs |->
     [contract |-> None, to |-> outputs[k].address, amount |-> outputs[k].value]]

\* Blockchair answers everything at once; the node is asked for the transaction
\* of each input, too.
NextRequest(t, got) ==
  IF "tx" \notin DOMAIN got THEN "tx"
  ELSE IF t.client = "native" /\ Cardinality(DOMAIN got) < 1 + Len(t.inputs)
  THEN "input " \o ToString(Cardinality(DOMAIN got))
  ELSE "done"

\* External: a block confirms what is in it.  The node counts like this.
Depth(node) == IF node.place = 0 THEN 0 ELSE node.height - node.place + 1

BlockchairConfirmations(node) ==
  IF node.place > 0 THEN node.height - node.place + 1 ELSE 0

\* The node reports a fee of its own wallet's transactions only.
NativeFee(t) ==
  IF t.ownFee # 0 THEN t.ownFee
  ELSE IF Total(t.inputs) > Total(t.outputs) THEN Total(t.inputs) - Total(t.outputs) ELSE 0

\* Blockchair's BlockIndex is the block's height, the node's the place in it.
Info(t, got) ==
  LET from == DetectFrom(t)
      detected == DetectToAndAmount(t, from)
      native == t.client = "native"
      paid == IF native THEN t.outputs
              ELSE SelectSeq(t.outputs, LAMBDA out : out.address # from)
  IN  [from |-> from, to |-> detected.address, contract |-> None, amount |-> detected.value,
       fee |-> IF native THEN NativeFee(t) ELSE Total(t.inputs) - Total(t.outputs),
       failed |-> FALSE, block |-> IF native THEN t.position ELSE got["tx"].place,
       confirmations |-> IF native THEN Depth(got["tx"])
                         ELSE BlockchairConfirmations(got["tx"]),
       destinations |-> Endpoints(paid)]
=============================================================================
