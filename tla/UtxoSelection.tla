--------------------------- MODULE UtxoSelection ---------------------------
(***************************************************************************)
(* allocateMinUtxoSet, the coin selection of the bitcoin TxBuilder, at the *)
(* granularity of its loop iterations: sort the unspent outputs, take from *)
(* the highest until the target is reached, then tack on the smallest ones *)
(* until the transaction has MinUtxo inputs.                               *)
(*                                                                         *)
(* An output is a record [id, value]: its outpoint and the satoshi it      *)
(* holds; scripts and addresses play no part in the selection.             *)
(***************************************************************************)
EXTENDS Utxo

CONSTANTS Values,      \* the values an unspent output may hold
          Targets,     \* the amounts a caller may ask for
          MaxUnspent   \* bound: most unspent outputs the address may have

ASSUME SelectionAssumption ==
  /\ Values \subseteq Nat
  /\ Targets \subseteq Nat
  /\ MaxUnspent \in Nat
  /\ MinUtxo \in Nat

VARIABLES phase,     \* "sort", "high", "low", "done"
          unspent,   \* txInput.UnspentOutputs, sorted in place
          target,    \* targetAmount
          balance,   \* balance
          inputs,    \* the local slice inputs, stored to txInput.Inputs at the end
          hi,        \* lenUTXOIndex: unspent[1..hi] has not been taken from above
          i          \* loop variable of the second loop

selectVars == <<phase, unspent, target, balance, inputs, hi, i>>

Output == [id : 1..MaxUnspent, value : Values]

SelectInit ==
  /\ phase = "sort"
  /\ \E n \in 0..MaxUnspent : \E v \in [1..n -> Values] :
       unspent = [k \in 1..n |-> [id |-> k, value |-> v[k]]]
  /\ target \in Targets
  /\ balance = 0
  /\ inputs = <<>>
  /\ hi = 0
  /\ i = 0

\* 1. sort from lowest to highest
Sort ==
  /\ phase = "sort"
  /\ unspent' \in SortedOrders(unspent)
  /\ hi' = Len(unspent)
  /\ phase' = "high"
  /\ UNCHANGED <<target, balance, inputs, i>>

\* 2. grab the outputs from the highest down while the target is not met
TakeHighest ==
  /\ phase = "high"
  /\ balance < target
  /\ hi > 0
  /\ balance' = balance + unspent[hi].value
  /\ inputs' = Append(inputs, unspent[hi])
  /\ hi' = hi - 1
  /\ UNCHANGED <<phase, unspent, target, i>>

StopHighest ==
  /\ phase = "high"
  /\ balance >= target \/ hi = 0
  /\ phase' = "low"
  /\ UNCHANGED <<unspent, target, balance, inputs, hi, i>>

\* Mutant: the second loop runs to the length of the list.
TakeLowestToEnd ==
  /\ phase = "low"
  /\ Len(inputs) < MinUtxo
  /\ i < Len(unspent)
  /\ balance' = balance + unspent[i + 1].value
  /\ inputs' = Append(inputs, unspent[i + 1])
  /\ i' = i + 1
  /\ UNCHANGED <<phase, unspent, target, hi>>

\* 3. tack on the smallest ones until there are MinUtxo inputs
TakeLowest ==
  /\ phase = "low"
  /\ Len(inputs) < MinUtxo
  /\ i < hi
  /\ balance' = balance + unspent[i + 1].value
  /\ inputs' = Append(inputs, unspent[i + 1])
  /\ i' = i + 1
  /\ UNCHANGED <<phase, unspent, target, hi>>

\* txInput.Inputs = inputs; return &balance
ReturnBalance ==
  /\ phase = "low"
  /\ Len(inputs) >= MinUtxo \/ i >= hi
  /\ phase' = "done"
  /\ UNCHANGED <<unspent, target, balance, inputs, hi, i>>

SelectNext == Sort \/ TakeHighest \/ StopHighest \/ TakeLowest \/ ReturnBalance

SelectSpec == SelectInit /\ [][SelectNext]_selectVars
-----------------------------------------------------------------------------
SelectTypeOK ==
  /\ phase \in {"sort", "high", "low", "done"}
  /\ unspent \in Seq(Output)
  /\ Len(unspent) <= MaxUnspent
  /\ target \in Targets
  /\ balance \in Nat
  /\ inputs \in Seq(Output)
  /\ hi \in 0..Len(unspent)
  /\ i \in 0..hi

\* No output is an input twice: the two loops walk the sorted outputs from
\* both ends and the second one may read up to, never past, the place where
\* the first one stopped (tx_input.go:78-79). A doubled input makes a
\* transaction no node accepts.
NoOutputTwice == Distinct(inputs)

\* When the selection returns, the target is covered unless the address
\* cannot cover it at all: falling short with outputs still left over would
\* fail a transfer the owner can afford.
CoversOrTakesAll ==
  phase = "done" => balance >= target \/ Len(inputs) = Len(unspent)

\* Consolidation really happens: the result has MinUtxo inputs or all there
\* are, so a wallet with at most MinUtxo outputs spends every one of them.
ConsolidatesDust ==
  phase = "done" => Len(inputs) >= MinUtxo \/ Len(inputs) = Len(unspent)

\* No output is taken from the top that was not needed: without the last one
\* taken the balance was below the target.
LastOneWasNeeded ==
  phase = "high" /\ hi < Len(unspent) => balance - unspent[hi + 1].value < target

\* The loops compute the closed form the transfer model uses, its order of
\* inputs included.
ComputesMinUtxoSet ==
  phase = "done" => inputs = MinUtxoSet(unspent, target, MinUtxo)

\* The loops implement the one-step choice of the doc comment.
Choice == INSTANCE UtxoChoice
            WITH available <- Elements(unspent),
                 chosen <- IF phase = "done" THEN Elements(inputs)
                                          ELSE {},
                 balance <- IF phase = "done" THEN balance ELSE 0,
                 decided <- phase = "done"

ImplementsChoice == Choice!Spec
=============================================================================
