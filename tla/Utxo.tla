-------------------------------- MODULE Utxo --------------------------------
(***************************************************************************)
(* What the bitcoin modules compute on lists of unspent outputs, each a    *)
(* record with an id (its outpoint) and a value (satoshi).                 *)
(***************************************************************************)
EXTENDS Integers, Sequences, Functions

CONSTANT MinUtxo   \* the minUtxo argument, 10 at the only call site (builder.go:60)

Ascending(s) == \A j, k \in 1..Len(s) : j <= k => s[j].value <= s[k].value

Distinct(s) == \A j, k \in 1..Len(s) : s[j] = s[k] => j = k

Elements(s) == { s[k] : k \in 1..Len(s) }

\* Mutant: the list is used in the order the server sent it.
UnsortedOrders(s) == {s}

\* Every order sort.Slice may leave the outputs of s in. Its comparator is
\* <=, no strict order, so equal values may come out either way round.
SortedOrders(s) ==
  { t \in [1..Len(s) -> Elements(s)] : Distinct(t) /\ Ascending(t) }

\* What the outputs of s hold together.
Total(s) == SumFunction([k \in 1..Len(s) |-> s[k].value])

\* The n highest outputs of the ascending list s, from the highest down.
Highest(s, n) == [k \in 1..n |-> s[Len(s) + 1 - k]]

\* How many of the highest outputs of s it takes to reach amount, at most all.
HighestNeeded(s, amount) ==
  CHOOSE n \in 0..Len(s) :
     /\ n = Len(s) \/ Total(Highest(s, n)) >= amount
     /\ \A m \in 0..(n - 1) : Total(Highest(s, m)) < amount

\* Mutant: no smallest outputs are tacked on.
OnlyHighest(s, amount, minUtxo) == Highest(s, HighestNeeded(s, amount))

\* allocateMinUtxoSet as a function of the sorted list: the highest outputs
\* that reach amount, then the smallest others up to minUtxo inputs.
MinUtxoSet(s, amount, minUtxo) ==
  LET high == HighestNeeded(s, amount)
      room == IF minUtxo > high THEN minUtxo - high ELSE 0
      low  == IF room < Len(s) - high THEN room ELSE Len(s) - high
  IN  Highest(s, high) \o SubSeq(s, 1, low)
=============================================================================
