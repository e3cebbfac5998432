-------------------------- MODULE BitcoinProofs --------------------------
(***************************************************************************)
(* Theorems about the coin selection (UtxoSelection), for every list of    *)
(* unspent outputs, every target and every MinUtxo, and about the transfers*)
(* that use it (BitcoinTransfer), for any number of them: what callers are *)
(* told is true, and, while amounts and fees fit in the integers of the    *)
(* code, nothing is lost and what can be paid for is built.                *)
(*                                                                         *)
(* The selection. Shape says where each input came from: the inputs taken  *)
(* by the first loop are the positions above hi, from the top down, those  *)
(* taken by the second loop are the positions 1..i, and i <= hi. No two    *)
(* inputs share a position, so none is taken twice.                        *)
(***************************************************************************)
EXTENDS UtxoSelection, BitcoinTransfer, Facts

N == Len(unspent)

\* The position in unspent of the k-th input.
Position(k) == IF k <= N - hi THEN N + 1 - k ELSE k - (N - hi)

Shape ==
  /\ Distinct(unspent)
  /\ phase = "sort" => hi = 0 /\ i = 0 /\ inputs = <<>>
  /\ phase = "high" => i = 0
  /\ phase # "sort" => /\ Len(inputs) = (N - hi) + i
                    /\ \A k \in 1..Len(inputs) : inputs[k] = unspent[Position(k)]

Enough ==
  /\ phase \in {"low", "done"} => balance >= target \/ hi = 0
  /\ phase = "done" => Len(inputs) >= MinUtxo \/ i = hi

SelectInv == SelectTypeOK /\ Shape /\ Enough /\ LastOneWasNeeded
-----------------------------------------------------------------------------
LEMMA ValueType == \A o \in Output : o.value \in Nat
  BY SelectionAssumption DEF Output

LEMMA SeqOfOutputs ==
  ASSUME NEW s \in Seq(Output)
  PROVE  IsSeq(s) /\ \A k \in 1..Len(s) : s[k] \in Output /\ s[k].value \in Nat
  BY SeqIsSeq, ValueType

\* What a list holds together is what its outputs are worth.
LEMMA TotalIsWorth ==
  ASSUME NEW s, IsSeq(s), Distinct(s), \A k \in 1..Len(s) : s[k].value \in Nat
  PROVE  Total(s) = Worth(Elements(s))
<1> DEFINE g == [k \in 1..Len(s) |-> s[k].value]
           h == [o \in Elements(s) |-> o.value]
<1>1. \A k \in 1..Len(s) : g[k] = h[s[k]] /\ g[k] \in Nat
  BY DEF Elements
<1>2. /\ Total(s) = SumFunctionOnSet(g, 1..Len(s))
      /\ Worth(Elements(s)) = SumFunctionOnSet(h, Elements(s))
  BY DEF Total, Worth, SumFunction
<1> HIDE DEF g, h
<1>3. SumFunctionOnSet(g, 1..Len(s)) = SumFunctionOnSet(h, { s[k] : k \in 1..Len(s) })
  BY <1>1, SumOfElements DEF Distinct
<1> QED BY <1>2, <1>3 DEF Elements

LEMMA TotalType ==
  ASSUME NEW s, IsSeq(s), \A k \in 1..Len(s) : s[k].value \in Nat
  PROVE  Total(s) \in Nat
<1> DEFINE g == [k \in 1..Len(s) |-> s[k].value]
<1>1. Len(s) \in Nat /\ \A k \in 1..Len(s) : g[k] \in Nat
  BY DEF IsSeq
<1>2. Total(s) = SumFunctionOnSet(g, 1..Len(s))
  BY DEF Total, SumFunction
<1> HIDE DEF g
<1> QED BY <1>1, <1>2, SumOfPositions

LEMMA OutputsTotal ==
  ASSUME NEW s \in Seq(Output)
  PROVE  Total(s) \in Nat /\ (Distinct(s) => Total(s) = Worth(Elements(s)))
BY SeqOfOutputs, TotalType, TotalIsWorth

LEMMA SortedOrderType ==
  ASSUME NEW S, NEW s \in Seq(S), NEW t \in SortedOrders(s)
  PROVE  t \in Seq(S) /\ Len(t) = Len(s) /\ Distinct(t)
<1>1. t \in [1..Len(s) -> Elements(s)]
  BY DEF SortedOrders
<1>2. Elements(s) \subseteq S
  BY DEF Elements
<1>3. t \in [1..Len(s) -> S]
  BY <1>1, <1>2
<1>4. Len(s) \in Nat
  OBVIOUS
<1>5. t \in Seq(S) /\ Len(t) = Len(s)
  BY <1>3, <1>4
<1> QED
  BY <1>5 DEF SortedOrders

LEMMA InitSelectInv == SelectInit => SelectInv
<1> SUFFICES ASSUME SelectInit PROVE SelectInv
  OBVIOUS
<1>1. PICK n \in 0..MaxUnspent : \E v \in [1..n -> Values] :
        unspent = [k \in 1..n |-> [id |-> k, value |-> v[k]]]
  BY DEF SelectInit
<1>2. PICK v \in [1..n -> Values] :
        unspent = [k \in 1..n |-> [id |-> k, value |-> v[k]]]
  BY <1>1
<1>3. unspent \in Seq(Output) /\ Len(unspent) = n
  <2>1. n \in Nat /\ n <= MaxUnspent
    BY SelectionAssumption
  <2>2. \A k \in 1..n : [id |-> k, value |-> v[k]] \in Output
    BY <2>1, SelectionAssumption DEF Output
  <2>3. unspent \in [1..n -> Output]
    BY <1>2, <2>2
  <2> QED
    BY <2>1, <2>3
<1>4. Distinct(unspent)
  BY <1>2, <1>3 DEF Distinct
<1>5. SelectTypeOK
  BY <1>3, SelectionAssumption DEF SelectInit, SelectTypeOK
<1> QED
  BY <1>4, <1>5 DEF SelectInit, SelectInv, Shape, Enough, LastOneWasNeeded

LEMMA NextSelectInv == SelectInv /\ [SelectNext]_selectVars => SelectInv'
<1> SUFFICES ASSUME SelectInv, [SelectNext]_selectVars PROVE SelectInv'
  OBVIOUS
<1> USE SelectionAssumption DEF SelectInv
<1>1. CASE Sort
  <2>1. /\ unspent' \in Seq(Output)
        /\ Len(unspent') = Len(unspent)
        /\ Distinct(unspent')
    BY <1>1, SortedOrderType DEF Sort, SelectTypeOK
  <2>2. SelectTypeOK'
    BY <1>1, <2>1 DEF Sort, SelectTypeOK, Shape
  <2>3. Shape'
    BY <1>1, <2>1 DEF Sort, SelectTypeOK, Shape, N
  <2>4. Enough' /\ LastOneWasNeeded'
    BY <1>1, <2>1 DEF Sort, Enough, LastOneWasNeeded
  <2> QED
    BY <2>2, <2>3, <2>4
<1>2. CASE TakeHighest
  <2>1. hi \in 1..Len(unspent) /\ unspent[hi] \in Output /\ i = 0
    BY <1>2 DEF TakeHighest, SelectTypeOK, Shape
  <2>2. unspent[hi].value \in Nat
    BY <2>1 DEF Output
  <2>3. inputs' \in Seq(Output) /\ Len(inputs') = Len(inputs) + 1
    BY <1>2, <2>1 DEF TakeHighest, SelectTypeOK
  <2>4. SelectTypeOK'
    BY <1>2, <2>1, <2>2, <2>3 DEF TakeHighest, SelectTypeOK
  <2>5. Shape'
    <3>1. Len(inputs) = N - hi /\ N \in Nat
      BY <1>2, <2>1 DEF TakeHighest, SelectTypeOK, Shape, N
    <3>2. N' = N /\ hi' = hi - 1 /\ i' = 0 /\ phase' = "high" /\ unspent' = unspent
      BY <1>2, <2>1 DEF TakeHighest, N
    <3>3. \A k \in 1..Len(inputs') : inputs'[k] = unspent[Position(k)']
      <4> SUFFICES ASSUME NEW k \in 1..Len(inputs')
                   PROVE  inputs'[k] = unspent[Position(k)']
        OBVIOUS
      <4>1. Position(k)' = N + 1 - k
        BY <2>1, <2>3, <3>1, <3>2 DEF Position
      <4>2. CASE k = Len(inputs')
        BY <1>2, <2>1, <2>3, <3>1, <4>1, <4>2 DEF TakeHighest, SelectTypeOK
      <4>3. CASE k # Len(inputs')
        <5>1. k \in 1..Len(inputs) /\ inputs'[k] = inputs[k]
          BY <1>2, <2>1, <2>3, <4>3 DEF TakeHighest, SelectTypeOK
        <5>2. Position(k) = N + 1 - k
          BY <3>1, <5>1 DEF Position
        <5> QED
          BY <1>2, <4>1, <5>1, <5>2 DEF Shape, TakeHighest
      <4> QED
        BY <4>2, <4>3
    <3> QED
      BY <2>3, <3>1, <3>2, <3>3, <2>1 DEF Shape, SelectTypeOK
  <2>6. Enough'
    BY <1>2 DEF TakeHighest, Enough
  <2>7. LastOneWasNeeded'
    <3>1. hi' + 1 = hi /\ balance' - unspent[hi].value = balance /\ balance < target
      BY <1>2, <2>1, <2>2 DEF TakeHighest, SelectTypeOK
    <3> QED
      BY <1>2, <3>1 DEF TakeHighest, LastOneWasNeeded
  <2> QED
    BY <2>4, <2>5, <2>6, <2>7
<1>3. CASE StopHighest
  BY <1>3 DEF StopHighest, SelectTypeOK, Shape, Enough, LastOneWasNeeded, N, Position
<1>4. CASE TakeLowest
  <2>1. i + 1 \in 1..Len(unspent) /\ i + 1 <= hi /\ unspent[i + 1] \in Output
    BY <1>4 DEF TakeLowest, SelectTypeOK
  <2>2. unspent[i + 1].value \in Nat
    BY <2>1 DEF Output
  <2>3. inputs' \in Seq(Output) /\ Len(inputs') = Len(inputs) + 1
    BY <1>4, <2>1 DEF TakeLowest, SelectTypeOK
  <2>4. SelectTypeOK'
    BY <1>4, <2>1, <2>2, <2>3, SMTT(30) DEF TakeLowest, SelectTypeOK
  <2>5. Shape'
    <3>1. Len(inputs) = (N - hi) + i /\ N \in Nat /\ hi \in 0..N /\ i \in Nat
      BY <1>4 DEF TakeLowest, SelectTypeOK, Shape, N
    <3>2. N' = N /\ hi' = hi /\ i' = i + 1 /\ phase' = "low" /\ unspent' = unspent
      BY <1>4 DEF TakeLowest, N
    <3>3. \A k \in 1..Len(inputs') : inputs'[k] = unspent[Position(k)']
      <4> SUFFICES ASSUME NEW k \in 1..Len(inputs')
                   PROVE  inputs'[k] = unspent[Position(k)']
        OBVIOUS
      <4>1. Position(k)' = Position(k)
        BY <3>2 DEF Position
      <4>2. CASE k = Len(inputs')
        <5>1. Position(k) = i + 1
          BY <2>3, <3>1, <4>2 DEF Position
        <5> QED
          BY <1>4, <2>1, <2>3, <4>1, <4>2, <5>1 DEF TakeLowest, SelectTypeOK
      <4>3. CASE k # Len(inputs')
        <5>1. k \in 1..Len(inputs) /\ inputs'[k] = inputs[k]
          BY <1>4, <2>1, <2>3, <4>3 DEF TakeLowest, SelectTypeOK
        <5> QED
          BY <1>4, <4>1, <5>1 DEF Shape, TakeLowest
      <4> QED
        BY <4>2, <4>3
    <3> QED
      BY <2>3, <3>1, <3>2, <3>3 DEF Shape
  <2>6. Enough'
    BY <1>4, <2>2 DEF TakeLowest, Enough, SelectTypeOK
  <2>7. LastOneWasNeeded'
    BY <1>4 DEF TakeLowest, LastOneWasNeeded
  <2> QED
    BY <2>4, <2>5, <2>6, <2>7
<1>5. CASE ReturnBalance
  <2>1. SelectTypeOK' /\ LastOneWasNeeded'
    BY <1>5 DEF ReturnBalance, SelectTypeOK, LastOneWasNeeded
  <2>2. Shape'
    BY <1>5 DEF ReturnBalance, Shape, N, Position
  <2>3. Enough'
    BY <1>5 DEF ReturnBalance, Enough, SelectTypeOK
  <2> QED
    BY <2>1, <2>2, <2>3
<1>6. CASE UNCHANGED selectVars
  BY <1>6 DEF selectVars, SelectTypeOK, Shape, Enough, LastOneWasNeeded, N, Position
<1> QED
  BY <1>1, <1>2, <1>3, <1>4, <1>5, <1>6 DEF SelectNext

LEMMA SelectInvariant == SelectSpec => []SelectInv
  BY InitSelectInv, NextSelectInv, PTL DEF SelectSpec
-----------------------------------------------------------------------------
(* Every variable stays in its range, i and hi never cross: the two loops  *)
(* never read outside the list.                                            *)
THEOREM TypeCorrect == SelectSpec => []SelectTypeOK
<1>1. SelectInv => SelectTypeOK
  BY DEF SelectInv
<1> QED
  BY <1>1, SelectInvariant, PTL

(* allocateMinUtxoSet never puts an unspent output into the inputs twice.  *)
THEOREM InputsAreDistinct == SelectSpec => []NoOutputTwice
<1>1. SelectInv => NoOutputTwice
  <2> SUFFICES ASSUME SelectInv, NEW j \in 1..Len(inputs), NEW k \in 1..Len(inputs),
                      inputs[j] = inputs[k]
               PROVE  j = k
    BY DEF NoOutputTwice, Distinct
  <2>1. CASE phase = "sort"
    BY <2>1 DEF SelectInv, Shape
  <2>2. CASE phase # "sort"
    <3>1. /\ N \in Nat /\ hi \in 0..N /\ i \in 0..hi
          /\ Len(inputs) = (N - hi) + i
          /\ unspent[Position(j)] = unspent[Position(k)]
      BY <2>2 DEF SelectInv, Shape, SelectTypeOK, N
    <3>2. Position(j) \in 1..N /\ Position(k) \in 1..N
      BY <3>1 DEF Position
    <3>3. Position(j) = Position(k)
      BY <3>1, <3>2 DEF SelectInv, Shape, Distinct, N
    <3> QED
      BY <3>1, <3>3 DEF Position
  <2> QED
    BY <2>1, <2>2
<1> QED
  BY <1>1, SelectInvariant, PTL

(* When it returns, the target is covered or every output is an input.     *)
THEOREM TargetIsCovered == SelectSpec => []CoversOrTakesAll
<1>1. SelectInv => CoversOrTakesAll
  BY DEF SelectInv, CoversOrTakesAll, Enough, Shape, SelectTypeOK, N
<1> QED
  BY <1>1, SelectInvariant, PTL

(* When it returns, there are MinUtxo inputs or every output is an input.  *)
THEOREM DustIsConsolidated == SelectSpec => []ConsolidatesDust
<1>1. SelectInv => ConsolidatesDust
  BY DEF SelectInv, ConsolidatesDust, Enough, Shape, SelectTypeOK, N
<1> QED
  BY <1>1, SelectInvariant, PTL

(* The first loop never takes one output more than the target needs.       *)
THEOREM NoneTakenInVain == SelectSpec => []LastOneWasNeeded
<1>1. SelectInv => LastOneWasNeeded
  BY DEF SelectInv
<1> QED
  BY <1>1, SelectInvariant, PTL
-----------------------------------------------------------------------------
(* The loops against the closed form. *)

\* The balance is the inputs' worth; the highest outputs taken reach the
\* target, if all together do, and not without the last; the smallest ones
\* tacked on do not exceed MinUtxo.
Counted ==
  /\ balance = Total(inputs)
  /\ phase # "sort" => \A m \in 0..(N - hi - 1) : Total(Highest(unspent, m)) < target
  /\ phase \in {"low", "done"} => hi = 0 \/ Total(Highest(unspent, N - hi)) >= target
  /\ i > 0 => Len(inputs) <= MinUtxo

LEMMA TotalOfAppend ==
  ASSUME NEW s \in Seq(Output), NEW o \in Output
  PROVE  Total(Append(s, o)) = Total(s) + o.value
<1> DEFINE t == Append(s, o)
           n == Len(s)
           g == [k \in 1..Len(t) |-> t[k].value]
           h == [k \in 1..Len(s) |-> s[k].value]
<1>1. n \in Nat /\ Len(t) = n + 1
  OBVIOUS
<1>2. /\ \A k \in 1..n : t[k] = s[k]
      /\ t[n + 1] = o
      /\ \A k \in 1..(n + 1) : t[k] \in Output
  OBVIOUS
<1>3. Total(t) = SumFunctionOnSet(g, 1..(n + 1)) /\ Total(s) = SumFunctionOnSet(h, 1..n)
  BY <1>1 DEF Total, SumFunction
<1> HIDE DEF t
<1>4. /\ \A k \in 1..(n + 1) : g[k] \in Nat
      /\ \A k \in 1..n : h[k] = g[k]
      /\ g[n + 1] = o.value
  BY <1>1, <1>2, ValueType
<1> HIDE DEF g, h, n
<1>5. SumFunctionOnSet(g, 1..(n + 1)) = SumFunctionOnSet(h, 1..n) + g[n + 1]
  BY <1>1, <1>4, SumOfOneMore
<1> QED BY <1>3, <1>4, <1>5 DEF t

LEMMA HighestType ==
  ASSUME NEW s \in Seq(Output), NEW n \in 0..Len(s)
  PROVE  Highest(s, n) \in Seq(Output) /\ Len(Highest(s, n)) = n
<1>1. n \in Nat /\ \A k \in 1..n : s[Len(s) + 1 - k] \in Output
  OBVIOUS
<1>2. Highest(s, n) \in [1..n -> Output]
  BY <1>1 DEF Highest
<1> QED BY <1>1, <1>2

\* While the first loop runs, the inputs are the highest outputs.
LEMMA InputsAreHighest ==
  ASSUME SelectInv, phase = "high"
  PROVE  inputs = Highest(unspent, N - hi)
<1>1. /\ N \in Nat /\ hi \in 0..N /\ i = 0
      /\ inputs \in Seq(Output) /\ Len(inputs) = N - hi
  BY DEF SelectInv, SelectTypeOK, Shape, N
<1>2. \A k \in 1..(N - hi) : inputs[k] = unspent[N + 1 - k]
  BY <1>1 DEF SelectInv, Shape, Position
<1>3. inputs = [k \in 1..(N - hi) |-> unspent[N + 1 - k]]
  BY <1>1, <1>2
<1> QED BY <1>3 DEF Highest, N

LEMMA InitCounted == SelectInit => Counted
<1> SUFFICES ASSUME SelectInit PROVE Counted
  OBVIOUS
<1>1. Total(<<>>) = 0
  <2>1. SumFunctionOnSet([k \in 1..Len(<<>>) |-> <<>>[k].value], {}) = 0
    BY SumEmpty
  <2>2. 1..Len(<<>>) = {}
    OBVIOUS
  <2> QED BY <2>1, <2>2 DEF Total, SumFunction
<1> QED BY <1>1 DEF SelectInit, Counted

LEMMA NextCounted == SelectInv /\ Counted /\ [SelectNext]_selectVars => Counted'
<1> SUFFICES ASSUME SelectInv, Counted, [SelectNext]_selectVars PROVE Counted'
  OBVIOUS
<1>0. /\ N \in Nat /\ hi \in 0..N /\ i \in 0..hi /\ balance \in Nat
      /\ unspent \in Seq(Output) /\ inputs \in Seq(Output) /\ N = Len(unspent)
      /\ target \in Nat /\ MinUtxo \in Nat
  BY SelectionAssumption DEF SelectInv, SelectTypeOK, N
<1>1. CASE Sort
  <2>1. Len(unspent') = Len(unspent)
    BY <1>0, <1>1, SortedOrderType DEF Sort
  <2>2. N' - hi' - 1 = -1 /\ phase' = "high" /\ i' = 0 /\ UNCHANGED <<target, balance, inputs>>
    BY <1>0, <1>1, <2>1 DEF Sort, N, SelectInv, Shape
  <2> QED BY <2>2 DEF Counted
<1>2. CASE TakeHighest
  <2>1. hi \in 1..N /\ unspent[hi] \in Output /\ i = 0
    BY <1>0, <1>2 DEF TakeHighest, SelectInv, Shape
  <2>2. balance' = Total(inputs')
    <3>1. balance' = balance + unspent[hi].value /\ inputs' = Append(inputs, unspent[hi])
      BY <1>2 DEF TakeHighest
    <3> QED BY <1>0, <2>1, <3>1, TotalOfAppend DEF Counted
  <2>3. Total(Highest(unspent, N - hi)) < target
    <3>1. inputs = Highest(unspent, N - hi) /\ balance < target
      BY <1>2, InputsAreHighest DEF TakeHighest
    <3> QED BY <3>1 DEF Counted
  <2>4. \A m \in 0..(N - hi - 1) : Total(Highest(unspent, m)) < target
    BY <1>2 DEF Counted, TakeHighest
  <2>5. N' = N /\ hi' = hi - 1 /\ i' = 0 /\ phase' = "high" /\ UNCHANGED <<unspent, target>>
    BY <1>2, <2>1 DEF TakeHighest, N
  <2>6. \A m \in 0..(N' - hi' - 1) : Total(Highest(unspent', m)) < target'
    <3> SUFFICES ASSUME NEW m \in 0..(N - hi) PROVE Total(Highest(unspent, m)) < target
      BY <1>0, <2>1, <2>5
    <3>1. m = N - hi \/ m \in 0..(N - hi - 1)
      BY <1>0
    <3> QED BY <2>3, <2>4, <3>1
  <2> QED BY <2>2, <2>5, <2>6 DEF Counted
<1>3. CASE StopHighest
  <2>1. hi = 0 \/ Total(Highest(unspent, N - hi)) >= target
    <3>1. inputs = Highest(unspent, N - hi) /\ (balance >= target \/ hi = 0)
      BY <1>3, InputsAreHighest DEF StopHighest
    <3> QED BY <3>1 DEF Counted
  <2>2. phase' = "low" /\ phase = "high" /\ UNCHANGED <<unspent, target, balance, inputs, hi, i, N>>
    BY <1>3 DEF StopHighest, N
  <2> QED BY <2>1, <2>2 DEF Counted
<1>4. CASE TakeLowest
  <2>1. i + 1 \in 1..N /\ unspent[i + 1] \in Output /\ Len(inputs) < MinUtxo
    BY <1>0, <1>4 DEF TakeLowest
  <2>2. balance' = Total(inputs')
    <3>1. balance' = balance + unspent[i + 1].value /\ inputs' = Append(inputs, unspent[i + 1])
      BY <1>4 DEF TakeLowest
    <3> QED BY <1>0, <2>1, <3>1, TotalOfAppend DEF Counted
  <2>3. Len(inputs') <= MinUtxo
    BY <1>0, <1>4, <2>1 DEF TakeLowest
  <2>4. phase' = "low" /\ phase = "low" /\ UNCHANGED <<unspent, target, hi, N>>
    BY <1>4 DEF TakeLowest, N
  <2> QED BY <2>2, <2>3, <2>4 DEF Counted
<1>5. CASE ReturnBalance
  <2>1. phase' = "done" /\ phase = "low" /\ UNCHANGED <<unspent, target, balance, inputs, hi, i, N>>
    BY <1>5 DEF ReturnBalance, N
  <2> QED BY <2>1 DEF Counted
<1>6. CASE UNCHANGED selectVars
  <2>1. UNCHANGED <<phase, unspent, target, balance, inputs, hi, i, N>>
    BY <1>6 DEF selectVars, N
  <2> QED BY <2>1 DEF Counted
<1> QED BY <1>1, <1>2, <1>3, <1>4, <1>5, <1>6 DEF SelectNext

LEMMA CountedInvariant == SelectSpec => [](SelectInv /\ Counted)
  BY InitSelectInv, NextSelectInv, InitCounted, NextCounted, PTL DEF SelectSpec

\* When the first loop has ended it has taken HighestNeeded outputs.
LEMMA TakesHighestNeeded ==
  ASSUME SelectInv, Counted, phase \in {"low", "done"}
  PROVE  HighestNeeded(unspent, target) = N - hi
<1>1. /\ N \in Nat /\ hi \in 0..N /\ N = Len(unspent) /\ unspent \in Seq(Output)
      /\ target \in Nat
  BY SelectionAssumption DEF SelectInv, SelectTypeOK, N
<1> DEFINE Is(n) == /\ n = N \/ Total(Highest(unspent, n)) >= target
                    /\ \A m \in 0..(n - 1) : Total(Highest(unspent, m)) < target
<1>2. \A n \in 0..N : Total(Highest(unspent, n)) \in Nat
  BY <1>1, HighestType, OutputsTotal
<1>3. N - hi \in 0..N /\ Is(N - hi)
  BY <1>1 DEF Counted
<1>4. \A n \in 0..N : Is(n) => n = N - hi
  <2> SUFFICES ASSUME NEW n \in 0..N, Is(n) PROVE n = N - hi
    OBVIOUS
  <2>1. CASE n < N - hi
    <3>1. n # N /\ n \in 0..(N - hi - 1)
      BY <1>1, <2>1
    <3> QED BY <1>1, <1>2, <1>3, <3>1
  <2>2. CASE N - hi < n
    <3>1. N - hi # N /\ N - hi \in 0..(n - 1)
      BY <1>1, <2>2
    <3> QED BY <1>1, <1>2, <1>3, <3>1, SMTT(30)
  <2> QED BY <1>1, <2>1, <2>2
<1>5. HighestNeeded(unspent, target) = CHOOSE n \in 0..N : Is(n)
  BY <1>1 DEF HighestNeeded
<1> HIDE DEF Is
<1> QED BY <1>3, <1>4, <1>5

(* The two loops return what the closed form says, in the same order.      *)
THEOREM ClosedFormIsComputed == SelectSpec => []ComputesMinUtxoSet
<1>1. SelectInv /\ Counted => ComputesMinUtxoSet
  <2> SUFFICES ASSUME SelectInv, Counted, phase = "done"
               PROVE  inputs = MinUtxoSet(unspent, target, MinUtxo)
    BY DEF ComputesMinUtxoSet
  <2>1. /\ N \in Nat /\ hi \in 0..N /\ i \in 0..hi /\ N = Len(unspent)
        /\ unspent \in Seq(Output) /\ inputs \in Seq(Output) /\ MinUtxo \in Nat
        /\ Len(inputs) = (N - hi) + i
    BY SelectionAssumption DEF SelectInv, SelectTypeOK, Shape, N
  <2>2. HighestNeeded(unspent, target) = N - hi
    BY TakesHighestNeeded
  <2> DEFINE room == IF MinUtxo > N - hi THEN MinUtxo - (N - hi) ELSE 0
             low  == IF room < N - (N - hi) THEN room ELSE N - (N - hi)
             top  == Highest(unspent, N - hi)
  <2>3. MinUtxoSet(unspent, target, MinUtxo) = top \o SubSeq(unspent, 1, low)
    BY <2>1, <2>2 DEF MinUtxoSet
  <2>4. low = i
    <3>1. Len(inputs) >= MinUtxo \/ i = hi
      BY DEF SelectInv, Enough
    <3>2. i > 0 => Len(inputs) <= MinUtxo
      BY DEF Counted
    <3> QED BY <2>1, <3>1, <3>2
  <2> HIDE DEF low
  <2>5. top \in Seq(Output) /\ Len(top) = N - hi
    BY <2>1, HighestType
  <2>6. /\ SubSeq(unspent, 1, i) \in Seq(Output) /\ Len(SubSeq(unspent, 1, i)) = i
        /\ \A k \in 1..i : SubSeq(unspent, 1, i)[k] = unspent[k]
    BY <2>1
  <2> DEFINE all == top \o SubSeq(unspent, 1, i)
  <2>7. /\ all \in Seq(Output) /\ Len(all) = Len(inputs)
        /\ \A k \in 1..Len(inputs) :
             all[k] = IF k <= N - hi THEN top[k] ELSE SubSeq(unspent, 1, i)[k - (N - hi)]
    <3> DEFINE tail == SubSeq(unspent, 1, i)
    <3>1. tail \in Seq(Output) /\ Len(tail) = i
      BY <2>6
    <3> HIDE DEF top, tail
    <3>2. (N - hi) + i \in Nat
      BY <2>1
    <3>3. /\ top \o tail \in Seq(Output) /\ Len(top \o tail) = (N - hi) + i
          /\ \A k \in 1..((N - hi) + i) :
               (top \o tail)[k] = IF k <= N - hi THEN top[k] ELSE tail[k - (N - hi)]
      <4> DEFINE n == N - hi
      <4>1. n \in Nat /\ i \in Nat
        BY <2>1
      <4>2. top \in Seq(Output) /\ Len(top) = n /\ tail \in Seq(Output) /\ Len(tail) = i
        BY <2>5, <3>1
      <4> HIDE DEF n
      <4>3. top \o tail \in Seq(Output) /\ Len(top \o tail) = n + i
        BY <4>1, <4>2
      <4>4. ASSUME NEW k \in 1..(n + i)
            PROVE  (top \o tail)[k] = IF k <= n THEN top[k] ELSE tail[k - n]
        BY <4>1, <4>2
      <4> QED BY <4>3, <4>4 DEF n
    <3> QED BY <2>1, <3>3 DEF tail
  <2>8. \A k \in 1..Len(inputs) : all[k] = inputs[k]
    <3> SUFFICES ASSUME NEW k \in 1..Len(inputs) PROVE all[k] = unspent[Position(k)]
      BY DEF SelectInv, Shape
    <3>1. CASE k <= N - hi
      BY <2>1, <2>7, <3>1 DEF Highest, Position
    <3>2. CASE ~ (k <= N - hi)
      <4>1. k - (N - hi) \in 1..i
        BY <2>1, <3>2
      <4>2. all[k] = SubSeq(unspent, 1, i)[k - (N - hi)]
        BY <2>7, <3>2
      <4>3. all[k] = unspent[k - (N - hi)]
        BY <2>6, <4>1, <4>2
      <4> QED BY <3>2, <4>3 DEF Position
    <3> QED BY <3>1, <3>2
  <2> HIDE DEF all
  <2>9. all = inputs
    BY <2>1, <2>7, <2>8
  <2> QED BY <2>3, <2>4, <2>9 DEF all
<1> QED BY <1>1, CountedInvariant, PTL
-----------------------------------------------------------------------------
(* The loops implement the choice that the doc comment promises. Top and   *)
(* Low are what the first and the second loop have taken.                  *)

Top == { unspent[k] : k \in (hi + 1)..N }
Low == { unspent[k] : k \in 1..i }

\* Sorted is said of the list from the time that it is.
SortedOnce == phase # "sort" => Ascending(unspent)

\* Sorting changes the order of the outputs and nothing else.
LEMMA SortingKeepsElements ==
  ASSUME NEW s \in Seq(Output), Distinct(s), NEW t \in SortedOrders(s)
  PROVE  Elements(t) = Elements(s)
<1>1. t \in Seq(Output) /\ Len(t) = Len(s) /\ Distinct(t)
  BY SortedOrderType
<1>2. /\ IsFiniteSet(Elements(s)) /\ Cardinality(Elements(s)) = Len(s)
      /\ IsFiniteSet(Elements(t)) /\ Cardinality(Elements(t)) = Len(t)
  BY <1>1, SeqOfOutputs, ElementsOfList DEF Elements, Distinct
<1>3. Elements(t) \subseteq Elements(s)
  BY <1>1 DEF SortedOrders, Elements
<1> QED BY <1>1, <1>2, <1>3, FS_Subset

LEMMA SortedInvariant == SelectSpec => []SortedOnce
<1>1. SelectInit => SortedOnce
  BY DEF SelectInit, SortedOnce
<1>2. ASSUME SortedOnce, [SelectNext]_selectVars PROVE SortedOnce'
  <2>1. CASE Sort
    BY <2>1 DEF Sort, SortedOnce, SortedOrders
  <2>2. CASE TakeHighest \/ StopHighest \/ TakeLowest \/ ReturnBalance
    BY <1>2, <2>2 DEF TakeHighest, StopHighest, TakeLowest, ReturnBalance, SortedOnce
  <2>3. CASE UNCHANGED selectVars
    BY <1>2, <2>3 DEF selectVars, SortedOnce
  <2> QED BY <1>2, <2>1, <2>2, <2>3 DEF SelectNext
<1> QED BY <1>1, <1>2, PTL DEF SelectSpec

\* What the inputs are: Top and Low, each of the size its loop counted, in an
\* order of value with what is left between them.
LEMMA PartsFacts ==
  ASSUME SelectInv, SortedOnce, phase # "sort"
  PROVE  LET S == Elements(unspent)
         IN  /\ IsFiniteSet(S) /\ Cardinality(S) = N
             /\ Top \in SUBSET S /\ Low \in SUBSET (S \ Top) /\ Elements(inputs) = Top \cup Low
             /\ Top = Elements(Highest(unspent, N - hi)) /\ Cardinality(Top) = N - hi
             /\ Cardinality(Top \cup Low) = (N - hi) + i
             /\ \A a \in S \ Top, b \in Top : a.value <= b.value
             /\ \A a \in Low, b \in S \ (Top \cup Low) : a.value <= b.value
<1> DEFINE S == Elements(unspent)
<1>1. /\ N \in Nat /\ hi \in 0..N /\ i \in 0..hi /\ N = Len(unspent)
      /\ unspent \in Seq(Output) /\ inputs \in Seq(Output) /\ Len(inputs) = (N - hi) + i
      /\ Distinct(unspent) /\ Ascending(unspent)
      /\ \A k \in 1..Len(inputs) : inputs[k] = unspent[Position(k)]
  BY DEF SelectInv, SelectTypeOK, Shape, SortedOnce, N
<1>2. IsFiniteSet(S) /\ Cardinality(S) = N
  BY <1>1, SeqOfOutputs, ElementsOfList DEF Elements, Distinct
<1>3. Top \in SUBSET S /\ Low \in SUBSET S
  BY <1>1 DEF Top, Low, Elements
<1>4. Low \cap Top = {}
  BY <1>1 DEF Top, Low, Distinct
<1>5. Elements(inputs) = Top \cup Low
  <2>1. \A k \in 1..Len(inputs) : Position(k) \in (hi + 1)..N \/ Position(k) \in 1..i
    BY <1>1 DEF Position
  <2>2. \A k \in (hi + 1)..N : N + 1 - k \in 1..Len(inputs) /\ Position(N + 1 - k) = k
    BY <1>1 DEF Position
  <2>3. \A k \in 1..i : k + (N - hi) \in 1..Len(inputs) /\ Position(k + (N - hi)) = k
    BY <1>1 DEF Position
  <2>4. Elements(inputs) \subseteq Top \cup Low
    BY <1>1, <2>1 DEF Elements, Top, Low
  <2>5. Top \subseteq Elements(inputs)
    <3> SUFFICES ASSUME NEW k \in (hi + 1)..N PROVE unspent[k] \in Elements(inputs)
      BY DEF Top
    <3>1. inputs[N + 1 - k] = unspent[k] /\ N + 1 - k \in 1..Len(inputs)
      BY <1>1, <2>2
    <3> QED BY <3>1, Zenon DEF Elements
  <2>6. Low \subseteq Elements(inputs)
    <3> SUFFICES ASSUME NEW k \in 1..i PROVE unspent[k] \in Elements(inputs)
      BY DEF Low
    <3>1. inputs[k + (N - hi)] = unspent[k] /\ k + (N - hi) \in 1..Len(inputs)
      BY <1>1, <2>3
    <3> QED BY <3>1, Zenon DEF Elements
  <2> QED BY <2>4, <2>5, <2>6
<1>6. Cardinality(Top \cup Low) = (N - hi) + i
  <2>1. Distinct(inputs)
    <3> SUFFICES ASSUME NEW j \in 1..Len(inputs), NEW k \in 1..Len(inputs), inputs[j] = inputs[k]
                 PROVE  j = k
      BY DEF Distinct
    <3>1. Position(j) \in 1..N /\ Position(k) \in 1..N
      BY <1>1 DEF Position
    <3>2. Position(j) = Position(k)
      BY <1>1, <3>1 DEF Distinct
    <3> QED BY <1>1, <3>2 DEF Position
  <2> QED BY <1>1, <1>5, <2>1, SeqOfOutputs, ElementsOfList DEF Elements, Distinct
<1>7. Top = Elements(Highest(unspent, N - hi)) /\ Cardinality(Top) = N - hi
  <2> DEFINE h == Highest(unspent, N - hi)
  <2>1. h \in Seq(Output) /\ Len(h) = N - hi
    <3>1. N - hi \in 0..Len(unspent)
      BY <1>1
    <3> QED BY <1>1, <3>1, HighestType
  <2>2. \A k \in 1..(N - hi) : h[k] = unspent[N + 1 - k]
    BY <1>1 DEF Highest
  <2> HIDE DEF h
  <2>3. Elements(h) = Top
    <3>1. \A k \in 1..(N - hi) : N + 1 - k \in (hi + 1)..N
      BY <1>1
    <3>2. \A k \in (hi + 1)..N : N + 1 - k \in 1..(N - hi) /\ N + 1 - (N + 1 - k) = k
      BY <1>1
    <3>3. Elements(h) \subseteq Top
      BY <2>1, <2>2, <3>1 DEF Elements, Top
    <3>4. Top \subseteq Elements(h)
      BY <2>1, <2>2, <3>2 DEF Elements, Top
    <3> QED BY <3>3, <3>4
  <2>4. \A j, k \in 1..Len(h) : h[j] = h[k] => j = k
    <3> SUFFICES ASSUME NEW j \in 1..Len(h), NEW k \in 1..Len(h), h[j] = h[k] PROVE j = k
      OBVIOUS
    <3>1. unspent[N + 1 - j] = unspent[N + 1 - k]
      BY <2>1, <2>2
    <3>2. N + 1 - j \in 1..N /\ N + 1 - k \in 1..N
      BY <1>1, <2>1
    <3>3. N + 1 - j = N + 1 - k
      BY <1>1, <3>1, <3>2 DEF Distinct
    <3> QED BY <1>1, <3>3
  <2>5. Cardinality(Elements(h)) = N - hi
    BY <2>1, <2>4, SeqOfOutputs, ElementsOfList DEF Elements
  <2> QED BY <2>3, <2>5 DEF h
<1>8. \A a \in S \ Top, b \in Top : a.value <= b.value
  <2> SUFFICES ASSUME NEW a \in S \ Top, NEW b \in Top PROVE a.value <= b.value
    OBVIOUS
  <2>1. PICK j \in 1..N : a = unspent[j]
    BY <1>1 DEF Elements
  <2>2. PICK k \in (hi + 1)..N : b = unspent[k]
    BY DEF Top
  <2>3. ~ (j \in (hi + 1)..N)
    BY <2>1 DEF Top
  <2>4. j <= k /\ k \in 1..N
    BY <1>1, <2>3
  <2> QED BY <1>1, <2>1, <2>2, <2>4 DEF Ascending
<1>9. \A a \in Low, b \in S \ (Top \cup Low) : a.value <= b.value
  <2> SUFFICES ASSUME NEW a \in Low, NEW b \in S \ (Top \cup Low) PROVE a.value <= b.value
    OBVIOUS
  <2>1. PICK j \in 1..i : a = unspent[j]
    BY DEF Low
  <2>2. PICK k \in 1..N : b = unspent[k]
    BY <1>1 DEF Elements
  <2>3. ~ (k \in 1..i)
    BY <2>2 DEF Low
  <2>4. j <= k /\ j \in 1..N
    BY <1>1, <2>3
  <2> QED BY <1>1, <2>1, <2>2, <2>4 DEF Ascending
<1> QED BY <1>2, <1>3, <1>4, <1>5, <1>6, <1>7, <1>8, <1>9

\* The choice's own copies of the operators on sets are the same operators.
LEMMA SameOperators ==
  /\ \A S : Choice!Cardinality(S) = Cardinality(S)
  /\ \A S : Choice!Worth(S) = Worth(S)
<1>1. ASSUME NEW S PROVE Choice!Cardinality(S) = Cardinality(S)
  BY DEF Choice!Cardinality, Cardinality
<1>2. ASSUME NEW S PROVE Choice!Worth(S) = Worth(S)
  <2> DEFINE g == [o \in S |-> o.value]
  <2>1. DOMAIN g = S
    OBVIOUS
  <2> HIDE DEF g
  <2>2. Choice!SumFunction(g) = SumFunctionOnSet(g, DOMAIN g)
    BY DEF Choice!SumFunction, Choice!SumFunctionOnSet, SumFunctionOnSet,
           Choice!FoldFunctionOnSet, FoldFunctionOnSet, Choice!MapThenFoldSet, MapThenFoldSet
  <2> QED BY <2>1, <2>2 DEF Choice!Worth, Worth, SumFunction, g
<1> QED BY <1>1, <1>2

\* Worth, within a set of outputs.
LEMMA WorthFacts ==
  ASSUME NEW S, IsFiniteSet(S), \A o \in S : o.value \in Nat, NEW C \in SUBSET S
  PROVE  /\ Worth(C) = SumFunctionOnSet([o \in S |-> o.value], C)
         /\ Worth(C) \in Nat /\ Worth(C) <= Worth(S)
<1> DEFINE g == [o \in S |-> o.value]
           h == [o \in C |-> o.value]
<1>1. IsFiniteSet(C) /\ \A o \in C : h[o] = g[o]
  BY FS_Subset
<1>2. \A o \in S : g[o] \in Nat /\ g[o] \in Int
  OBVIOUS
<1>3. Worth(C) = SumFunctionOnSet(h, C) /\ Worth(S) = SumFunctionOnSet(g, S)
  BY DEF Worth, SumFunction
<1> HIDE DEF g, h
<1>4. SumFunctionOnSet(h, C) = SumFunctionOnSet(g, C)
  BY <1>1, SumSame
<1>5. SumFunctionOnSet(g, S) = SumFunctionOnSet(g, C) + SumFunctionOnSet(g, S \ C)
  BY <1>2, SumParts
<1>6. SumFunctionOnSet(g, C) \in Nat /\ SumFunctionOnSet(g, S \ C) \in Nat
  BY <1>2, SumOfNats
<1> QED BY <1>3, <1>4, <1>5, <1>6 DEF g

\* No outputs are worth more than as many of the highest.
LEMMA HighestAreBest ==
  ASSUME NEW s \in Seq(Output), Distinct(s), Ascending(s),
         NEW C \in SUBSET Elements(s)
  PROVE  /\ Cardinality(C) \in 0..Len(s)
         /\ Worth(C) <= Total(Highest(s, Cardinality(C)))
<1> DEFINE n == Len(s)
           S == Elements(s)
           m == Cardinality(C)
           h == Highest(s, m)
           D == Elements(h)
           g == [o \in S |-> o.value]
<1>1. IsFiniteSet(S) /\ Cardinality(S) = n /\ n \in Nat
  <2>1. IsSeq(s) /\ \A j, k \in 1..Len(s) : s[j] = s[k] => j = k
    BY SeqOfOutputs DEF Distinct
  <2>2. IsFiniteSet(S) /\ Cardinality(S) = n
    BY <2>1, ElementsOfList DEF Elements
  <2> QED BY <2>2
<1>2. m \in 0..n
  BY <1>1, FS_Subset, FS_CardinalityType
<1>3. h \in Seq(Output) /\ Len(h) = m
  BY <1>2, HighestType
<1>4. \A k \in 1..m : h[k] = s[n + 1 - k] /\ n + 1 - k \in 1..n
  BY <1>1, <1>2 DEF Highest
<1>5. \A o \in S : o.value \in Nat
  BY ValueType DEF Elements
<1>6. \A o \in S : g[o] = o.value
  OBVIOUS
<1> HIDE DEF n, m, h, g
<1>7. Distinct(h)
  <2> SUFFICES ASSUME NEW j \in 1..m, NEW k \in 1..m, h[j] = h[k] PROVE j = k
    BY <1>3 DEF Distinct
  <2>1. n + 1 - j = n + 1 - k
    BY <1>4 DEF Distinct, n
  <2> QED BY <1>1, <1>2, <2>1
<1>8. Cardinality(D) = m
  BY <1>3, <1>7, SeqOfOutputs, ElementsOfList DEF Elements, Distinct
<1>9. D \in SUBSET S
  BY <1>3, <1>4 DEF Elements, n
<1>10. \A x \in C \ D, y \in D \ C : g[x] <= g[y]
  <2> SUFFICES ASSUME NEW x \in S \ D, NEW y \in D PROVE x.value <= y.value
    BY <1>6, <1>9
  <2>1. PICK j \in 1..n : x = s[j]
    BY DEF Elements, n
  <2>2. PICK k \in 1..m : y = h[k]
    BY <1>3 DEF Elements
  <2>3. ~ (n + 1 - j \in 1..m)
    <3> SUFFICES ASSUME n + 1 - j \in 1..m PROVE FALSE
      OBVIOUS
    <3>1. h[n + 1 - j] = s[j]
      BY <1>1, <1>4
    <3>2. s[j] \in D
      BY <1>3, <3>1, Zenon DEF Elements
    <3> QED BY <2>1, <3>2
  <2>4. j <= n + 1 - k /\ n + 1 - k \in 1..n
    BY <1>1, <1>2, <1>4, <2>3
  <2> QED BY <1>4, <2>1, <2>2, <2>4 DEF Ascending, n
<1>11. SumFunctionOnSet(g, C) <= SumFunctionOnSet(g, D)
  <2>1. \A o \in S : g[o] \in Nat
    BY <1>5, <1>6
  <2>2. Cardinality(C) = Cardinality(D)
    BY <1>8 DEF m
  <2>3. C \in SUBSET S
    OBVIOUS
  <2> HIDE DEF S, D
  <2> QED BY <1>1, <1>9, <1>10, <2>1, <2>2, <2>3, SumOfBetter
<1>12. Worth(C) = SumFunctionOnSet(g, C) /\ Worth(D) = SumFunctionOnSet(g, D)
  BY <1>1, <1>5, <1>9, WorthFacts DEF g
<1>13. Total(h) = Worth(D)
  BY <1>3, <1>7, OutputsTotal
<1> QED BY <1>2, <1>11, <1>12, <1>13 DEF m, h, n

LEMMA MinMaxOfTwo ==
  ASSUME NEW a \in Int, NEW b \in Int
  PROVE  /\ Choice!Max({a, b}) = IF a >= b THEN a ELSE b
         /\ Choice!Min({a, b}) = IF a <= b THEN a ELSE b
<1>1. ASSUME NEW x \in {a, b}, \A y \in {a, b} : x >= y
      PROVE  x = IF a >= b THEN a ELSE b
  BY <1>1
<1>2. ASSUME NEW x \in {a, b}, \A y \in {a, b} : x <= y
      PROVE  x = IF a <= b THEN a ELSE b
  BY <1>2
<1>3. \E x \in {a, b} : \A y \in {a, b} : x >= y
  OBVIOUS
<1>4. \E x \in {a, b} : \A y \in {a, b} : x <= y
  OBVIOUS
<1>5. /\ Choice!Max({a, b}) = CHOOSE x \in {a, b} : \A y \in {a, b} : x >= y
      /\ Choice!Min({a, b}) = CHOOSE x \in {a, b} : \A y \in {a, b} : x <= y
  BY DEF Choice!Max, Choice!Min
<1> QED BY <1>1, <1>2, <1>3, <1>4, <1>5

\* The first loop takes as few outputs as can cover the target.
LEMMA TopIsNeeded ==
  ASSUME SelectInv, Counted, SortedOnce, phase = "low"
  PROVE  /\ Choice!Needed = N - hi
         /\ Top \in Choice!Covering \/ Choice!Covering = {}
<1> DEFINE S     == Elements(unspent)
           Cov   == Choice!Covering
           Sizes == { Cardinality(C) : C \in Cov }
<1>1. /\ N \in Nat /\ hi \in 0..N /\ N = Len(unspent) /\ unspent \in Seq(Output)
      /\ target \in Nat /\ Distinct(unspent) /\ Ascending(unspent)
  BY SelectionAssumption DEF SelectInv, SelectTypeOK, Shape, SortedOnce, N
<1>2. /\ IsFiniteSet(S) /\ Cardinality(S) = N /\ Top \in SUBSET S
      /\ Top = Elements(Highest(unspent, N - hi)) /\ Cardinality(Top) = N - hi
  BY PartsFacts
<1>3. Cov = { C \in SUBSET S : Worth(C) >= target }
  BY SameOperators DEF Choice!Covering
<1>4. \A o \in S : o.value \in Nat
  BY <1>1, ValueType DEF Elements
<1>5. Worth(Top) = Total(Highest(unspent, N - hi)) /\ Worth(Top) \in Nat
  <2> DEFINE h == Highest(unspent, N - hi)
  <2>1. N - hi \in 0..Len(unspent)
    BY <1>1
  <2>2. h \in Seq(Output) /\ Len(h) = N - hi
    BY <1>1, <2>1, HighestType
  <2>3. Distinct(h)
    <3> SUFFICES ASSUME NEW j \in 1..(N - hi), NEW k \in 1..(N - hi), h[j] = h[k] PROVE j = k
      BY <2>2 DEF Distinct
    <3>1. unspent[N + 1 - j] = unspent[N + 1 - k] /\ N + 1 - j \in 1..N /\ N + 1 - k \in 1..N
      BY <1>1 DEF Highest
    <3>2. N + 1 - j = N + 1 - k
      BY <1>1, <3>1 DEF Distinct
    <3> QED BY <1>1, <3>2
  <2> HIDE DEF h
  <2>4. Total(h) = Worth(Elements(h)) /\ Total(h) \in Nat
    BY <2>2, <2>3, OutputsTotal
  <2> QED BY <1>2, <2>4 DEF h
<1>6. Top \in Cov \/ Cov = {}
  <2>1. CASE hi = 0
    <3>1. Top = S
      BY <1>1, <1>2, <2>1, FS_Subset
    <3>2. \A C \in SUBSET S : Worth(C) \in Nat /\ Worth(C) <= Worth(S)
      BY <1>2, <1>4, WorthFacts
    <3>3. ASSUME NEW C \in Cov PROVE Top \in Cov
      <4>1. C \in SUBSET S /\ Worth(C) >= target
        BY <1>3, <3>3
      <4>2. Worth(S) >= target
        BY <1>1, <1>5, <3>1, <3>2, <4>1
      <4> QED BY <1>3, <3>1, <4>2
    <3> QED BY <3>3
  <2>2. CASE hi # 0
    <3>1. Total(Highest(unspent, N - hi)) >= target
      BY <2>2 DEF Counted
    <3> QED BY <1>2, <1>3, <1>5, <3>1
  <2> QED BY <2>1, <2>2
<1>7. \A C \in Cov : Cardinality(C) \in 0..N /\ Cardinality(C) >= N - hi
  <2> SUFFICES ASSUME NEW C \in Cov PROVE Cardinality(C) \in 0..N /\ Cardinality(C) >= N - hi
    OBVIOUS
  <2> DEFINE m == Cardinality(C)
  <2>1. C \in SUBSET S /\ Worth(C) >= target
    BY <1>3
  <2>2. m \in 0..N /\ Worth(C) <= Total(Highest(unspent, m))
    BY <1>1, <2>1, HighestAreBest
  <2>3. Worth(C) \in Nat /\ Total(Highest(unspent, m)) \in Nat
    BY <1>1, <1>2, <1>4, <2>1, <2>2, WorthFacts, HighestType, OutputsTotal
  <2> HIDE DEF m
  <2>4. ~ (m \in 0..(N - hi - 1))
    BY <1>1, <2>1, <2>2, <2>3 DEF Counted
  <2> QED BY <1>1, <2>2, <2>4 DEF m
<1>8. Choice!Needed = IF Cov = {} THEN Cardinality(S)
                      ELSE CHOOSE x \in Sizes : \A y \in Sizes : x <= y
  <2>1. { Choice!Cardinality(C) : C \in Cov } = Sizes
    BY SameOperators
  <2>2. Choice!Cardinality(S) = Cardinality(S)
    BY SameOperators
  <2>3. Choice!Needed = IF Cov = {} THEN Choice!Cardinality(S)
                        ELSE Choice!Min({ Choice!Cardinality(C) : C \in Cov })
    BY DEF Choice!Needed
  <2>4. Choice!Min(Sizes) = CHOOSE x \in Sizes : \A y \in Sizes : x <= y
    BY DEF Choice!Min
  <2> HIDE DEF Sizes, Cov
  <2> QED BY <2>1, <2>2, <2>3, <2>4
<1>9. CASE Cov = {}
  <2>1. hi = 0
    <3> SUFFICES ASSUME hi # 0 PROVE FALSE
      OBVIOUS
    <3>1. Worth(Top) >= target
      BY <1>5 DEF Counted
    <3>2. Top \in Cov
      BY <1>2, <1>3, <3>1
    <3> QED BY <1>9, <3>2
  <2> QED BY <1>1, <1>2, <1>6, <1>8, <1>9, <2>1
<1>10. CASE Cov # {}
  <2>1. N - hi \in Sizes
    BY <1>2, <1>6, <1>10
  <2>2. \A y \in Sizes : N - hi <= y /\ y \in Int
    BY <1>1, <1>7
  <2> HIDE DEF Sizes
  <2>3. \A x \in Sizes : (\A y \in Sizes : x <= y) => x = N - hi
    BY <1>1, <2>1, <2>2
  <2>4. (CHOOSE x \in Sizes : \A y \in Sizes : x <= y) = N - hi
    BY <2>1, <2>2, <2>3
  <2> QED BY <1>6, <1>8, <1>10, <2>4
<1> QED BY <1>9, <1>10

\* The step that returns makes the choice.
LEMMA ReturnChooses ==
  ASSUME SelectInv, Counted, SortedOnce, ReturnBalance
  PROVE  Choice!Choose
<1> DEFINE S == Elements(unspent)
<1>1. /\ phase = "low" /\ phase' = "done" /\ (Len(inputs) >= MinUtxo \/ i >= hi)
      /\ UNCHANGED <<unspent, target, balance, inputs>>
  BY DEF ReturnBalance
<1>2. /\ N \in Nat /\ hi \in 0..N /\ i \in 0..hi /\ MinUtxo \in Nat
      /\ Len(inputs) = (N - hi) + i /\ inputs \in Seq(Output)
  BY <1>1, SelectionAssumption DEF SelectInv, SelectTypeOK, Shape, N
<1>3. /\ IsFiniteSet(S) /\ Cardinality(S) = N
      /\ Top \in SUBSET S /\ Low \in SUBSET (S \ Top) /\ Elements(inputs) = Top \cup Low
      /\ Cardinality(Top) = N - hi /\ Cardinality(Top \cup Low) = (N - hi) + i
      /\ \A a \in S \ Top, b \in Top : a.value <= b.value
      /\ \A a \in Low, b \in S \ (Top \cup Low) : a.value <= b.value
  BY <1>1, PartsFacts
<1>4. Choice!Needed = N - hi /\ (Top \in Choice!Covering \/ Choice!Covering = {})
  BY <1>1, TopIsNeeded
<1>5. (N - hi) + i = Choice!Max({N - hi, Choice!Min({MinUtxo, N})})
  <2>1. i > 0 => Len(inputs) <= MinUtxo
    BY DEF Counted
  <2>2. MinUtxo \in Int /\ N \in Int /\ N - hi \in Int
    BY <1>2
  <2>3. Choice!Min({MinUtxo, N}) = IF MinUtxo <= N THEN MinUtxo ELSE N
    BY <2>2, MinMaxOfTwo
  <2> DEFINE least == IF MinUtxo <= N THEN MinUtxo ELSE N
  <2>4. least \in Int
    BY <2>2
  <2>5. (N - hi) + i = IF N - hi >= least THEN N - hi ELSE least
    BY <1>1, <1>2, <2>1
  <2> HIDE DEF least
  <2>6. Choice!Max({N - hi, least}) = IF N - hi >= least THEN N - hi ELSE least
    BY <2>2, <2>4, MinMaxOfTwo
  <2> QED BY <2>3, <2>5, <2>6 DEF least
<1>6. Choice!Acceptable(Top, Low)
  BY <1>3, <1>4, <1>5, SameOperators DEF Choice!Acceptable, Choice!Below
<1>7. balance = Choice!Worth(Top \cup Low)
  <2>1. Distinct(inputs)
    <3> SUFFICES ASSUME NEW j \in 1..Len(inputs), NEW k \in 1..Len(inputs), inputs[j] = inputs[k]
                 PROVE  j = k
      BY DEF Distinct
    <3>1. Position(j) \in 1..N /\ Position(k) \in 1..N
      BY <1>2 DEF Position
    <3>2. unspent[Position(j)] = unspent[Position(k)]
      BY <1>1 DEF SelectInv, Shape
    <3>3. Position(j) = Position(k)
      BY <1>2, <3>1, <3>2 DEF SelectInv, Shape, Distinct, N
    <3> QED BY <1>2, <3>3 DEF Position
  <2>2. balance = Worth(Elements(inputs))
    BY <1>2, <2>1, OutputsTotal DEF Counted
  <2> QED BY <1>3, <2>2, SameOperators
<1>8. /\ ~(phase = "done")
      /\ (phase = "done")' = TRUE
      /\ (IF phase = "done" THEN Elements(inputs) ELSE {})' = Top \cup Low
      /\ (IF phase = "done" THEN balance ELSE 0)' = Choice!Worth(Top \cup Low)
      /\ UNCHANGED <<Elements(unspent), target>>
  BY <1>1, <1>3, <1>7 DEF Elements
<1> QED BY <1>3, <1>6, <1>8 DEF Choice!Choose

\* The loops, seen from outside, make one choice: as few outputs as can cover
\* the target, then the smallest ones up to MinUtxo, and their worth.
THEOREM LoopsImplementChoice == SelectSpec => ImplementsChoice
<1>1. SelectInit => Choice!Init
  BY DEF SelectInit, Choice!Init
<1>2. ASSUME SelectInv, Counted, SortedOnce, [SelectNext]_selectVars
      PROVE  [Choice!Choose]_(Choice!choiceVars)
  <2>1. CASE Sort
    <3>1. Elements(unspent') = Elements(unspent)
      BY <1>2, <2>1, SortingKeepsElements DEF Sort, SelectInv, SelectTypeOK, Shape
    <3>2. phase # "done" /\ phase' # "done" /\ target' = target
      BY <2>1 DEF Sort
    <3>3. Elements(unspent)' = Elements(unspent)
      BY <3>1 DEF Elements
    <3> QED BY <3>2, <3>3 DEF Choice!choiceVars
  <2>2. CASE TakeHighest \/ StopHighest \/ TakeLowest
    <3>1. phase # "done" /\ phase' # "done" /\ UNCHANGED <<unspent, target>>
      BY <2>2 DEF TakeHighest, StopHighest, TakeLowest
    <3> QED BY <3>1 DEF Choice!choiceVars, Elements
  <2>3. CASE ReturnBalance
    BY <1>2, <2>3, ReturnChooses
  <2>4. CASE UNCHANGED selectVars
    BY <2>4 DEF selectVars, Choice!choiceVars, Elements
  <2> QED BY <1>2, <2>1, <2>2, <2>3, <2>4 DEF SelectNext
<1> QED BY <1>1, <1>2, CountedInvariant, SortedInvariant, PTL
        DEF SelectSpec, ImplementsChoice, Choice!Spec
-----------------------------------------------------------------------------
(* The transfers. *)

FunctionsOK ==
  /\ pc = [t \in Transfers |-> pc[t]] /\ fetched = [t \in Transfers |-> fetched[t]]
  /\ gas = [t \in Transfers |-> gas[t]] /\ tx = [t \in Transfers |-> tx[t]]
  /\ err = [t \in Transfers |-> err[t]] /\ result = [t \in Transfers |-> result[t]]

\* The error of the last attempt is true of now, and so is what is made of it:
\* while it is being made, nothing is sent.
AnswersOK ==
  \A t \in Transfers :
    /\ err[t] \in {"accepted", "already known"} => t \in accepted
    /\ err[t] = "missingorspent" => t \notin accepted
    /\ result[t] \in {"ok", "TransactionExists"} => t \in accepted
    /\ result[t] = "TransactionFailure" => t \notin accepted
    /\ pc[t] \in {"send", "retry", "return"} => result[t] = "none"

AnswerInv == FunctionsOK /\ AnswersOK /\ accepted \subseteq Transfers

LEMMA AnswerInit == Init => AnswerInv
BY DEF Init, AnswerInv, FunctionsOK, AnswersOK

\* A step that ends no attempt and returns no result.
LEMMA QuietKeeps ==
  ASSUME AnswerInv, UNCHANGED <<err, accepted>>, NEW t \in Transfers, NEW place,
         pc' = [pc EXCEPT ![t] = place] \/ pc' = pc,
         pc[t] \notin {"send", "retry", "return"} => place \notin {"send", "retry", "return"},
         UNCHANGED result,
         fetched' = [u \in Transfers |-> fetched'[u]],
         gas' = [u \in Transfers |-> gas'[u]], tx' = [u \in Transfers |-> tx'[u]]
  PROVE  AnswerInv'
<1>1. FunctionsOK'
  BY DEF AnswerInv, FunctionsOK
<1>2. AnswersOK'
  BY DEF AnswerInv, FunctionsOK, AnswersOK
<1> QED BY <1>1, <1>2 DEF AnswerInv

\* An attempt that ends, with the answer or without it.
LEMMA SendKeeps ==
  ASSUME AnswerInv, NEW t \in Transfers, Send(t)
  PROVE  AnswerInv'
<1> DEFINE taken == Verdict(t) = "accepted"
<1>1. PICK answer :
        /\ err' = [err EXCEPT ![t] = answer]
        /\ \E place \in {"retry", "return"} : pc' = [pc EXCEPT ![t] = place]
        /\ \/ answer = "lost" /\ accepted' = accepted
           \/ answer = "lost" /\ Receive(t)
           \/ answer = Verdict(t) /\ Receive(t)
  BY DEF Send, RequestLost, ResponseLost, Response, Answered, nodeVars
<1>2. pc[t] = "send" /\ UNCHANGED <<fetched, gas, tx, result>>
  BY DEF Send, RequestLost, ResponseLost, Response, Answered, callerVars, signVars
<1>3. Receive(t) => accepted' = IF taken THEN accepted \cup {t} ELSE accepted
  BY DEF Receive, nodeVars
<1>4. /\ Verdict(t) = "already known" => t \in accepted
      /\ Verdict(t) = "missingorspent" => t \notin accepted
      /\ Verdict(t) \in {"accepted", "already known", "invalid", "missingorspent"}
  BY DEF Verdict
<1>5. accepted \subseteq accepted' /\ accepted' \subseteq accepted \cup {t}
  BY <1>1, <1>3
<1>6. FunctionsOK'
  BY <1>1, <1>2 DEF AnswerInv, FunctionsOK
<1>7. AnswersOK'
  <2>1. err'[t] = answer /\ pc'[t] \in {"retry", "return"} /\ result'[t] = "none"
    BY <1>1, <1>2 DEF AnswerInv, FunctionsOK, AnswersOK
  <2>2. /\ answer \in {"accepted", "already known"} => t \in accepted'
        /\ answer = "missingorspent" => t \notin accepted'
    BY <1>1, <1>3, <1>4
  <2>3. \A u \in Transfers \ {t} :
          /\ err'[u] = err[u] /\ pc'[u] = pc[u] /\ result'[u] = result[u]
          /\ u \in accepted' <=> u \in accepted
    BY <1>1, <1>2, <1>5 DEF AnswerInv, FunctionsOK
  <2> QED BY <2>1, <2>2, <2>3 DEF AnswerInv, AnswersOK
<1> QED BY <1>5, <1>6, <1>7 DEF AnswerInv

LEMMA CallKeeps ==
  ASSUME AnswerInv, NEW t \in Transfers, SubmitTx(t) \/ Return(t)
  PROVE  AnswerInv'
<1>1. UNCHANGED <<err, accepted, fetched, gas, tx>>
  BY DEF SubmitTx, Return, callerVars, signVars, nodeVars
<1>2. FunctionsOK'
  BY <1>1 DEF AnswerInv, FunctionsOK, SubmitTx, Return
<1>3. CASE SubmitTx(t)
  BY <1>1, <1>2, <1>3 DEF AnswerInv, FunctionsOK, AnswersOK, SubmitTx
<1>4. CASE Return(t)
  <2> DEFINE r == IF err[t] = "accepted" THEN "ok" ELSE CheckError(err[t])
  <2>1. result' = [result EXCEPT ![t] = r] /\ pc' = [pc EXCEPT ![t] = "built"]
    BY <1>4 DEF Return
  <2>2. /\ r \in {"ok", "TransactionExists"} => err[t] \in {"accepted", "already known"}
        /\ r = "TransactionFailure" => err[t] = "missingorspent"
    BY DEF CheckError
  <2> HIDE DEF r
  <2> QED BY <1>1, <1>2, <2>1, <2>2 DEF AnswerInv, FunctionsOK, AnswersOK
<1> QED BY <1>3, <1>4

LEMMA AnswerInvariant == Spec => []AnswerInv
<1>1. ASSUME AnswerInv, [Next]_vars PROVE AnswerInv'
  <2>1. ASSUME NEW t \in Transfers,
               UnspentOutputs(t) \/ EstimateGas(t) \/ FetchFails(t) \/ NewNativeTransfer(t)
        PROVE  AnswerInv'
    <3>1. UNCHANGED <<err, accepted, result>>
      BY <2>1 DEF UnspentOutputs, EstimateGas, FetchFails, NewNativeTransfer,
                  submitVars, nodeVars
    <3>2. /\ \E place \in {"gas", "input", "not fetched", "built", "not built"} :
                pc' = [pc EXCEPT ![t] = place]
          /\ fetched' = fetched \/ \E list : fetched' = [fetched EXCEPT ![t] = list]
          /\ gas' = gas \/ \E price : gas' = [gas EXCEPT ![t] = price]
          /\ tx' = tx \/ \E new : tx' = [tx EXCEPT ![t] = new]
      BY <2>1 DEF UnspentOutputs, EstimateGas, FetchFails, NewNativeTransfer, callerVars, signVars
    <3>3. /\ fetched' = [u \in Transfers |-> fetched'[u]]
          /\ gas' = [u \in Transfers |-> gas'[u]] /\ tx' = [u \in Transfers |-> tx'[u]]
      BY <1>1, <3>2 DEF AnswerInv, FunctionsOK
    <3> QED BY <1>1, <3>1, <3>2, <3>3, QuietKeeps
  <2>2. ASSUME NEW t \in Transfers, NEW sigs, AddSignatures(t, sigs)
        PROVE  AnswerInv'
    <3>1. UNCHANGED <<pc, err, accepted, result, fetched, gas, tx>>
      BY <2>2 DEF AddSignatures, callerVars, submitVars, nodeVars
    <3> QED BY <1>1, <3>1 DEF AnswerInv, FunctionsOK, AnswersOK
  <2>3. ASSUME NEW t \in Transfers, ContextDone(t) \/ RetryTick(t) \/ GiveUp(t)
        PROVE  AnswerInv'
    <3>1. UNCHANGED <<err, accepted, result, fetched, gas, tx>>
      BY <2>3 DEF ContextDone, RetryTick, GiveUp, callerVars, signVars, submitVars, nodeVars
    <3>2. /\ pc[t] \in {"send", "retry"}
          /\ pc' = pc \/ \E place \in {"send", "return"} : pc' = [pc EXCEPT ![t] = place]
      BY <2>3 DEF ContextDone, RetryTick, GiveUp
    <3> QED BY <1>1, <3>1, <3>2 DEF AnswerInv, FunctionsOK, AnswersOK
  <2>4. ASSUME NEW t \in Transfers, RequestLost(t) \/ ResponseLost(t) \/ Response(t)
        PROVE  AnswerInv'
    BY <1>1, <2>4, SendKeeps DEF Send
  <2>5. ASSUME NEW t \in Transfers, SubmitTx(t) \/ Return(t)
        PROVE  AnswerInv'
    BY <1>1, <2>5, CallKeeps
  <2>6. CASE UNCHANGED vars
    BY <1>1, <2>6 DEF vars, callerVars, signVars, submitVars, nodeVars, AnswerInv,
                      FunctionsOK, AnswersOK
  <2> QED BY <1>1, <2>1, <2>2, <2>3, <2>4, <2>5, <2>6 DEF Next
<1> QED BY AnswerInit, <1>1, PTL DEF Spec

\* Whatever is lost, sent again or overtaken, a caller told of success finds
\* the node to have his transaction, and one told of failure not to have it.
THEOREM ResultsStayTrue == Spec => []ResultsAreTrue
<1>1. AnswerInv => ResultsAreTrue
  BY DEF AnswerInv, AnswersOK, ResultsAreTrue
<1> QED BY <1>1, AnswerInvariant, PTL
-----------------------------------------------------------------------------
\* The most outputs the address may ever have.
Limit == Cardinality(StartOutputs) + Cardinality(Transfers)

\* What the address holds, and what a transfer may cost, is less than the
\* largest number of IntBits bits with a sign.
Fits ==
  /\ Worth(StartOutputs) < 2^(IntBits - 1)
  /\ \A value \in Amounts, price \in GasPrices, n \in 0..Limit :
       value + price * BytesPerInput * n < 2^(IntBits - 1)

\* A list of different outputs of the address.
ListOK(s) ==
  /\ IsSeq(s) /\ Distinct(s) /\ Len(s) <= Limit
  /\ \A k \in 1..Len(s) : s[k].value \in Nat
  /\ Total(s) <= Worth(StartOutputs)

Started == {"input", "not built", "built", "send", "retry", "return"}
Sending == {"built", "send", "retry", "return"}

\* A transaction that was built pays for itself, no less and no more; one that
\* was not, though it has no more outputs than are taken, cannot be paid for.
TransferOK(t) ==
  /\ ListOK(fetched[t])
  /\ pc[t] \in Started => gas[t] \in GasPrices
  /\ pc[t] \in Sending =>
       /\ ListOK(tx[t].inputs)
       /\ tx[t].change \in Nat
       /\ tx[t].change = Change(tx[t].inputs, amount[t], gas[t])
  /\ pc[t] = "not built" /\ Len(fetched[t]) <= MinUtxo =>
       Total(fetched[t]) < amount[t] + Fee(gas[t], fetched[t])

\* Each output is one of the start or the change of an accepted transaction.
OutputsOK ==
  /\ IsFiniteSet(utxo) /\ Cardinality(utxo) <= Cardinality(StartOutputs) + Cardinality(accepted)
  /\ \A o \in utxo : o.value \in Nat /\ \A t \in Transfers \ accepted : o.id # <<t, 2>>
  /\ \A t \in accepted : pc[t] \in Sending

MoneyInv ==
  /\ Fits /\ amount \in [Transfers -> Amounts]
  /\ \A t \in Transfers : TransferOK(t)
  /\ OutputsOK /\ FundsConserved
-----------------------------------------------------------------------------
(* The operators on outputs *)

LEMMA WorthOfPart ==
  ASSUME NEW S, IsFiniteSet(S), \A o \in S : o.value \in Nat, NEW E \in SUBSET S
  PROVE  /\ Worth(E) \in Nat /\ Worth(S \ E) \in Nat
         /\ Worth(S) = Worth(E) + Worth(S \ E)
<1> DEFINE g == [o \in S |-> o.value]
<1>1. \A o \in S : g[o] \in Nat
  OBVIOUS
<1>2. ASSUME NEW T \in SUBSET S
      PROVE  Worth(T) = SumFunctionOnSet(g, T) /\ Worth(T) \in Nat
  <2> DEFINE h == [o \in T |-> o.value]
  <2>1. IsFiniteSet(T) /\ \A o \in T : h[o] = g[o]
    BY FS_Subset
  <2>2. Worth(T) = SumFunctionOnSet(h, T)
    BY DEF Worth, SumFunction
  <2> HIDE DEF g, h
  <2>3. SumFunctionOnSet(g, T) \in Nat
    BY <1>1, SumOfNats
  <2> QED BY <2>1, <2>2, <2>3, SumSame
<1> HIDE DEF g
<1>3. SumFunctionOnSet(g, S) = SumFunctionOnSet(g, E) + SumFunctionOnSet(g, S \ E)
  BY <1>1, SumParts
<1> QED BY <1>2, <1>3

LEMMA WorthOfMore ==
  ASSUME NEW S, IsFiniteSet(S), \A o \in S : o.value \in Nat,
         NEW new, new \notin S, new.value \in Nat
  PROVE  Worth(S \cup {new}) = new.value + Worth(S)
<1> DEFINE T == S \cup {new}
<1>1. IsFiniteSet(T) /\ \A o \in T : o.value \in Nat
  BY FS_AddElement
<1>2. Worth(T) = Worth({new}) + Worth(S)
  <2>1. T \ {new} = S /\ {new} \in SUBSET T
    OBVIOUS
  <2> HIDE DEF T
  <2> QED BY <1>1, <2>1, WorthOfPart
<1>3. Worth({new}) = new.value
  <2> DEFINE g == [o \in {new} |-> o.value]
  <2>1. SumFunctionOnSet(g, {new}) = g[new] + SumFunctionOnSet(g, {new} \ {new})
    <3>1. IsFiniteSet({new})
      BY FS_Singleton
    <3>2. \A x \in {new} : g[x] \in Int
      OBVIOUS
    <3> HIDE DEF g
    <3> QED BY <3>1, <3>2, SumTakesAny
  <2>2. {new} \ {new} = {} /\ SumFunctionOnSet(g, {}) = 0
    BY SumEmpty
  <2>3. Worth({new}) = SumFunctionOnSet(g, {new})
    BY DEF Worth, SumFunction
  <2> QED BY <2>1, <2>2, <2>3
<1> QED BY <1>2, <1>3

LEMMA ElementsFacts ==
  ASSUME NEW s, IsSeq(s), Distinct(s)
  PROVE  IsFiniteSet(Elements(s)) /\ Cardinality(Elements(s)) = Len(s)
BY ElementsOfList DEF Distinct, Elements

\* There is a least number of highest outputs that reaches the amount, or
\* else it takes all.
LEMMA HighestNeededFacts ==
  ASSUME NEW s, IsSeq(s), \A k \in 1..Len(s) : s[k].value \in Nat, NEW goal \in Nat
  PROVE  HighestNeeded(s, goal) \in 0..Len(s)
<1> DEFINE Reach == { n \in 0..Len(s) : n = Len(s) \/ Total(Highest(s, n)) >= goal }
<1>1. Len(s) \in Nat
  BY DEF IsSeq
<1>2. \A n \in 0..Len(s) : Total(Highest(s, n)) \in Nat
  <2> TAKE n \in 0..Len(s)
  <2> DEFINE top == Highest(s, n)
  <2>1. top \in [1..n -> { s[k] : k \in 1..Len(s) }] /\ n \in Nat
    BY <1>1 DEF Highest
  <2>2. IsSeq(top) /\ Len(top) = n
    <3>1. top \in Seq({ s[k] : k \in 1..Len(s) }) /\ Len(top) = n
      BY <2>1
    <3> QED BY <3>1, SeqIsSeq
  <2>3. \A k \in 1..n : top[k].value \in Nat
    BY <2>1
  <2> HIDE DEF top
  <2> QED BY <2>2, <2>3, TotalType DEF top
<1>3. Reach \in SUBSET Nat /\ Len(s) \in Reach
  BY <1>1
<1>4. PICK n \in Reach : \A m \in Nat : m < n => m \notin Reach
  <2> HIDE DEF Reach
  <2> QED BY <1>3, LeastNumber
<1>5. \A m \in 0..(n - 1) : Total(Highest(s, m)) < goal
  <2> SUFFICES ASSUME NEW m \in 0..(n - 1) PROVE Total(Highest(s, m)) < goal
    OBVIOUS
  <2>1. m \in 0..Len(s) /\ m < n /\ m \in Nat
    BY <1>1, <1>4
  <2>2. ~ (Total(Highest(s, m)) >= goal)
    BY <1>4, <2>1
  <2> QED BY <1>2, <2>1, <2>2
<1>6. /\ n \in 0..Len(s)
      /\ n = Len(s) \/ Total(Highest(s, n)) >= goal
  BY <1>4
<1> QED BY <1>5, <1>6, Zenon DEF HighestNeeded

\* Part of a list, each output once; and all of it, if that is few.
LEMMA MinUtxoSetFacts ==
  ASSUME NEW s, IsSeq(s), Distinct(s), \A k \in 1..Len(s) : s[k].value \in Nat,
         NEW goal \in Nat, NEW minUtxo \in Nat
  PROVE  LET m == MinUtxoSet(s, goal, minUtxo)
         IN  /\ IsSeq(m) /\ Distinct(m) /\ Elements(m) \subseteq Elements(s)
             /\ Len(m) <= Len(s)
             /\ Len(s) <= minUtxo => Len(m) = Len(s)
<1> DEFINE n    == Len(s)
           high == HighestNeeded(s, goal)
           room == IF minUtxo > high THEN minUtxo - high ELSE 0
           low  == IF room < n - high THEN room ELSE n - high
           m    == MinUtxoSet(s, goal, minUtxo)
           E    == Elements(s)
<1>1. n \in Nat /\ high \in 0..n
  BY HighestNeededFacts DEF IsSeq
<1>2. low \in 0..(n - high) /\ (n <= minUtxo => low = n - high)
  BY <1>1
<1>3. m = Highest(s, high) \o SubSeq(s, 1, low)
  BY DEF MinUtxoSet
<1> HIDE DEF high, low, m
<1>4. s \in Seq(E)
  BY SeqOfItsElements DEF Elements
<1>5. Highest(s, high) \in Seq(E) /\ Len(Highest(s, high)) = high
  <2>1. \A k \in 1..high : n + 1 - k \in 1..n
    BY <1>1
  <2>2. Highest(s, high) \in [1..high -> E]
    BY <2>1 DEF Highest, Elements
  <2>3. high \in Nat
    BY <1>1
  <2> HIDE DEF n, E
  <2> QED BY <2>2, <2>3
<1>6. /\ SubSeq(s, 1, low) \in Seq(E) /\ Len(SubSeq(s, 1, low)) = low
      /\ \A k \in 1..low : SubSeq(s, 1, low)[k] = s[k]
  BY <1>1, <1>2, <1>4
<1>7. /\ m \in Seq(E) /\ Len(m) = high + low
      /\ \A k \in 1..(high + low) :
           m[k] = IF k <= high THEN s[n + 1 - k] ELSE s[k - high]
  <2>1. m \in Seq(E) /\ Len(m) = high + low
    BY <1>3, <1>5, <1>6
  <2>2. ASSUME NEW k \in 1..(high + low)
        PROVE  m[k] = IF k <= high THEN s[n + 1 - k] ELSE s[k - high]
    <3>1. m[k] = IF k <= high THEN Highest(s, high)[k] ELSE SubSeq(s, 1, low)[k - high]
      BY <1>1, <1>2, <1>3, <1>5, <1>6
    <3>2. CASE k <= high
      BY <1>1, <3>1, <3>2 DEF Highest
    <3>3. CASE ~ (k <= high)
      BY <1>1, <1>2, <1>6, <3>1, <3>3
    <3> QED BY <3>2, <3>3
  <2> QED BY <2>1, <2>2
<1>8. IsSeq(m)
  BY <1>7, SeqIsSeq
<1>9. Distinct(m)
  <2> SUFFICES ASSUME NEW j \in 1..Len(m), NEW k \in 1..Len(m), m[j] = m[k] PROVE j = k
    BY DEF Distinct
  <2> DEFINE at(x) == IF x <= high THEN n + 1 - x ELSE x - high
  <2>1. m[j] = s[at(j)] /\ m[k] = s[at(k)]
    BY <1>7
  <2>2. at(j) \in 1..n /\ at(k) \in 1..n
    BY <1>1, <1>2, <1>7
  <2>3. at(j) = at(k)
    BY <2>1, <2>2 DEF Distinct
  <2> QED BY <1>1, <1>2, <1>7, <2>3
<1>10. Elements(m) \subseteq E
  BY <1>7 DEF Elements
<1>11. Len(m) <= n /\ (n <= minUtxo => Len(m) = n)
  BY <1>1, <1>2, <1>7
<1> QED BY <1>8, <1>9, <1>10, <1>11 DEF m

LEMMA SortedOrderFacts ==
  ASSUME NEW s, IsSeq(s), NEW sorted \in SortedOrders(s)
  PROVE  /\ IsSeq(sorted) /\ Len(sorted) = Len(s) /\ Distinct(sorted)
         /\ Elements(sorted) \subseteq Elements(s)
<1>1. Len(s) \in Nat /\ sorted \in [1..Len(s) -> Elements(s)] /\ Distinct(sorted)
  BY DEF SortedOrders, IsSeq
<1>2. sorted \in Seq(Elements(s)) /\ Len(sorted) = Len(s)
  BY <1>1
<1>3. IsSeq(sorted)
  BY <1>2, SeqIsSeq
<1> QED BY <1>1, <1>2, <1>3 DEF Elements

\* Int64 is the identity on numbers that fit.
LEMMA ToIntFacts ==
  ASSUME NEW v \in Int, 0 - 2^(IntBits - 1) < v, v < 2^(IntBits - 1)
  PROVE  ToInt(v) = v
<1> DEFINE half == 2^(IntBits - 1)
           mag0 == IF v < 0 THEN 0 - v ELSE v
<1>1. half \in Int /\ 2^IntBits = 2 * half /\ 0 - half < v /\ v < half
  BY TransferAssumption, PowerAssumption
<1> HIDE DEF half
<1>2. mag0 \in Nat /\ mag0 < half
  BY <1>1
<1>3. mag0 % 2^IntBits = mag0
  BY <1>1, <1>2
<1> QED BY <1>1, <1>2, <1>3 DEF ToInt, half

\* What a list of outputs holds is worth no more than a set they are all in.
LEMMA ListIsWorth ==
  ASSUME NEW s, IsSeq(s), Distinct(s), NEW S, IsFiniteSet(S), \A o \in S : o.value \in Nat,
         Elements(s) \subseteq S
  PROVE  Total(s) <= Worth(S) /\ Total(s) \in Nat /\ Worth(S) \in Nat
<1>1. \A k \in 1..Len(s) : s[k].value \in Nat
  BY DEF Elements
<1>2. Total(s) = Worth(Elements(s))
  BY <1>1, TotalIsWorth
<1>3. /\ Worth(Elements(s)) \in Nat /\ Worth(S \ Elements(s)) \in Nat
      /\ Worth(S) = Worth(Elements(s)) + Worth(S \ Elements(s))
  BY WorthOfPart
<1> QED BY <1>2, <1>3
-----------------------------------------------------------------------------
(* The steps that change what the address has or will pay. *)

\* What an accepted transfer has cost the address.
Cost == [t \in accepted |-> amount[t] + Fee(gas[t], tx[t].inputs)]

LEMMA LimitType == Limit \in Nat
<1>1. Cardinality(StartOutputs) \in Nat /\ Cardinality(Transfers) \in Nat
  BY TransferAssumption, FS_CardinalityType
<1> QED BY <1>1 DEF Limit

LEMMA FeeType ==
  ASSUME NEW price \in GasPrices, NEW picked, IsSeq(picked)
  PROVE  Fee(price, picked) \in Nat
<1>1. price \in Nat /\ BytesPerInput \in Nat /\ Len(picked) \in Nat
  BY TransferAssumption DEF IsSeq
<1>2. price * BytesPerInput \in Nat
  BY <1>1
<1> DEFINE rate == price * BytesPerInput
<1> HIDE DEF rate
<1>3. rate * Len(picked) \in Nat
  BY <1>1, <1>2 DEF rate
<1> QED BY <1>3 DEF Fee, rate

\* Building neither overflows nor gives up what the outputs can pay for.
LEMMA BuiltFacts ==
  ASSUME Fits, NEW list, ListOK(list), NEW value \in Amounts, NEW price \in GasPrices,
         NEW sorted \in SortedOrders(list)
  PROVE  LET picked == MinUtxoSet(sorted, value, MinUtxo)
             new    == Built(picked, value, price)
         IN  /\ ListOK(picked)
             /\ new.change = Change(picked, value, price) /\ new.change \in Int
             /\ WellFormed(new) => new.change \in Nat
             /\ ~WellFormed(new) /\ Len(list) <= MinUtxo =>
                  Total(list) < value + Fee(price, list)
<1> DEFINE picked == MinUtxoSet(sorted, value, MinUtxo)
           new    == Built(picked, value, price)
           half   == 2^(IntBits - 1)
<1>1. value \in Nat /\ MinUtxo \in Nat /\ half \in Int
  BY TransferAssumption
<1>2. /\ IsSeq(sorted) /\ Len(sorted) = Len(list) /\ Distinct(sorted)
      /\ Elements(sorted) \subseteq Elements(list)
  BY SortedOrderFacts DEF ListOK
<1>3. \A o \in Elements(list) : o.value \in Nat
  BY DEF ListOK, Elements
<1>4. \A k \in 1..Len(sorted) : sorted[k].value \in Nat
  BY <1>2, <1>3 DEF Elements
<1>5. /\ IsSeq(picked) /\ Distinct(picked) /\ Elements(picked) \subseteq Elements(list)
      /\ Len(picked) <= Len(list)
      /\ Len(list) <= MinUtxo => Len(picked) = Len(list)
  BY <1>1, <1>2, <1>4, MinUtxoSetFacts
<1> HIDE DEF picked
<1>6. IsFiniteSet(Elements(list)) /\ Total(list) = Worth(Elements(list))
  BY ElementsFacts, TotalIsWorth DEF ListOK
<1>7. Total(picked) <= Total(list) /\ Total(picked) \in Nat /\ Total(list) \in Nat
  BY <1>3, <1>5, <1>6, ListIsWorth
<1>8. Worth(StartOutputs) \in Nat
  BY TransferAssumption, WorthOfPart
<1>9. /\ Len(picked) \in Nat /\ Len(list) \in Nat /\ Len(list) <= Limit /\ Limit \in Int
      /\ Total(list) <= Worth(StartOutputs)
  <2>1. Len(picked) \in Nat /\ Len(list) \in Nat
    BY <1>5 DEF ListOK, IsSeq
  <2> QED BY <2>1, LimitType DEF ListOK
<1>10. ListOK(picked)
  <2>1. \A k \in 1..Len(picked) : picked[k].value \in Nat
    BY <1>3, <1>5 DEF Elements
  <2>2. Len(picked) <= Limit /\ Total(picked) <= Worth(StartOutputs)
    BY <1>5, <1>7, <1>8, <1>9
  <2> QED BY <1>5, <2>1, <2>2 DEF ListOK
<1>11. Fee(price, picked) \in Nat
  BY <1>5, FeeType
<1>12. value + Fee(price, picked) < half /\ Worth(StartOutputs) < half
  <2>1. Len(picked) \in 0..Limit
    BY <1>5, <1>9
  <2> HIDE DEF half
  <2> QED BY <2>1 DEF Fits, Fee, half
<1>13. /\ Change(picked, value, price) \in Int
       /\ 0 - half < Change(picked, value, price) /\ Change(picked, value, price) < half
  <2> HIDE DEF half
  <2>1. Total(picked) < half
    BY <1>1, <1>7, <1>8, <1>9, <1>12
  <2> QED BY <1>1, <1>7, <1>11, <1>12, <2>1 DEF Change
<1>14. 0 - half < value /\ value < half
  <2> HIDE DEF half
  <2> QED BY <1>1, <1>11, <1>12
<1>15. new.pay = value /\ new.change = Change(picked, value, price)
  BY <1>1, <1>13, <1>14, ToIntFacts DEF Built
<1> HIDE DEF half, new
<1>16. WellFormed(new) <=> Change(picked, value, price) >= 0
  BY <1>1, <1>15 DEF WellFormed
<1>17. ASSUME ~WellFormed(new), Len(list) <= MinUtxo
       PROVE  Total(list) < value + Fee(price, list)
  <2>1. Len(picked) = Len(list)
    BY <1>5, <1>17
  <2>2. Cardinality(Elements(picked)) = Cardinality(Elements(list))
    BY <1>5, <2>1, ElementsFacts DEF ListOK
  <2>3. Elements(picked) = Elements(list)
    BY <1>5, <1>6, <2>2, FS_Subset
  <2>4. Total(picked) = Total(list)
    BY <1>6, <1>10, <2>3, TotalIsWorth DEF ListOK
  <2>5. Fee(price, picked) = Fee(price, list)
    BY <2>1 DEF Fee
  <2> QED BY <1>1, <1>7, <1>11, <1>16, <1>17, <2>4, <2>5 DEF Change
<1> QED BY <1>10, <1>13, <1>15, <1>16, <1>17 DEF new, picked

\* The list that the node answers has each output of the address once.
LEMMA AnsweredList ==
  ASSUME IsFiniteSet(utxo)
  PROVE  /\ IsSeq(SetToSeq(utxo)) /\ Distinct(SetToSeq(utxo))
         /\ Len(SetToSeq(utxo)) = Cardinality(utxo)
         /\ Elements(SetToSeq(utxo)) \subseteq utxo
<1> DEFINE n == Cardinality(utxo)
           s == SetToSeq(utxo)
<1>1. n \in Nat /\ ExistsBijection(1..n, utxo)
  BY FS_CardinalityType
<1>2. \E f \in [1..n -> utxo] : IsInjective(f)
  BY <1>1 DEF ExistsBijection, Bijection, Injection
<1>3. s \in [1..n -> utxo] /\ IsInjective(s)
  BY <1>2 DEF SetToSeq
<1> HIDE DEF s, n
<1>4. s \in Seq(utxo) /\ Len(s) = n
  BY <1>1, <1>3
<1>5. IsSeq(s)
  BY <1>4, SeqIsSeq
<1> QED BY <1>3, <1>4, <1>5 DEF IsInjective, Distinct, Elements, s, n

LEMMA CostType ==
  ASSUME AnswerInv, MoneyInv
  PROVE  /\ IsFiniteSet(accepted)
         /\ \A t \in accepted : Cost[t] \in Nat
         /\ SumFunctionOnSet(Cost, accepted) \in Nat
         /\ Worth(utxo) + SumFunctionOnSet(Cost, accepted) = Worth(StartOutputs)
<1>1. IsFiniteSet(accepted)
  BY TransferAssumption, FS_Subset DEF AnswerInv
<1>2. ASSUME NEW t \in accepted PROVE Cost[t] \in Nat
  <2>1. t \in Transfers /\ pc[t] \in Sending /\ TransferOK(t)
    BY DEF AnswerInv, MoneyInv, OutputsOK
  <2>2. amount[t] \in Nat
    BY <2>1, TransferAssumption DEF MoneyInv
  <2>3. Fee(gas[t], tx[t].inputs) \in Nat
    BY <2>1, FeeType DEF TransferOK, Sending, Started, ListOK
  <2> QED BY <2>2, <2>3 DEF Cost
<1>3. SumFunctionOnSet(Cost, accepted) \in Nat
  BY <1>1, <1>2, SumOfNats
<1>4. Worth(utxo) + SumFunctionOnSet(Cost, accepted) = Worth(StartOutputs)
  BY DEF MoneyInv, FundsConserved, SumFunction, Cost
<1> QED BY <1>1, <1>2, <1>3, <1>4

\* What FetchTxInput reads of the address is a list that transfers can use.
LEMMA FetchedIsOK ==
  ASSUME AnswerInv, MoneyInv
  PROVE  ListOK(SetToSeq(utxo))
<1> DEFINE s == SetToSeq(utxo)
<1>1. IsFiniteSet(utxo) /\ \A o \in utxo : o.value \in Nat
  BY DEF MoneyInv, OutputsOK
<1>2. IsSeq(s) /\ Distinct(s) /\ Len(s) = Cardinality(utxo) /\ Elements(s) \subseteq utxo
  BY <1>1, AnsweredList
<1> HIDE DEF s
<1>3. Len(s) <= Limit
  <2>1. IsFiniteSet(accepted) /\ Cardinality(accepted) <= Cardinality(Transfers)
    BY TransferAssumption, FS_Subset DEF AnswerInv
  <2>2. /\ Cardinality(StartOutputs) \in Nat /\ Cardinality(Transfers) \in Nat
        /\ Cardinality(accepted) \in Nat /\ Cardinality(utxo) \in Nat
    BY <1>1, <2>1, TransferAssumption, FS_CardinalityType
  <2>3. Cardinality(utxo) <= Cardinality(StartOutputs) + Cardinality(accepted)
    BY DEF MoneyInv, OutputsOK
  <2> QED BY <1>2, <2>1, <2>2, <2>3 DEF Limit
<1>4. \A k \in 1..Len(s) : s[k].value \in Nat
  BY <1>1, <1>2 DEF Elements
<1>5. Total(s) <= Worth(utxo) /\ Total(s) \in Nat /\ Worth(utxo) \in Nat
  BY <1>1, <1>2, ListIsWorth
<1>6. Total(s) <= Worth(StartOutputs)
  BY <1>5, CostType
<1> QED BY <1>2, <1>3, <1>4, <1>6 DEF ListOK, s

\* A step that leaves the node and what is accepted alone, and every transfer
\* as it was or right again.
LEMMA MoneyKeeps ==
  ASSUME AnswerInv, MoneyInv, UNCHANGED <<amount, utxo, accepted>>,
         \A t \in Transfers : TransferOK(t)',
         \A t \in accepted : /\ pc'[t] \in Sending
                             /\ gas'[t] = gas[t] /\ tx'[t] = tx[t]
  PROVE  MoneyInv'
<1>1. (amount \in [Transfers -> Amounts])'
  BY DEF MoneyInv
<1>2. OutputsOK'
  BY DEF MoneyInv, OutputsOK
<1>3. [t \in accepted |-> amount[t] + Fee(gas[t], tx[t].inputs)]'
        = [t \in accepted |-> amount[t] + Fee(gas[t], tx[t].inputs)]
  BY DEF Fee
<1>4. Worth(utxo)' = Worth(utxo)
  BY DEF Worth
<1>5. FundsConserved'
  BY <1>3, <1>4 DEF MoneyInv, FundsConserved
<1> QED BY <1>1, <1>2, <1>5 DEF MoneyInv, Fits, Limit

\* Calls of SubmitTx, their attempts and signatures change no transaction.
LEMMA SameTransfer ==
  ASSUME NEW t \in Transfers, TransferOK(t), pc[t] \in Sending <=> pc'[t] \in Sending,
         pc'[t] \in Started => pc[t] \in Started,
         pc'[t] = "not built" => pc[t] = "not built",
         amount'[t] = amount[t], fetched'[t] = fetched[t],
         gas'[t] = gas[t], tx'[t] = tx[t]
  PROVE  TransferOK(t)'
<1>1. ListOK(fetched[t])' = ListOK(fetched[t])
  BY DEF ListOK, IsSeq, Distinct, Total, Limit
<1>2. ListOK(tx[t].inputs)' = ListOK(tx[t].inputs)
  BY DEF ListOK, IsSeq, Distinct, Total, Limit
<1>3. /\ Change(tx[t].inputs, amount[t], gas[t])' = Change(tx[t].inputs, amount[t], gas[t])
      /\ Fee(gas[t], fetched[t])' = Fee(gas[t], fetched[t])
      /\ Total(fetched[t])' = Total(fetched[t])
  BY DEF Change, Fee, Total
<1> QED BY <1>1, <1>2, <1>3 DEF TransferOK

\* A step of one transfer that ends within the same part of it.
LEMMA QuietKeepsMoney ==
  ASSUME AnswerInv, MoneyInv, NEW t \in Transfers, NEW place,
         UNCHANGED <<amount, fetched, gas, tx, utxo, accepted>>,
         pc' = pc \/ pc' = [pc EXCEPT ![t] = place],
         pc[t] \in Sending <=> place \in Sending,
         place \in Started => pc[t] \in Started,
         place # "not built"
  PROVE  MoneyInv'
<1>1. \A u \in Transfers :
        /\ pc[u] \in Sending <=> pc'[u] \in Sending
        /\ pc'[u] \in Started => pc[u] \in Started
        /\ pc'[u] = "not built" => pc[u] = "not built"
  BY DEF AnswerInv, FunctionsOK
<1>2. \A u \in Transfers : TransferOK(u)'
  BY <1>1, SameTransfer DEF MoneyInv
<1>3. \A u \in accepted : u \in Transfers /\ pc[u] \in Sending
  BY DEF AnswerInv, MoneyInv, OutputsOK
<1> QED BY <1>1, <1>2, <1>3, MoneyKeeps

\* A step of one transfer that has not been built yet.
LEMMA EarlyKeepsMoney ==
  ASSUME AnswerInv, MoneyInv, NEW t \in Transfers, pc[t] \notin Sending,
         UNCHANGED <<amount, utxo, accepted>>, TransferOK(t)',
         \A u \in Transfers \ {t} : /\ pc'[u] = pc[u] /\ fetched'[u] = fetched[u]
                                    /\ gas'[u] = gas[u] /\ tx'[u] = tx[u]
  PROVE  MoneyInv'
<1>1. \A u \in Transfers : TransferOK(u)'
  <2> TAKE u \in Transfers
  <2>1. CASE u = t
    BY <2>1
  <2>2. CASE u # t
    BY <2>2, SameTransfer DEF MoneyInv
  <2> QED BY <2>1, <2>2
<1>2. \A u \in accepted : u \in Transfers \ {t} /\ pc[u] \in Sending
  BY DEF AnswerInv, MoneyInv, OutputsOK
<1> QED BY <1>1, <1>2, MoneyKeeps

LEMMA FetchKeepsMoney ==
  ASSUME AnswerInv, MoneyInv, NEW t \in Transfers, UnspentOutputs(t) \/ EstimateGas(t)
  PROVE  MoneyInv'
<1>1. /\ pc[t] \in {"start", "gas"} /\ UNCHANGED <<amount, tx, utxo, accepted>>
      /\ \/ /\ fetched' = [fetched EXCEPT ![t] = SetToSeq(utxo)] /\ gas' = gas
            /\ pc' = [pc EXCEPT ![t] = "gas"]
         \/ /\ fetched' = fetched /\ pc' = [pc EXCEPT ![t] = "input"]
            /\ \E price \in GasPrices : gas' = [gas EXCEPT ![t] = price]
  BY DEF UnspentOutputs, EstimateGas, signVars, nodeVars
<1>2. /\ fetched'[t] \in {fetched[t], SetToSeq(utxo)}
      /\ pc'[t] = "input" => gas'[t] \in GasPrices
      /\ pc'[t] \in {"gas", "input"}
  BY <1>1 DEF AnswerInv, FunctionsOK
<1>3. ListOK(fetched'[t])
  <2>1. ListOK(fetched[t])
    BY DEF MoneyInv, TransferOK
  <2> QED BY <1>2, <2>1, FetchedIsOK
<1>4. ListOK(fetched[t])'
  BY <1>3 DEF ListOK, IsSeq, Distinct, Total, Limit
<1>5. TransferOK(t)'
  BY <1>2, <1>4 DEF TransferOK, Started, Sending
<1>6. \A u \in Transfers \ {t} : /\ pc'[u] = pc[u] /\ fetched'[u] = fetched[u]
                                 /\ gas'[u] = gas[u] /\ tx'[u] = tx[u]
  BY <1>1 DEF AnswerInv, FunctionsOK
<1>7. pc[t] \notin Sending
  BY <1>1 DEF Sending
<1> QED BY <1>1, <1>5, <1>6, <1>7, EarlyKeepsMoney

LEMMA BuildKeepsMoney ==
  ASSUME AnswerInv, MoneyInv, NEW t \in Transfers, NewNativeTransfer(t)
  PROVE  MoneyInv'
<1>1. /\ pc[t] = "input"
      /\ UNCHANGED <<amount, fetched, gas, utxo, accepted>>
  BY DEF NewNativeTransfer, callerVars, nodeVars
<1>2. PICK sorted \in SortedOrders(fetched[t]) :
        LET picked == MinUtxoSet(sorted, amount[t], MinUtxo)
            new    == Built(picked, amount[t], gas[t])
        IN  \/ WellFormed(new) /\ tx' = [tx EXCEPT ![t] = new] /\ pc' = [pc EXCEPT ![t] = "built"]
            \/ ~WellFormed(new) /\ pc' = [pc EXCEPT ![t] = "not built"] /\ tx' = tx
  BY DEF NewNativeTransfer
<1> DEFINE picked == MinUtxoSet(sorted, amount[t], MinUtxo)
           new    == Built(picked, amount[t], gas[t])
<1>3. Fits /\ ListOK(fetched[t]) /\ amount[t] \in Amounts /\ gas[t] \in GasPrices
  BY <1>1 DEF MoneyInv, TransferOK, Started
<1>4. /\ ListOK(picked)
      /\ new.change = Change(picked, amount[t], gas[t])
      /\ WellFormed(new) => new.change \in Nat
      /\ ~WellFormed(new) /\ Len(fetched[t]) <= MinUtxo =>
           Total(fetched[t]) < amount[t] + Fee(gas[t], fetched[t])
  BY <1>3, BuiltFacts
<1>5. new.inputs = picked
  BY DEF Built
<1>6. \/ WellFormed(new) /\ tx' = [tx EXCEPT ![t] = new] /\ pc' = [pc EXCEPT ![t] = "built"]
      \/ ~WellFormed(new) /\ pc' = [pc EXCEPT ![t] = "not built"] /\ tx' = tx
  BY <1>2
<1> HIDE DEF picked, new
<1>7. \A u \in Transfers \ {t} : /\ pc'[u] = pc[u] /\ fetched'[u] = fetched[u]
                                 /\ gas'[u] = gas[u] /\ tx'[u] = tx[u]
  BY <1>1, <1>6 DEF AnswerInv, FunctionsOK
<1>8. ListOK(fetched[t])' /\ gas'[t] \in GasPrices
  BY <1>1, <1>3 DEF ListOK, IsSeq, Distinct, Total, Limit
<1>9. TransferOK(t)'
  <2>1. CASE WellFormed(new)
    <3>1. tx'[t] = new /\ pc'[t] = "built"
      BY <1>6, <2>1 DEF AnswerInv, FunctionsOK
    <3>2. ListOK(tx[t].inputs)'
      BY <1>4, <1>5, <3>1 DEF ListOK, IsSeq, Distinct, Total, Limit
    <3>3. (tx[t].change = Change(tx[t].inputs, amount[t], gas[t]))'
      BY <1>1, <1>4, <1>5, <3>1 DEF Change, Fee, Total
    <3> QED BY <1>4, <1>8, <2>1, <3>1, <3>2, <3>3 DEF TransferOK, Started, Sending
  <2>2. CASE ~WellFormed(new)
    <3>1. pc'[t] = "not built"
      BY <1>6, <2>2 DEF AnswerInv, FunctionsOK
    <3>2. (Len(fetched[t]) <= MinUtxo => Total(fetched[t]) < amount[t] + Fee(gas[t], fetched[t]))'
      BY <1>1, <1>4, <2>2 DEF Fee, Total
    <3> QED BY <1>8, <3>1, <3>2 DEF TransferOK, Started, Sending
  <2> QED BY <2>1, <2>2
<1>10. pc[t] \notin Sending
  BY <1>1 DEF Sending
<1> QED BY <1>1, <1>7, <1>9, <1>10, EarlyKeepsMoney

\* The node takes a transaction: what its picked were worth is what its change
\* is, with the amount and the fee that the transfer has cost.
LEMMA AcceptKeepsMoney ==
  ASSUME AnswerInv, MoneyInv, NEW t \in Transfers, pc[t] = "send",
         Verdict(t) = "accepted", Receive(t),
         UNCHANGED <<amount, fetched, gas, tx>>,
         NEW place \in {"retry", "return"}, pc' = [pc EXCEPT ![t] = place]
  PROVE  MoneyInv'
<1> DEFINE E   == Elements(tx[t].inputs)
           new == [id |-> <<t, 2>>, value |-> tx[t].change]
           S   == utxo \ E
           cost == amount[t] + Fee(gas[t], tx[t].inputs)
<1>1. t \notin accepted /\ E \subseteq utxo
  BY DEF Verdict
<1>2. accepted' = accepted \cup {t} /\ utxo' = S \cup {new}
  BY DEF Receive
<1>3. /\ ListOK(tx[t].inputs) /\ tx[t].change \in Nat /\ gas[t] \in GasPrices
      /\ tx[t].change = Change(tx[t].inputs, amount[t], gas[t])
  BY DEF MoneyInv, TransferOK, Sending, Started
<1>4. /\ IsFiniteSet(utxo)
      /\ Cardinality(utxo) <= Cardinality(StartOutputs) + Cardinality(accepted)
      /\ \A o \in utxo : o.value \in Nat /\ \A u \in Transfers \ accepted : o.id # <<u, 2>>
      /\ \A u \in accepted : u \in Transfers /\ pc[u] \in Sending
  BY DEF AnswerInv, MoneyInv, OutputsOK
<1>5. new.value = tx[t].change /\ new.id = <<t, 2>>
  OBVIOUS
<1>6. IsFiniteSet(S) /\ S \subseteq utxo /\ new \notin S
  BY <1>1, <1>4, <1>5, FS_Subset
<1> HIDE DEF E, S, new
<1>7. \A u \in Transfers : /\ pc[u] \in Sending <=> pc'[u] \in Sending
                           /\ pc'[u] \in Started => pc[u] \in Started
                           /\ pc'[u] = "not built" => pc[u] = "not built"
  BY DEF AnswerInv, FunctionsOK, Sending, Started
<1>8. \A u \in Transfers : TransferOK(u)'
  BY <1>7, SameTransfer DEF MoneyInv
<1>9. OutputsOK'
  <2>1. IsFiniteSet(utxo') /\ Cardinality(utxo') = Cardinality(S) + 1
    BY <1>2, <1>6, FS_AddElement
  <2>2. IsFiniteSet(accepted) /\ Cardinality(accepted') = Cardinality(accepted) + 1
    BY <1>1, <1>2, TransferAssumption, FS_Subset, FS_AddElement DEF AnswerInv
  <2>3. Cardinality(S) <= Cardinality(utxo)
    BY <1>4, <1>6, FS_Subset
  <2>4. /\ Cardinality(S) \in Nat /\ Cardinality(utxo) \in Nat
        /\ Cardinality(accepted) \in Nat /\ Cardinality(StartOutputs) \in Nat
    BY <1>4, <1>6, <2>2, TransferAssumption, FS_CardinalityType
  <2>5. Cardinality(utxo') <= Cardinality(StartOutputs) + Cardinality(accepted')
    BY <1>4, <2>1, <2>2, <2>3, <2>4
  <2>6. \A o \in utxo' : o.value \in Nat /\ \A u \in Transfers \ accepted' : o.id # <<u, 2>>
    BY <1>2, <1>3, <1>4, <1>5, <1>6
  <2>7. \A u \in accepted' : pc'[u] \in Sending
    BY <1>2, <1>4, <1>7 DEF Sending
  <2> QED BY <2>1, <2>5, <2>6, <2>7 DEF OutputsOK
<1>10. FundsConserved'
  <2> DEFINE C == Cost
             D == Cost'
  <2>1. Worth(utxo) = Worth(E) + Worth(S) /\ Worth(E) \in Nat /\ Worth(S) \in Nat
    BY <1>1, <1>4, WorthOfPart DEF S
  <2>2. Worth(utxo') = tx[t].change + Worth(S)
    BY <1>2, <1>3, <1>4, <1>5, <1>6, WorthOfMore
  <2>3. Worth(E) = Total(tx[t].inputs)
    BY <1>3, TotalIsWorth DEF ListOK, E
  <2>4. cost \in Nat
    <3>1. amount[t] \in Nat /\ IsSeq(tx[t].inputs)
      BY <1>3, TransferAssumption DEF MoneyInv, ListOK
    <3>2. Fee(gas[t], tx[t].inputs) \in Nat
      BY <1>3, <3>1, FeeType
    <3> QED BY <3>1, <3>2
  <2>5. tx[t].change = Worth(E) - cost
    BY <1>3, <2>3 DEF Change
  <2>6. /\ IsFiniteSet(accepted)
        /\ \A u \in accepted : C[u] \in Nat
        /\ SumFunctionOnSet(C, accepted) \in Nat
        /\ Worth(utxo) + SumFunctionOnSet(C, accepted) = Worth(StartOutputs)
    BY CostType
  <2>7. D = [u \in accepted' |-> amount[u] + Fee(gas[u], tx[u].inputs)]
    BY DEF Cost, Fee
  <2>8. D[t] = cost /\ \A u \in accepted : D[u] = C[u]
    BY <1>2, <2>7 DEF Cost
  <2>9. IsFiniteSet(accepted') /\ t \in accepted' /\ accepted' \ {t} = accepted
    BY <1>1, <1>2, <2>6, FS_AddElement
  <2> HIDE DEF C, D, cost
  <2>10. \A u \in accepted' : D[u] \in Int
    BY <1>2, <2>4, <2>6, <2>8
  <2>11. SumFunctionOnSet(D, accepted') = D[t] + SumFunctionOnSet(D, accepted)
    BY <2>9, <2>10, SumTakesAny
  <2>12. SumFunctionOnSet(D, accepted) = SumFunctionOnSet(C, accepted)
    BY <2>6, <2>8, SumSame
  <2>13. Worth(utxo') + SumFunctionOnSet(D, accepted') = Worth(StartOutputs)
    BY <2>1, <2>2, <2>4, <2>5, <2>6, <2>8, <2>11, <2>12
  <2>14. DOMAIN D = accepted'
    BY <2>7
  <2>15. (Worth(utxo) + SumFunction(Cost) = Worth(StartOutputs))'
    BY <2>13, <2>14 DEF D, SumFunction, Worth
  <2> QED BY <2>15 DEF FundsConserved, Cost
<1>11. (amount \in [Transfers -> Amounts])' /\ Fits'
  BY DEF MoneyInv, Fits, Limit
<1> QED BY <1>8, <1>9, <1>10, <1>11 DEF MoneyInv

LEMMA SendKeepsMoney ==
  ASSUME AnswerInv, MoneyInv, NEW t \in Transfers, Send(t)
  PROVE  MoneyInv'
<1>1. /\ pc[t] = "send" /\ UNCHANGED <<amount, fetched, gas, tx>>
      /\ \E place \in {"retry", "return"} : pc' = [pc EXCEPT ![t] = place]
      /\ UNCHANGED <<utxo, accepted>> \/ Receive(t)
  BY DEF Send, RequestLost, ResponseLost, Response, Answered, callerVars, signVars, nodeVars
<1>2. PICK place \in {"retry", "return"} : pc' = [pc EXCEPT ![t] = place]
  BY <1>1
<1>3. CASE Receive(t) /\ Verdict(t) = "accepted"
  BY <1>1, <1>2, <1>3, AcceptKeepsMoney
<1>4. CASE ~(Receive(t) /\ Verdict(t) = "accepted")
  <2>1. UNCHANGED <<utxo, accepted>>
    BY <1>1, <1>4 DEF Receive, nodeVars
  <2>2. pc[t] \in Sending /\ pc[t] \in Started /\ place \in Sending /\ place # "not built"
    BY <1>1 DEF Sending, Started
  <2> QED BY <1>1, <1>2, <2>1, <2>2, QuietKeepsMoney
<1> QED BY <1>3, <1>4

LEMMA MoneyInit == Init /\ Fits => MoneyInv
<1> SUFFICES ASSUME Init, Fits PROVE MoneyInv
  OBVIOUS
<1>1. /\ amount \in [Transfers -> Amounts] /\ utxo = StartOutputs /\ accepted = {}
      /\ \A t \in Transfers : pc[t] = "start" /\ fetched[t] = <<>>
  BY DEF Init
<1>2. Total(<<>>) = 0
  <2>1. SumFunctionOnSet([k \in 1..Len(<<>>) |-> <<>>[k].value], {}) = 0
    BY SumEmpty
  <2>2. 1..Len(<<>>) = {}
    OBVIOUS
  <2> QED BY <2>1, <2>2 DEF Total, SumFunction
<1>3. Worth(StartOutputs) \in Nat
  BY TransferAssumption, WorthOfPart
<1>4. ListOK(<<>>)
  <2>1. IsSeq(<<>>) /\ Distinct(<<>>) /\ Len(<<>>) = 0
    BY DEF IsSeq, Distinct
  <2>2. \A k \in 1..Len(<<>>) : <<>>[k].value \in Nat
    OBVIOUS
  <2> QED BY <1>2, <1>3, <2>1, <2>2, LimitType DEF ListOK
<1>5. \A t \in Transfers : TransferOK(t)
  BY <1>1, <1>4 DEF TransferOK, Started, Sending
<1>6. OutputsOK
  <2>1. Cardinality(accepted) = 0 /\ Cardinality(StartOutputs) \in Nat
    BY <1>1, TransferAssumption, FS_EmptySet, FS_CardinalityType
  <2> QED BY <1>1, <2>1, TransferAssumption DEF OutputsOK
<1>7. FundsConserved
  <2> DEFINE C == [t \in accepted |-> amount[t] + Fee(gas[t], tx[t].inputs)]
  <2>1. DOMAIN C = {}
    BY <1>1
  <2> HIDE DEF C
  <2>2. SumFunctionOnSet(C, {}) = 0
    BY SumEmpty
  <2>3. SumFunction(C) = 0
    BY <2>1, <2>2 DEF SumFunction
  <2>4. Worth(utxo) + SumFunction(C) = Worth(StartOutputs)
    BY <1>1, <1>3, <2>3
  <2> QED BY <2>4 DEF FundsConserved, C
<1> QED BY <1>1, <1>5, <1>6, <1>7 DEF MoneyInv

LEMMA MoneyInvariant == Fits /\ Spec => []MoneyInv
<1>1. ASSUME AnswerInv, MoneyInv, [Next]_vars PROVE MoneyInv'
  <2>1. ASSUME NEW t \in Transfers, UnspentOutputs(t) \/ EstimateGas(t)
        PROVE  MoneyInv'
    BY <1>1, <2>1, FetchKeepsMoney
  <2>2. ASSUME NEW t \in Transfers, NewNativeTransfer(t)
        PROVE  MoneyInv'
    BY <1>1, <2>2, BuildKeepsMoney
  <2>3. ASSUME NEW t \in Transfers, RequestLost(t) \/ ResponseLost(t) \/ Response(t)
        PROVE  MoneyInv'
    BY <1>1, <2>3, SendKeepsMoney DEF Send
  <2>4. ASSUME NEW t \in Transfers, NEW sigs,
               \/ FetchFails(t) \/ AddSignatures(t, sigs) \/ SubmitTx(t)
               \/ ContextDone(t) \/ RetryTick(t) \/ GiveUp(t) \/ Return(t)
        PROVE  MoneyInv'
    <3>1. UNCHANGED <<amount, fetched, gas, tx, utxo, accepted>>
      BY <2>4 DEF FetchFails, AddSignatures, SubmitTx, ContextDone, RetryTick, GiveUp,
                  Return, callerVars, signVars, submitVars, nodeVars
    <3>2. \/ /\ pc[t] \in {"start", "gas"} /\ pc' = [pc EXCEPT ![t] = "not fetched"]
          \/ /\ pc[t] \in Sending
             /\ pc' = pc \/ \E place \in Sending : pc' = [pc EXCEPT ![t] = place]
      BY <2>4 DEF FetchFails, AddSignatures, SubmitTx, ContextDone, RetryTick, GiveUp,
                  Return, Sending
    <3>3. \E place : /\ pc' = pc \/ pc' = [pc EXCEPT ![t] = place]
                     /\ pc[t] \in Sending <=> place \in Sending
                     /\ place \in Started => pc[t] \in Started
                     /\ place # "not built"
      BY <3>2 DEF Sending, Started
    <3> QED BY <1>1, <3>1, <3>3, QuietKeepsMoney
  <2>5. CASE UNCHANGED vars
    <3>1. UNCHANGED <<pc, amount, fetched, gas, tx, utxo, accepted>>
      BY <2>5 DEF vars, callerVars, signVars, nodeVars
    <3>2. \A u \in Transfers : TransferOK(u)'
      BY <1>1, <3>1, SameTransfer DEF MoneyInv
    <3>3. \A u \in accepted : u \in Transfers /\ pc[u] \in Sending
      BY <1>1 DEF AnswerInv, MoneyInv, OutputsOK
    <3> QED BY <1>1, <3>1, <3>2, <3>3, MoneyKeeps
  <2> QED BY <1>1, <2>1, <2>2, <2>3, <2>4, <2>5 DEF Next
<1> QED BY MoneyInit, AnswerInvariant, <1>1, PTL DEF Spec

\* Nothing that the address had at the start is gone but the amounts and the
\* fees of the accepted transfers, each taken once.
THEOREM FundsAreConserved == Fits /\ Spec => []FundsConserved
<1>1. MoneyInv => FundsConserved
  BY DEF MoneyInv
<1> QED BY <1>1, MoneyInvariant, PTL

\* A transfer is refused only if the outputs fetched cannot pay for it, or are
\* more than are taken.
THEOREM AffordableIsBuilt == Fits /\ Spec => []AffordableTransfersAreBuilt
<1>1. MoneyInv => AffordableTransfersAreBuilt
  BY DEF MoneyInv, TransferOK, AffordableTransfersAreBuilt
<1> QED BY <1>1, MoneyInvariant, PTL
=============================================================================
