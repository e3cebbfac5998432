----------------------------- MODULE AmountHeap -----------------------------
(***************************************************************************)
(* AmountBlockchain over math/big.Int, at the level where its values can   *)
(* share memory. An amount is a header [neg, arr, len] onto an array of    *)
(* words; copying an amount, which Go does on every assignment, parameter  *)
(* and the "sum := *amount" of the methods, copies the header only.        *)
(*                                                                         *)
(* A heap is a sequence of arrays [cap, val]: how many words an array has  *)
(* and the number all its words hold. Array 0 is the nil slice. math/big   *)
(* is external: Make and the Nat operators say which array a result of     *)
(* big.Int goes to, as the Go 1.18 library decides it.                     *)
(***************************************************************************)
EXTENDS Integers, Sequences

CONSTANTS Base,     \* what a word can hold, 2^64
          MaxMag    \* bound: largest magnitude a computation may reach

ASSUME HeapAssumption == Base \in Nat \ {0, 1} /\ MaxMag \in Nat

Nil == [neg |-> FALSE, arr |-> 0, len |-> 0]

Cap(heap, arr) == IF arr = 0 THEN 0 ELSE heap[arr].cap

\* The magnitude and the value an amount reads as.
Mag(heap, x) == IF x.arr = 0 THEN 0 ELSE heap[x.arr].val % Base^x.len

ValueOf(heap, x) == IF x.neg THEN 0 - Mag(heap, x) ELSE Mag(heap, x)

Words(v) == CHOOSE n \in 0..MaxMag : v < Base^n /\ \A k \in 0..(n - 1) : v >= Base^k

Longer(x, y) == IF x.len >= y.len THEN x ELSE y
Shorter(x, y) == IF x.len >= y.len THEN y ELSE x

\* nat.make: a fresh array holds one word, or four to spare.
Alloc(heap, n, v) ==
  [heap |-> Append(heap, [cap |-> IF n = 1 THEN 1 ELSE n + 4, val |-> v]),
   nat  |-> [arr |-> Len(heap) + 1, len |-> Words(v)]]

\* v written into z.make(n): over the low n words of z's array when they fit.
Write(heap, z, v, n) ==
  IF n > Cap(heap, z.arr) THEN Alloc(heap, n, v)
  ELSE [heap |-> IF n = 0 THEN heap
                 ELSE [heap EXCEPT ![z.arr].val = (@ - (@ % Base^n)) + v],
        nat  |-> [arr |-> z.arr, len |-> Words(v)]]

NatAdd(heap, z, x, y) ==
  Write(heap, z, Mag(heap, x) + Mag(heap, y),
        IF Shorter(x, y).len = 0 THEN Longer(x, y).len ELSE Longer(x, y).len + 1)

\* For x at least y; the difference always fits the words of x.
NatSub(heap, z, x, y) == Write(heap, z, Mag(heap, x) - Mag(heap, y), x.len)

\* A factor of one word is multiplied in place, longer ones never are.
NatMul(heap, z, x, y) ==
  LET product == Mag(heap, x) * Mag(heap, y)
      words   == x.len + y.len
  IN  CASE Shorter(x, y).len = 0 -> Write(heap, z, 0, 0)
        [] Shorter(x, y).len = 1 -> Write(heap, z, product, Longer(x, y).len + 1)
        [] OTHER -> Alloc(heap, words, product)

\* The amount of a result: no negative zero.
Signed(result, neg) ==
  [heap   |-> result.heap,
   amount |-> [neg |-> neg /\ result.nat.len > 0,
               arr |-> result.nat.arr, len |-> result.nat.len]]

\* big.Int.Add of x and a number of magnitude y's and sign neg, into z.
IntAdd(heap, z, x, y, neg) ==
  IF x.neg = neg THEN Signed(NatAdd(heap, z, x, y), neg)
  ELSE IF Mag(heap, x) >= Mag(heap, y) THEN Signed(NatSub(heap, z, x, y), x.neg)
  ELSE Signed(NatSub(heap, z, y, x), ~x.neg)
-----------------------------------------------------------------------------
(* The methods of AmountBlockchain: z is a copy of the receiver's header,  *)
(* so the receiver's own array is where big.Int puts the result if it fits.*)

\* Mutant: equal numbers are loaded from one array, like shared constants.
InternedUint64(heap, v) ==
  IF \E a \in 1..Len(heap) : heap[a] = [cap |-> 1, val |-> v] /\ v > 0
  THEN [heap |-> heap,
        amount |-> [neg |-> FALSE, len |-> 1,
                    arr |-> CHOOSE a \in 1..Len(heap) :
                              heap[a] = [cap |-> 1, val |-> v]]]
  ELSE IF v = 0 THEN [heap |-> heap, amount |-> Nil]
  ELSE Signed(Alloc(heap, Words(v), v), FALSE)

NewAmountBlockchainFromUint64(heap, v) ==
  IF v = 0 THEN [heap |-> heap, amount |-> Nil]
  ELSE Signed(Alloc(heap, Words(v), v), FALSE)

\* Mutant: the result is computed over a copy of the argument.
AddIntoArgument(heap, amount, x) == IntAdd(heap, x, amount, x, x.neg)

Add(heap, amount, x) == IntAdd(heap, amount, amount, x, x.neg)

\* Mutant: the operands are the wrong way round.
SubSwapped(heap, amount, x) == IntAdd(heap, amount, x, amount, ~amount.neg)

Sub(heap, amount, x) == IntAdd(heap, amount, amount, x, ~x.neg)

Mul(heap, amount, x) == Signed(NatMul(heap, amount, amount, x), amount.neg # x.neg)

Abs(heap, amount) ==
  [heap |-> heap, amount |-> [amount EXCEPT !.neg = FALSE]]
=============================================================================
