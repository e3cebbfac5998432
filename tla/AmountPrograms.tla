--------------------------- MODULE AmountPrograms ---------------------------
(***************************************************************************)
(* Programs over AmountBlockchain variables: every sequence of loads,      *)
(* assignments and method calls. With Linear, a program gives up the       *)
(* receiver of each operation (x = x.Add(&y), or x is not read again),     *)
(* which is how the balance and fee loops of this library use amounts;     *)
(* without it, the receiver stays in use.                                  *)
(***************************************************************************)
EXTENDS AmountHeap, FiniteSets

CONSTANTS Vars,      \* the variables of the program
          Loads,     \* the numbers it may load
          MaxArrays, \* bound: arrays allocated
          Linear     \* whether receivers are given up

ASSUME ProgramAssumption ==
  Loads \subseteq Nat /\ MaxArrays \in Nat /\ Linear \in BOOLEAN

VARIABLES heap,   \* the arrays
          var,    \* the header each variable holds
          live    \* the variables that may still be read

vars == <<heap, var, live>>

Init ==
  /\ heap = <<>>
  /\ var = [v \in Vars |-> Nil]
  /\ live = {}

\* The variables in use after an operation on recv, whose result is in dst.
LiveAfter(dst, recv) ==
  IF Linear THEN (live \ {recv}) \cup {dst} ELSE live \cup {dst}

\* dst gets the result; what a variable out of use holds is forgotten.
Store(dst, recv, result) ==
  /\ Len(result.heap) <= MaxArrays
  /\ heap' = result.heap
  /\ live' = LiveAfter(dst, recv)
  /\ var' = [v \in Vars |-> IF v = dst THEN result.amount
                            ELSE IF v \in live' THEN var[v] ELSE Nil]

Load(dst, n) == Store(dst, dst, NewAmountBlockchainFromUint64(heap, n))

\* Go's assignment of the struct: the header is copied.
Assign(dst, src) ==
  /\ src \in live
  /\ dst # src
  /\ Store(dst, src, [heap |-> heap, amount |-> var[src]])

InRange(n) == n <= MaxMag /\ 0 - n <= MaxMag

AddStep(dst, recv, arg) ==
  /\ recv \in live /\ arg \in live
  /\ InRange(ValueOf(heap, var[recv]) + ValueOf(heap, var[arg]))
  /\ Store(dst, recv, Add(heap, var[recv], var[arg]))

SubStep(dst, recv, arg) ==
  /\ recv \in live /\ arg \in live
  /\ InRange(ValueOf(heap, var[recv]) - ValueOf(heap, var[arg]))
  /\ Store(dst, recv, Sub(heap, var[recv], var[arg]))

MulStep(dst, recv, arg) ==
  /\ recv \in live /\ arg \in live
  /\ InRange(ValueOf(heap, var[recv]) * ValueOf(heap, var[arg]))
  /\ Store(dst, recv, Mul(heap, var[recv], var[arg]))

AbsStep(dst, recv) ==
  /\ recv \in live
  /\ Store(dst, recv, Abs(heap, var[recv]))

Next ==
  \E dst \in Vars :
    \/ \E n \in Loads : Load(dst, n)
    \/ \E recv \in Vars : Assign(dst, recv)
    \/ \E recv \in Vars : AbsStep(dst, recv)
    \/ \E recv, arg \in Vars : AddStep(dst, recv, arg)
    \/ \E recv, arg \in Vars : SubStep(dst, recv, arg)
    \/ \E recv, arg \in Vars : MulStep(dst, recv, arg)

Spec == Init /\ [][Next]_vars
-----------------------------------------------------------------------------
TypeOK ==
  /\ \A a \in 1..Len(heap) : heap[a].cap \in Nat /\ heap[a].val \in Nat
  /\ \A v \in Vars : /\ var[v].neg \in BOOLEAN
                     /\ var[v].arr \in 0..Len(heap)
                     /\ var[v].len \in 0..Cap(heap, var[v].arr)
  /\ live \subseteq Vars

\* No two amounts in use share an array. Every receiver's array may be
\* written by the call, so this is what an operation needs to be harmless.
Separated ==
  \A u, v \in live : u # v /\ var[u].arr = var[v].arr => var[u].arr = 0

\* An operation changes the number of one amount only, the one it is assigned
\* to; every other amount in use reads as it did before.
OthersUnchanged ==
  [][\E dst \in Vars :
       \A v \in live' \ {dst} :
         v \in live /\ ValueOf(heap', var'[v]) = ValueOf(heap, var[v])]_vars

Values == INSTANCE AmountValues
            WITH val <- [v \in Vars |-> IF v \in live THEN ValueOf(heap, var[v])
                                                      ELSE 0]

\* Amounts behave as numbers: an operation changes its destination alone.
ImplementsValues == Values!Spec
=============================================================================
