----------------------------- MODULE UtxoChoice -----------------------------
(***************************************************************************)
(* What the doc comment of allocateMinUtxoSet promises, as one step: from  *)
(* the outputs an address can spend, choose the smallest number of outputs *)
(* that covers the target (all of them when they cannot cover it), top the *)
(* set up to MinUtxo outputs with the smallest ones left, and report what  *)
(* the chosen outputs are worth.                                           *)
(***************************************************************************)
EXTENDS Integers, FiniteSets, FiniteSetsExt, Functions

CONSTANTS MinUtxo   \* number of inputs a transfer is topped up to

VARIABLES available,   \* the set of outputs [id, value] that can be spent
          target,      \* the amount to cover
          chosen,      \* the set of outputs chosen, {} before the choice
          balance,     \* what the chosen outputs are worth
          decided      \* whether the choice has been made

choiceVars == <<available, target, chosen, balance, decided>>

Worth(outputs) == SumFunction([o \in outputs |-> o.value])

Covering == { S \in SUBSET available : Worth(S) >= target }

\* The least number of outputs that reaches the target, or all of them.
Needed == IF Covering = {} THEN Cardinality(available)
          ELSE Min({ Cardinality(S) : S \in Covering })

\* The outputs of low are worth no more, one by one, than those of high.
Below(low, high) == \A a \in low, b \in high : a.value <= b.value

\* need covers the target with as few outputs as possible, extra tops it up
\* with the smallest of the others.
Acceptable(need, extra) ==
  LET rest == available \ (need \cup extra)
  IN  /\ Cardinality(need) = Needed
      /\ need \in Covering \/ Covering = {}
      /\ Cardinality(need \cup extra) =
           Max({Needed, Min({MinUtxo, Cardinality(available)})})
      /\ Below(extra, rest)
      /\ Below(rest, need)

Init == /\ chosen = {}
        /\ balance = 0
        /\ decided = FALSE

Choose ==
  /\ ~decided
  /\ decided' = TRUE
  /\ \E need \in SUBSET available :
       \E extra \in SUBSET (available \ need) :
          /\ Acceptable(need, extra)
          /\ chosen' = need \cup extra
          /\ balance' = Worth(need \cup extra)
  /\ UNCHANGED <<available, target>>

Spec == Init /\ [][Choose]_choiceVars
=============================================================================
