------------------------------- MODULE Routes -------------------------------
(***************************************************************************)
(* The routes of the dashboard's bridge planner and how one is chosen.     *)
(* A chain is a name in upper case, as the handlers leave it.              *)
(***************************************************************************)
EXTENDS Integers, FiniteSets

Wildcard == "*"

\* The three routes of NewService; "ord" is the rank of the id as a string.
Table ==
  { [id |-> "pipeline-default", ord |-> 1,
     from |-> Wildcard, to |-> Wildcard, fast |-> FALSE],
    [id |-> "pipeline-solana-firedancer-in", ord |-> 2,
     from |-> Wildcard, to |-> "SOL", fast |-> TRUE],
    [id |-> "pipeline-solana-firedancer-out", ord |-> 3,
     from |-> "SOL", to |-> Wildcard, fast |-> TRUE] }

Candidates(from, to) ==
  { r \in Table : r.from \in {Wildcard, from} /\ r.to \in {Wildcard, to} }

Specificity(r) == Cardinality({ end \in {"from", "to"} : r[end] # Wildcard })
                  + IF r.fast THEN 1 ELSE 0

Precedes(r, s) ==
  \/ Specificity(r) > Specificity(s)
  \/ Specificity(r) = Specificity(s) /\ r.ord < s.ord

First(routes) == CHOOSE r \in routes : \A s \in routes \ {r} : Precedes(r, s)

\* The candidates in the order routesFor sorts them.
RoutesFor(from, to) ==
  LET found == Candidates(from, to)
  IN  CHOOSE seq \in [1..Cardinality(found) -> found] :
        \A i, j \in 1..Cardinality(found) : i < j => Precedes(seq[i], seq[j])

\* For chains with a candidate; the preferred ones come first, if asked for.
SelectRoute(from, to, prefer) ==
  LET found == Candidates(from, to)
      fast  == { r \in found : r.fast }
  IN  First(IF prefer /\ fast # {} THEN fast ELSE found)
=============================================================================
