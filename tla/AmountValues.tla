---------------------------- MODULE AmountValues ----------------------------
(***************************************************************************)
(* What a caller of AmountBlockchain expects: an amount is a number, an    *)
(* operation gives its result a number and leaves every other amount that  *)
(* is still in use as it was.                                              *)
(***************************************************************************)
EXTENDS Integers

CONSTANTS Vars, Loads

VARIABLES val,    \* the number each variable holds, 0 when it is not in use
          live    \* the variables in use

valueVars == <<val, live>>

Init == val = [v \in Vars |-> 0] /\ live = {}

\* dst becomes n; src may go out of use.
Becomes(dst, n, src) ==
  /\ live' \in {live \cup {dst}, (live \ {src}) \cup {dst}}
  /\ val' = [v \in Vars |-> IF v = dst THEN n
                            ELSE IF v \in live' THEN val[v] ELSE 0]

Next ==
  \E dst \in Vars :
    \/ \E n \in Loads : Becomes(dst, n, dst)
    \/ \E src \in live :
         \/ Becomes(dst, val[src], src)
         \/ Becomes(dst, IF val[src] < 0 THEN 0 - val[src] ELSE val[src], src)
         \/ \E arg \in live :
              Becomes(dst, val[src] + val[arg], src)
         \/ \E arg \in live :
              Becomes(dst, val[src] - val[arg], src)
         \/ \E arg \in live :
              Becomes(dst, val[src] * val[arg], src)

Spec == Init /\ [][Next]_valueVars
=============================================================================
