--------------------------- MODULE MCSuiTransfer ---------------------------
(* Small instances of SuiSubmission for TLC. Coins differ only in what they *)
(* hold, so the larger ones come first.                                     *)
EXTENDS SuiSubmission

Coin(id, type, balance) == [id |-> id, type |-> type, balance |-> balance, version |-> 1]

Descending(n, most) == { b \in [1..n -> 0..most] : \A i, j \in 1..n : i < j => b[i] >= b[j] }

Held(type, b, first) == { Coin(first + k, type, b[k]) : k \in { i \in DOMAIN b : b[i] > 0 } }

\* Up to three SUI coins of various sizes, or up to two of SUI and of a token.
SuiHoldings   == { Held("sui", b, 0) : b \in Descending(3, 4) }
TokenHoldings == { Held("sui", b, 0) \cup Held("token", t, 2) :
                     b \in Descending(2, 3), t \in Descending(2, 2) }

\* SUI with and without a default gas price; a token the wallet may hold.
WalletStarts ==
  [asset : [type : {"sui"}, price : {0, 2}], coins : SuiHoldings]
  \cup [asset : [type : {"token"}, price : {0}], coins : TokenHoldings]
=============================================================================
