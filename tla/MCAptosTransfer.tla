-------------------------- MODULE MCAptosTransfer --------------------------
(* Small instances of AptosTransfer for TLC.                               *)
EXTENDS AptosTransfer

\* APT, and a token.
AssetChoice == {[contract |-> "", configured |-> ""],
                [contract |-> "token", configured |-> "token"]}

\* Empty blocks, blocks of free transactions, and of one or two that paid.
BlockChoice == {<<>>, <<0>>, <<1>>, <<1, 0, 4>>}
=============================================================================
