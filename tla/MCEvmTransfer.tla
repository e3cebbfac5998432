--------------------------- MODULE MCEvmTransfer ---------------------------
(* Instance of EvmTransfer for TLC. *)
EXTENDS EvmTransfer

TwoOrders == { [to |-> "ann", amount |-> 2], [to |-> "bob", amount |-> 3] }

\* A dynamic-fee chain, a legacy one and one without gas fees.
ThreeAssets ==
  { [legacy |-> FALSE, tip |-> 0, noGas |-> FALSE],
    [legacy |-> TRUE,  tip |-> 0, noGas |-> FALSE],
    [legacy |-> FALSE, tip |-> 0, noGas |-> TRUE] }

BeforeAndAfter == <<6, 20>>
=============================================================================
