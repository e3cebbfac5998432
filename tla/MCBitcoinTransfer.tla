------------------------- MODULE MCBitcoinTransfer -------------------------
(* Instance of BitcoinTransfer for TLC. *)
EXTENDS BitcoinTransfer

StartOutput(k, v) == [id |-> <<"start", k>>, value |-> v]

\* An address with two outputs, one of which pays for a small transfer alone.
TwoOutputs == { StartOutput(1, 4), StartOutput(2, 7) }

\* Three outputs, more than the selection takes for a small transfer.
ThreeOutputs == { StartOutput(1, 2), StartOutput(2, 4), StartOutput(3, 4) }
=============================================================================
